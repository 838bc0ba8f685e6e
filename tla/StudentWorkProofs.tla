--------------------------- MODULE StudentWorkProofs ---------------------------
(***************************************************************************)
(* For any number of rows, requests, workers, messages and failures: the   *)
(* grade ledger of the labs agrees with the evaluations and is never       *)
(* changed, a guide approves the evaluation of the file that a document    *)
(* holds and ratifies the judgement of the answers that a viva holds, and  *)
(* no task takes either back.  Each component's invariant is of the form   *)
(* of CurriculumProofs: records over one set of names, what holds whatever *)
(* overlaps, and what the check of each request still finds at its write.  *)
(* The last part types every component, the answers of the AI included.    *)
(***************************************************************************)
EXTENDS CurriculumProofs, MCCurriculum, FiniteSetTheorems, SequenceTheorems

----------------------------------------------------------------------------
(* Lab submissions.                                                        *)

\* The columns of a submission and its records, over one set of names.
LabRow(V) == [student : V, status : V, eval : [ai : V, human : V], ledger : V]

LabShape(V) ==
    /\ asg \in [status : V, rubric : V, max_marks : V]
    /\ sub \in [Submissions -> LabRow(V)]
    /\ BackendShape(V, Submissions)

\* What the panel shows and the faculty may grade.
LabShown == {"EVALUATED", "REVIEWED"}

\* Whatever overlaps: what is shown, graded or ratified has been evaluated, and what is
\* ratified has a grade.
LabSound(s) ==
    /\ sub[s].status \in LabShown \cup {"RATIFIED"} \/ sub[s].ledger # None \/ sub[s].eval.human # None
          => sub[s].eval.ai # None
    /\ sub[s].status = "RATIFIED" => sub[s].ledger # None
    /\ \A r \in Reqs : req[r].on = s =>
          /\ req[r].op \in {"open_review", "update_scores", "ratify_lab"} => sub[s].eval.ai # None
          /\ req[r].op = "ratify_lab" => req[r].mem # None

\* Without overlap the checks of a request on s still hold at its write, the
\* grade is the score, and what is shown has none; unless the evaluation
\* is repeated it leaves s alone from then on.
LabGood(s) ==
    /\ sub[s].ledger \in {None, FinalScore(sub[s].eval)}
    /\ sub[s].status \in LabShown => sub[s].ledger = None
    /\ s \notin again =>
          /\ sub[s].ledger # None => sub[s].status = "RATIFIED"
          /\ Busy(s) => sub[s].status = "EVALUATING"
    /\ \A r \in Reqs : req[r].on = s =>
          /\ req[r].op \in {"open_review", "update_scores", "ratify_lab"} =>
                sub[s].ledger = None /\ (s \notin again => ~Busy(s))
          /\ req[r].op = "ratify_lab" => req[r].mem = FinalScore(sub[s].eval)

\* A student has one submission, and a submission that is under way is the first.
LabApart ==
    /\ \A s, t \in Submissions : s # t => sub[s].student = None \/ sub[t].student # sub[s].student
    /\ \A r \in Reqs : req[r].op = "submit_lab" => \A s \in Submissions : sub[s].student # req[r].mem

\* max_marks is the rubric's sum once the rubric cannot change any more.
AssignmentGood ==
    /\ asg.status = "DRAFT" \/ asg.max_marks = asg.rubric
    /\ \A r \in Reqs :
          /\ req[r].op \in {"update_assignment", "publish_assignment"} => asg.status = "DRAFT"
          /\ req[r].op = "publish_assignment" => req[r].mem = asg.rubric
          /\ req[r].op = "close_assignment" => asg.status # "DRAFT"

\* All of it holds as long as no two requests overlapped.
LabHolds == Owned(Submissions) /\ AssignmentGood /\ LabApart /\ \A s \in Submissions : LabGood(s)

\* The inductive invariant of M06: the shape, what overlap does not break, and the rest.
LabInv ==
    /\ \E V : LabShape(V)
    /\ \A s \in Submissions : LabSound(s)
    /\ raced \/ LabHolds

\* The names and numbers a step writes.
LabWords ==
    UNION {Words(Submissions), LabOps, Students, Nat, LabShown,
           {"evaluate_lab_submission", "refused", "DRAFT", "PUBLISHED", "CLOSED", "SUBMITTED",
            "EVALUATING", "RATIFIED", "NONE"}}

\* A step that writes no row, and no request between check and write, but those of s.
LabTouches(s) ==
    /\ \A t \in Submissions \ {s} : sub'[t] = sub[t]
    /\ \A q \in Reqs : req'[q] = req[q] \/ req'[q].op \in {None, "publish"} \/ req'[q].on = s
    /\ again \subseteq again'

\* No step takes a grade or an AI score back.
GradesKept ==
    \A s \in Submissions :
        /\ sub[s].ledger # None => sub'[s].ledger = sub[s].ledger
        /\ sub[s].eval # NoEvaluation => sub'[s].eval.ai = sub[s].eval.ai

\* The row of s after a step, by its columns, and the others as they were.
SubWritten(s, a, x, e, l) ==
    /\ sub' = [sub EXCEPT ![s] = [student |-> a, status |-> x, eval |-> e, ledger |-> l]]
    /\ \A t \in Submissions \ {s} : sub'[t] = sub[t]
    /\ sub'[s].student = a /\ sub'[s].status = x /\ sub'[s].eval = e /\ sub'[s].ledger = l

\* The writes of a submission, by the columns they set.
LEMMA StatusWritten ==
    ASSUME NEW V, sub \in [Submissions -> LabRow(V)], NEW s \in Submissions, NEW x,
           sub' = [sub EXCEPT ![s].status = x]
    PROVE  SubWritten(s, sub[s].student, x, sub[s].eval, sub[s].ledger)
<1>1. sub[s] \in LabRow(V)
  OBVIOUS
<1>2. sub' = [sub EXCEPT ![s] = [sub[s] EXCEPT !.status = x]]
  OBVIOUS
<1>3. PICK new : new = [sub[s] EXCEPT !.status = x]
  OBVIOUS
<1>4. sub' = [sub EXCEPT ![s] = new]
  BY <1>2, <1>3
<1>5. new = [student |-> sub[s].student, status |-> x, eval |-> sub[s].eval, ledger |-> sub[s].ledger]
  BY <1>1, <1>3 DEF LabRow
<1>6. sub' = [sub EXCEPT ![s] = [student |-> sub[s].student, status |-> x, eval |-> sub[s].eval, ledger |-> sub[s].ledger]]
  BY <1>4, <1>5
<1>7. sub' = [sub EXCEPT ![s] = new] /\ new.student = sub[s].student /\ new.status = x /\ new.eval = sub[s].eval /\ new.ledger = sub[s].ledger
  BY <1>4, <1>5
<1> QED
  BY <1>6, <1>7 DEF SubWritten

\* The writes of a submission: its student and EVALUATING,
LEMMA SubmissionWritten ==
    ASSUME NEW V, sub \in [Submissions -> LabRow(V)], NEW s \in Submissions, NEW a, NEW x,
           sub' = [sub EXCEPT ![s].student = a, ![s].status = x]
    PROVE  SubWritten(s, a, x, sub[s].eval, sub[s].ledger)
<1>1. sub[s] \in LabRow(V)
  OBVIOUS
<1>2. sub' = [sub EXCEPT ![s] = [sub[s] EXCEPT !.student = a, !.status = x]]
  OBVIOUS
<1>3. PICK new : new = [sub[s] EXCEPT !.student = a, !.status = x]
  OBVIOUS
<1>4. sub' = [sub EXCEPT ![s] = new]
  BY <1>2, <1>3
<1>5. new = [student |-> a, status |-> x, eval |-> sub[s].eval, ledger |-> sub[s].ledger]
  BY <1>1, <1>3 DEF LabRow
<1>6. sub' = [sub EXCEPT ![s] = [student |-> a, status |-> x, eval |-> sub[s].eval, ledger |-> sub[s].ledger]]
  BY <1>4, <1>5
<1>7. sub' = [sub EXCEPT ![s] = new] /\ new.student = a /\ new.status = x /\ new.eval = sub[s].eval /\ new.ledger = sub[s].ledger
  BY <1>4, <1>5
<1> QED
  BY <1>6, <1>7 DEF SubWritten

\* its grade and RATIFIED,
LEMMA GradeWritten ==
    ASSUME NEW V, sub \in [Submissions -> LabRow(V)], NEW s \in Submissions, NEW l, NEW x,
           sub' = [sub EXCEPT ![s].ledger = l, ![s].status = x]
    PROVE  SubWritten(s, sub[s].student, x, sub[s].eval, l)
<1>1. sub[s] \in LabRow(V)
  OBVIOUS
<1>2. sub' = [sub EXCEPT ![s] = [sub[s] EXCEPT !.ledger = l, !.status = x]]
  OBVIOUS
<1>3. PICK new : new = [sub[s] EXCEPT !.ledger = l, !.status = x]
  OBVIOUS
<1>4. sub' = [sub EXCEPT ![s] = new]
  BY <1>2, <1>3
<1>5. new = [student |-> sub[s].student, status |-> x, eval |-> sub[s].eval, ledger |-> l]
  BY <1>1, <1>3 DEF LabRow
<1>6. sub' = [sub EXCEPT ![s] = [student |-> sub[s].student, status |-> x, eval |-> sub[s].eval, ledger |-> l]]
  BY <1>4, <1>5
<1>7. sub' = [sub EXCEPT ![s] = new] /\ new.student = sub[s].student /\ new.status = x /\ new.eval = sub[s].eval /\ new.ledger = l
  BY <1>4, <1>5
<1> QED
  BY <1>6, <1>7 DEF SubWritten

\* its evaluation and a status,
LEMMA EvaluationWritten ==
    ASSUME NEW V, sub \in [Submissions -> LabRow(V)], NEW s \in Submissions, NEW x, NEW e,
           sub' = [sub EXCEPT ![s].status = x, ![s].eval = e]
    PROVE  SubWritten(s, sub[s].student, x, e, sub[s].ledger)
<1>1. sub[s] \in LabRow(V)
  OBVIOUS
<1>2. sub' = [sub EXCEPT ![s] = [sub[s] EXCEPT !.status = x, !.eval = e]]
  OBVIOUS
<1>3. PICK new : new = [sub[s] EXCEPT !.status = x, !.eval = e]
  OBVIOUS
<1>4. sub' = [sub EXCEPT ![s] = new]
  BY <1>2, <1>3
<1>5. new = [student |-> sub[s].student, status |-> x, eval |-> e, ledger |-> sub[s].ledger]
  BY <1>1, <1>3 DEF LabRow
<1>6. sub' = [sub EXCEPT ![s] = [student |-> sub[s].student, status |-> x, eval |-> e, ledger |-> sub[s].ledger]]
  BY <1>4, <1>5
<1>7. sub' = [sub EXCEPT ![s] = new] /\ new.student = sub[s].student /\ new.status = x /\ new.eval = e /\ new.ledger = sub[s].ledger
  BY <1>4, <1>5
<1> QED
  BY <1>6, <1>7 DEF SubWritten

\* the score of the faculty.
LEMMA ScoreWritten ==
    ASSUME NEW V, sub \in [Submissions -> LabRow(V)], NEW s \in Submissions, NEW h,
           sub' = [sub EXCEPT ![s].eval.human = h]
    PROVE  SubWritten(s, sub[s].student, sub[s].status, [ai |-> sub[s].eval.ai, human |-> h], sub[s].ledger)
<1>1. sub[s] \in LabRow(V)
  OBVIOUS
<1>2. sub' = [sub EXCEPT ![s] = [sub[s] EXCEPT !.eval.human = h]]
  OBVIOUS
<1>3. PICK new : new = [sub[s] EXCEPT !.eval.human = h]
  OBVIOUS
<1>4. sub' = [sub EXCEPT ![s] = new]
  BY <1>2, <1>3
<1>5. new = [student |-> sub[s].student, status |-> sub[s].status, eval |-> [ai |-> sub[s].eval.ai, human |-> h], ledger |-> sub[s].ledger]
  BY <1>1, <1>3 DEF LabRow
<1>6. sub' = [sub EXCEPT ![s] = [student |-> sub[s].student, status |-> sub[s].status, eval |-> [ai |-> sub[s].eval.ai, human |-> h], ledger |-> sub[s].ledger]]
  BY <1>4, <1>5
<1>7. sub' = [sub EXCEPT ![s] = new] /\ new.student = sub[s].student /\ new.status = sub[s].status /\ new.eval = [ai |-> sub[s].eval.ai, human |-> h] /\ new.ledger = sub[s].ledger
  BY <1>4, <1>5
<1> QED
  BY <1>6, <1>7 DEF SubWritten

\* A row whose columns are names is of the shape.
LEMMA SubShaped ==
    ASSUME NEW V, sub \in [Submissions -> LabRow(V)], NEW s, NEW a \in V, NEW x \in V,
           NEW e \in [ai : V, human : V], NEW l \in V, SubWritten(s, a, x, e, l)
    PROVE  sub' \in [Submissions -> LabRow(V)]
<1>1. PICK new : new = [student |-> a, status |-> x, eval |-> e, ledger |-> l]
  OBVIOUS
<1>2. new \in LabRow(V)
  BY <1>1 DEF LabRow
<1>3. sub' = [sub EXCEPT ![s] = new]
  BY <1>1 DEF SubWritten
<1> QED
  BY <1>2, <1>3

\* Only the submission of the step is to be looked at.
LEMMA LabSoundRest ==
    ASSUME \A t \in Submissions : LabSound(t), NEW s, LabTouches(s), s \in Submissions => LabSound(s)'
    PROVE  \A t \in Submissions : LabSound(t)'
<1>1. ASSUME NEW t \in Submissions, t # s
      PROVE  LabSound(t)'
  <2>1. LabSound(t) /\ sub'[t] = sub[t]
    BY <1>1 DEF LabTouches
  <2>2. \A r \in Reqs : req'[r].on = t /\ req'[r].op \in {"open_review", "update_scores", "ratify_lab"} =>
            req'[r] = req[r]
    BY <1>1, LabNames DEF LabTouches, LabOps
  <2> QED
    BY <2>1, <2>2 DEF LabSound
<1> QED
  BY <1>1

\* A submission that a step does not touch is as good as before.
LEMMA LabGoodRest ==
    ASSUME \A t \in Submissions : LabGood(t), NEW s, LabTouches(s), s \in Submissions => LabGood(s)',
           \A t \in Submissions \ {s} : Busy(t)' => Busy(t)
    PROVE  \A t \in Submissions : LabGood(t)'
<1>1. ASSUME NEW t \in Submissions, t # s
      PROVE  LabGood(t)'
  <2>1. LabGood(t) /\ sub'[t] = sub[t] /\ (Busy(t)' => Busy(t)) /\ (t \notin again' => t \notin again)
    BY <1>1 DEF LabTouches
  <2>2. \A r \in Reqs : req'[r].on = t /\ req'[r].op \in {"open_review", "update_scores", "ratify_lab"} =>
            req'[r] = req[r]
    BY <1>1, LabNames DEF LabTouches, LabOps
  <2> QED
    BY <2>1, <2>2 DEF LabGood
<1> QED
  BY <1>1

\* Requests and tasks write rows of their shape, out of known names.
LEMMA LabShapeStep ==
    ASSUME NEW V, LabShape(V), LabNext, NEW W, W = V \cup LabWords
    PROVE  LabShape(W)'
<1>1. /\ asg \in [status : W, rubric : W, max_marks : W]
      /\ sub \in [Submissions -> LabRow(W)]
      /\ BackendShape(W, Submissions)
  BY ShapeGrows DEF LabShape, LabRow
<1>2. /\ Words(Submissions) \subseteq W /\ Students \subseteq W /\ Nat \subseteq W
      /\ LabOps \cup LabShown \cup {None, "evaluate_lab_submission", "running", "failed", "refused",
            "DRAFT", "PUBLISHED", "CLOSED", "SUBMITTED", "EVALUATING", "RATIFIED"} \subseteq W
  BY DEF LabWords, Words
<1>9. \A s \in Submissions : /\ sub[s].student \in W /\ sub[s].status \in W /\ sub[s].ledger \in W
                              /\ sub[s].eval \in [ai : W, human : W] /\ sub[s].eval.ai \in W
  BY <1>1 DEF LabRow
<1>0. Scores \subseteq W /\ 1..MaxRubric \subseteq W
  BY <1>2, LabAssumption DEF Scores
<1>3. ASSUME NEW r \in Reqs, LabRequest(r), UNCHANGED queue
      PROVE  LabShape(W)'
  <2>1. PICK d \in Submissions \cup {None} : d = req[r].on
    BY <1>1 DEF BackendShape
  <2>2. PICK x \in W : x = req[r].mem
    BY <1>1 DEF BackendShape
  <2>3. CASE UNCHANGED <<asg, sub>> /\ \E o \in LabOps, e \in Submissions \cup {None}, y \in W : Begin(r, o, e, y)
    <3>1. BackendShape(W, Submissions)'
      BY <1>1, <1>2, <1>3, <2>3, RequestShape
    <3> QED
      BY <1>1, <2>3, <3>1 DEF LabShape
  <2>4. ASSUME End(r) \/ \E s \in Submissions : EndPublishing(r, s, "evaluate_lab_submission"),
               asg' \in [status : W, rubric : W, max_marks : W], sub' \in [Submissions -> LabRow(W)]
        PROVE  LabShape(W)'
    <3>1. BackendShape(W, Submissions)'
      BY <1>1, <1>2, <1>3, <2>4, RequestShape
    <3> QED
      BY <2>4, <3>1 DEF LabShape
  <2>5. ASSUME UNCHANGED <<asg, sub>>,
               \/ UpdateAssignment(r) \/ PublishAssignment(r) \/ CloseAssignment(r)
               \/ \E st \in Students : SubmitLab(r, st)
               \/ \E s \in Submissions : OpenReview(r, s) \/ UpdateScores(r, s) \/ Ratify(r, s)
        PROVE  LabShape(W)'
    <3>1. asg.rubric \in W /\ \A s \in Submissions : FinalScore(sub[s].eval) \in W
      BY <1>1 DEF LabRow, FinalScore
    <3>2. \E o \in LabOps, e \in Submissions \cup {None}, y \in W : Begin(r, o, e, y)
      BY <1>2, <2>5, <3>1
      DEF UpdateAssignment, PublishAssignment, CloseAssignment, SubmitLab, OpenReview, UpdateScores,
          Ratify, LabOps
    <3> QED
      BY <2>3, <2>5, <3>2
  <2>6. CASE WriteUpdateAssignment(r) \/ WritePublishAssignment(r) \/ WriteCloseAssignment(r)
    <3>1. \E n \in W : \/ asg' = [asg EXCEPT !.rubric = n]
                        \/ asg' = [asg EXCEPT !.status = "PUBLISHED", !.max_marks = n]
                        \/ asg' = [asg EXCEPT !.status = "CLOSED"]
      BY <1>0, <1>2, <2>2, <2>6
      DEF WriteUpdateAssignment, WritePublishAssignment, WriteCloseAssignment
    <3>2. asg' \in [status : W, rubric : W, max_marks : W]
      BY <1>1, <1>2, <3>1
    <3> QED
      BY <1>1, <2>4, <2>6, <3>2 DEF WriteUpdateAssignment, WritePublishAssignment, WriteCloseAssignment
  <2>7. CASE WriteSubmission(r)
    <3>1. PICK s \in Submissions : /\ sub' = [sub EXCEPT ![s].student = x, ![s].status = "EVALUATING"]
                                   /\ EndPublishing(r, s, "evaluate_lab_submission")
      BY <2>2, <2>7 DEF WriteSubmission, FreshSubmission
    <3>2. sub' \in [Submissions -> LabRow(W)]
      <4>1. SubWritten(s, x, "EVALUATING", sub[s].eval, sub[s].ledger)
        BY <1>1, <3>1, SubmissionWritten
      <4> QED
        BY <1>1, <1>2, <1>9, <4>1, SubShaped
    <3> QED
      BY <1>1, <2>4, <2>7, <3>1, <3>2 DEF WriteSubmission
  <2>8. CASE WriteReview(r)
    <3>1. sub' = [sub EXCEPT ![d].status = "REVIEWED"] /\ "REVIEWED" \in W
      BY <1>2, <2>1, <2>8 DEF WriteReview, LabShown
    <3>2. sub' \in [Submissions -> LabRow(W)]
      <4>1. CASE d \notin Submissions
        BY <1>1, <3>1, <4>1
      <4>2. ASSUME d \in Submissions PROVE sub' \in [Submissions -> LabRow(W)]
        <5>1. SubWritten(d, sub[d].student, "REVIEWED", sub[d].eval, sub[d].ledger)
          BY <1>1, <3>1, <4>2, StatusWritten
        <5> QED
          BY <1>1, <1>2, <1>9, <3>1, <4>2, <5>1, SubShaped
      <4> QED
        BY <4>1, <4>2
    <3> QED
      BY <1>1, <2>4, <2>8, <3>2 DEF WriteReview
  <2>9. CASE WriteScores(r)
    <3>1. PICK h \in W : sub' = [sub EXCEPT ![d].eval.human = h]
      BY <1>0, <2>1, <2>9 DEF WriteScores
    <3>2. sub' \in [Submissions -> LabRow(W)]
      <4>1. CASE d \notin Submissions
        BY <1>1, <3>1, <4>1
      <4>2. ASSUME d \in Submissions PROVE sub' \in [Submissions -> LabRow(W)]
        <5>1. PICK e \in [ai : W, human : W] : e = [ai |-> sub[d].eval.ai, human |-> h]
          BY <1>9, <4>2
        <5>2. SubWritten(d, sub[d].student, sub[d].status, e, sub[d].ledger)
          <6>1. SubWritten(d, sub[d].student, sub[d].status, [ai |-> sub[d].eval.ai, human |-> h], sub[d].ledger)
            BY <1>1, <3>1, <4>2, ScoreWritten
          <6> QED
            BY <5>1, <6>1
        <5> QED
          BY <1>1, <1>9, <4>2, <5>2, SubShaped
      <4> QED
        BY <4>1, <4>2
    <3> QED
      BY <1>1, <2>4, <2>9, <3>2 DEF WriteScores
  <2>10. CASE WriteRatify(r)
    <3>1. sub' = sub \/ sub' = [sub EXCEPT ![d].ledger = x, ![d].status = "RATIFIED"]
      BY <2>1, <2>2, <2>10 DEF WriteRatify
    <3>2. ASSUME d \in Submissions, sub' # sub
          PROVE  sub' \in [Submissions -> LabRow(W)]
      <4>1. SubWritten(d, sub[d].student, "RATIFIED", sub[d].eval, x)
        BY <1>1, <3>1, <3>2, GradeWritten
      <4> QED
        BY <1>1, <1>2, <1>9, <3>2, <4>1, SubShaped
    <3>3. d \notin Submissions => sub' = sub
      BY <1>1, <3>1
    <3> QED
      BY <1>1, <2>4, <2>10, <3>2, <3>3 DEF WriteRatify
  <2> QED
    BY <1>3, <2>5, <2>6, <2>7, <2>8, <2>9, <2>10
    DEF LabRequest, UpdateAssignment, PublishAssignment, CloseAssignment, SubmitLab, OpenReview,
        UpdateScores, Ratify
<1>4. ASSUME NEW w \in Workers, LabTask(w), UNCHANGED <<req, raced>>
      PROVE  LabShape(W)'
  <2>1. PICK s : s = exec[w].to
    OBVIOUS
  <2>2. \/ \E m \in Slots, t \in W, p \in W, x \in W : Take(w, m, t, p, x)
        \/ \E p \in W, x \in W : Goto(w, p, x) /\ UNCHANGED msg
        \/ Finish(w)
        \/ Retry(w)
    BY <1>2, <1>4
    DEF LabTask, StartEvaluation, CommitEvaluation, FailEvaluation, ResetSubmission,
        ResetSubmissionFails, EndRaised
  <2>3. BackendShape(W, Submissions)'
    BY <1>1, <1>2, <1>4, <2>2, TaskShape
  <2>4. UNCHANGED asg
    BY <1>4
    DEF LabTask, StartEvaluation, CommitEvaluation, FailEvaluation, ResetSubmission,
        ResetSubmissionFails
  <2>5. \/ UNCHANGED sub
        \/ \E u : \E x \in W : sub' = [sub EXCEPT ![u].status = x]
        \/ \E e \in [ai : W, human : W] :
              sub' = [sub EXCEPT ![s].status = "EVALUATED", ![s].eval = e]
    <3>1. CASE \E m \in Slots : StartEvaluation(w, m)
      <4>1. PICK u : sub' = [sub EXCEPT ![u].status = "EVALUATING"]
        BY <3>1 DEF StartEvaluation
      <4> QED
        BY <1>2, <4>1
    <3>2. ASSUME CommitEvaluation(w), sub' # sub
          PROVE  \E e \in [ai : W, human : W] :
                    sub' = [sub EXCEPT ![s].status = "EVALUATED", ![s].eval = e]
      <4>1. PICK x \in Scores :
                sub' = [sub EXCEPT ![s].status = "EVALUATED", ![s].eval = [ai |-> x, human |-> None]]
        BY <2>1, <3>2 DEF CommitEvaluation
      <4>2. [ai |-> x, human |-> None] \in [ai : W, human : W]
        BY <1>0, <1>2
      <4> QED
        BY <4>1, <4>2
    <3>3. CASE FailEvaluation(w) \/ ResetSubmissionFails(w)
      BY <3>3 DEF FailEvaluation, ResetSubmissionFails
    <3>4. CASE ResetSubmission(w)
      <4>1. PICK u : sub' = [sub EXCEPT ![u].status = "SUBMITTED"]
        BY <3>4 DEF ResetSubmission
      <4> QED
        BY <1>2, <4>1
    <3> QED
      BY <1>4, <3>1, <3>2, <3>3, <3>4 DEF LabTask
  <2>6. sub' \in [Submissions -> LabRow(W)]
    <3>1. CASE UNCHANGED sub
      BY <1>1, <3>1
    <3>2. ASSUME NEW u, NEW x \in W, sub' = [sub EXCEPT ![u].status = x]
          PROVE  sub' \in [Submissions -> LabRow(W)]
      <4>1. CASE u \notin Submissions
        BY <1>1, <3>2, <4>1
      <4>2. ASSUME u \in Submissions PROVE sub' \in [Submissions -> LabRow(W)]
        <5>1. SubWritten(u, sub[u].student, x, sub[u].eval, sub[u].ledger)
          BY <1>1, <3>2, <4>2, StatusWritten
        <5> QED
          BY <1>1, <1>2, <1>9, <3>2, <4>2, <5>1, SubShaped
      <4> QED
        BY <4>1, <4>2
    <3>3. ASSUME NEW e \in [ai : W, human : W],
                 sub' = [sub EXCEPT ![s].status = "EVALUATED", ![s].eval = e]
          PROVE  sub' \in [Submissions -> LabRow(W)]
      <4>1. CASE s \notin Submissions
        BY <1>1, <3>3, <4>1
      <4>2. ASSUME s \in Submissions PROVE sub' \in [Submissions -> LabRow(W)]
        <5>1. SubWritten(s, sub[s].student, "EVALUATED", e, sub[s].ledger)
          BY <1>1, <3>3, <4>2, EvaluationWritten
        <5> QED
          BY <1>1, <1>2, <1>9, <3>3, <4>2, <5>1, SubShaped DEF LabShown
      <4> QED
        BY <4>1, <4>2
    <3> QED
      BY <2>5, <3>1, <3>2, <3>3
  <2> QED
    BY <1>1, <2>3, <2>4, <2>6 DEF LabShape
<1>5. ASSUME Environment, UNCHANGED <<asg, sub>>
      PROVE  LabShape(W)'
  BY <1>1, <1>2, <1>5, EnvironmentShape DEF LabShape
<1> QED
  BY <1>3, <1>4, <1>5 DEF LabNext

\* A request that begins is on record, and no other request changes;
LEMMA BeginRow ==
    ASSUME NEW V, NEW R, BackendShape(V, R), NEW r \in Reqs, NEW o, NEW d, NEW x, Begin(r, o, d, x)
    PROVE  /\ req'[r].op = o /\ req'[r].on = d /\ req'[r].mem = x
           /\ \A q \in Reqs \ {r} : req'[q] = req[q]
BY DEF Begin, BackendShape, NoReq

\* one that ends is off it.
LEMMA EndRow ==
    ASSUME NEW V, NEW R, BackendShape(V, R), NEW r \in Reqs,
           End(r) \/ \E d, t : EndPublishing(r, d, t)
    PROVE  /\ req'[r].op \in {None, "publish"}
           /\ \A q \in Reqs \ {r} : req'[q] = req[q]
<1>1. CASE End(r)
  BY <1>1 DEF End, BackendShape, NoReq
<1>2. ASSUME NEW d, NEW t, EndPublishing(r, d, t)
      PROVE  /\ req'[r].op \in {None, "publish"}
             /\ \A q \in Reqs \ {r} : req'[q] = req[q]
  BY <1>2 DEF EndPublishing, BackendShape, NoReq
<1> QED
  BY <1>1, <1>2

\* What the checks of a submission's review found.
LabReviewOps == {"open_review", "update_scores", "ratify_lab"}

\* What the check of an operation found.
LabStands(o, d, x) ==
    /\ o = "submit_lab" => \A s \in Submissions : sub[s].student # x
    /\ o \in {"update_assignment", "publish_assignment"} => asg.status = "DRAFT"
    /\ o = "publish_assignment" => x = asg.rubric
    /\ o = "close_assignment" => asg.status # "DRAFT"
    /\ o \in LabReviewOps => d \in Submissions /\ sub[d].status \in LabShown
    /\ o = "ratify_lab" => sub[d].ledger = None /\ x = FinalScore(sub[d].eval)

\* A request begins with such a check.
LEMMA LabChecks ==
    ASSUME NEW r,
           \/ UpdateAssignment(r) \/ PublishAssignment(r) \/ CloseAssignment(r)
           \/ \E st \in Students : SubmitLab(r, st)
           \/ \E s \in Submissions : OpenReview(r, s) \/ UpdateScores(r, s) \/ Ratify(r, s)
    PROVE  \E o \in LabOps, d \in Submissions \cup {None} : \E x :
               Begin(r, o, d, x) /\ LabStands(o, d, x) /\ UNCHANGED <<asg, sub>>
<1>1. CASE UpdateAssignment(r) \/ PublishAssignment(r) \/ CloseAssignment(r)
  BY <1>1 DEF UpdateAssignment, PublishAssignment, CloseAssignment, LabStands, LabOps, LabReviewOps
<1>2. CASE \E st \in Students : SubmitLab(r, st)
  BY <1>2 DEF SubmitLab, LabStands, LabOps, LabReviewOps
<1>3. CASE \E s \in Submissions : OpenReview(r, s) \/ UpdateScores(r, s) \/ Ratify(r, s)
  BY <1>3 DEF OpenReview, UpdateScores, Ratify, Reviewable, LabStands, LabOps, LabReviewOps, LabShown
<1> QED
  BY <1>1, <1>2, <1>3

\* What the AI or the faculty gave, once there is an evaluation.
LEMMA FinalScoreGiven ==
    ASSUME NEW e, e.ai # None
    PROVE  FinalScore(e) # None
BY DEF FinalScore

\* Whatever overlaps, a step keeps what is sound, the grades and the AI's scores.
LEMMA LabSoundKeeps ==
    ASSUME NEW V, LabShape(V), \A s \in Submissions : LabSound(s), LabNext
    PROVE  (\A s \in Submissions : LabSound(s)') /\ GradesKept
<1>1. sub \in [Submissions -> LabRow(V)] /\ BackendShape(V, Submissions) /\ None \notin Submissions
  BY LabNames DEF LabShape
<1>2. ASSUME UNCHANGED sub PROVE GradesKept
  BY <1>2 DEF GradesKept
<1>3. ASSUME NEW s, \A t \in Submissions \ {s} : sub'[t] = sub[t],
             s \in Submissions => /\ sub[s].ledger # None => sub'[s].ledger = sub[s].ledger
                                  /\ sub[s].eval.ai # None => sub'[s].eval.ai = sub[s].eval.ai
      PROVE  GradesKept
  <2>1. \A t \in Submissions : sub[t].eval # NoEvaluation => sub[t].eval.ai # None
    <3>1. \A e \in [ai : V, human : V] : e.ai = None /\ e.human = None => e = NoEvaluation
      BY DEF NoEvaluation
    <3> QED
      BY <1>1, <3>1 DEF LabSound, LabRow
  <2> QED
    BY <1>3, <2>1 DEF GradesKept
<1>4. ASSUME NEW r \in Reqs, LabRequest(r), UNCHANGED queue
      PROVE  (\A s \in Submissions : LabSound(s)') /\ GradesKept
  <2>1. UNCHANGED again
    BY <1>4 DEF queue
  <2>2. ASSUME NEW o \in LabOps, NEW d \in Submissions \cup {None}, NEW x,
               Begin(r, o, d, x), LabStands(o, d, x), UNCHANGED <<asg, sub>>
        PROVE  (\A s \in Submissions : LabSound(s)') /\ GradesKept
    <3>1. /\ req'[r].op = o /\ req'[r].on = d /\ req'[r].mem = x
          /\ \A q \in Reqs \ {r} : req'[q] = req[q]
      BY <1>1, <2>2, BeginRow
    <3>2. ASSUME d \in Submissions, o \in LabReviewOps
          PROVE  sub[d].eval.ai # None /\ (o = "ratify_lab" => x # None)
      BY <2>2, <3>2, FinalScoreGiven DEF LabSound, LabStands
    <3>3. ASSUME d \in Submissions PROVE LabSound(d)'
      BY <2>2, <3>1, <3>2, <3>3 DEF LabSound, LabReviewOps
    <3>4. LabTouches(d)
      BY <2>1, <2>2, <3>1 DEF LabTouches
    <3> QED
      BY <1>2, <2>2, <3>3, <3>4, LabSoundRest
  <2>3. ASSUME UNCHANGED sub, req'[r].op \in {None, "publish"}, \A q \in Reqs \ {r} : req'[q] = req[q]
        PROVE  (\A s \in Submissions : LabSound(s)') /\ GradesKept
    <3>1. LabTouches(None)
      BY <2>1, <2>3 DEF LabTouches
    <3> QED
      BY <1>1, <1>2, <2>3, <3>1, LabSoundRest
  <2>4. ASSUME NEW s \in Submissions, \A t \in Submissions \ {s} : sub'[t] = sub[t],
               req'[r].op \in {None, "publish"}, \A q \in Reqs \ {r} : req'[q] = req[q],
               sub'[s].eval.ai = sub[s].eval.ai,
               sub'[s].status \in LabShown \cup {"RATIFIED"} \/ sub'[s].ledger # None
                   \/ sub'[s].eval.human # None => sub'[s].eval.ai # None,
               sub'[s].status = "RATIFIED" => sub'[s].ledger # None,
               sub[s].ledger # None => sub'[s].ledger = sub[s].ledger
        PROVE  (\A t \in Submissions : LabSound(t)') /\ GradesKept
    <3>1. LabTouches(s)
      BY <2>1, <2>4 DEF LabTouches
    <3>2. LabSound(s)'
      BY <2>4, LabNames DEF LabSound, LabOps
    <3> QED
      BY <1>3, <2>4, <3>1, <3>2, LabSoundRest
  <2>5. PICK d \in Submissions \cup {None}, x \in V : d = req[r].on /\ x = req[r].mem
    BY <1>1 DEF BackendShape
  <2>6. CASE WriteUpdateAssignment(r) \/ WritePublishAssignment(r) \/ WriteCloseAssignment(r)
    <3>1. UNCHANGED sub /\ End(r)
      BY <2>6 DEF WriteUpdateAssignment, WritePublishAssignment, WriteCloseAssignment
    <3> QED
      BY <1>1, <2>3, <3>1, EndRow
  <2>7. CASE WriteSubmission(r)
    <3>1. PICK s \in FreshSubmission : /\ sub' = [sub EXCEPT ![s].student = x, ![s].status = "EVALUATING"]
                                       /\ EndPublishing(r, s, "evaluate_lab_submission")
      BY <2>5, <2>7 DEF WriteSubmission
    <3>2. s \in Submissions
      BY DEF FreshSubmission
    <3>5. SubWritten(s, x, "EVALUATING", sub[s].eval, sub[s].ledger)
      BY <1>1, <3>1, <3>2, SubmissionWritten
    <3>6. LabSound(s)
      BY <3>2
    <3>7. req'[r].op \in {None, "publish"} /\ \A q \in Reqs \ {r} : req'[q] = req[q]
      BY <1>1, <3>1, EndRow
    <3> QED
      BY <2>4, <3>2, <3>5, <3>6, <3>7 DEF LabSound, LabShown, SubWritten
  <2>8. CASE WriteReview(r) \/ WriteScores(r) \/ WriteRatify(r)
    <3>1. End(r) /\ req[r].op \in LabReviewOps
      BY <2>8 DEF WriteReview, WriteScores, WriteRatify, LabReviewOps
    <3>2. req'[r].op \in {None, "publish"} /\ \A q \in Reqs \ {r} : req'[q] = req[q]
      BY <1>1, <3>1, EndRow
    <3>3. CASE d = None
      <4>1. sub' = sub
        BY <1>1, <2>5, <2>8, <3>3 DEF WriteReview, WriteScores, WriteRatify
      <4> QED
        BY <2>3, <3>2, <4>1
    <3>4. CASE d \in Submissions
      <4>1. LabSound(d) /\ sub[d].eval.ai # None /\ (req[r].op = "ratify_lab" => x # None)
        BY <2>5, <3>1, <3>4 DEF LabSound, LabReviewOps
      <4>4. CASE WriteReview(r)
        <5>1. sub' = [sub EXCEPT ![d].status = "REVIEWED"]
          BY <2>5, <4>4 DEF WriteReview
        <5>2. SubWritten(d, sub[d].student, "REVIEWED", sub[d].eval, sub[d].ledger)
          BY <1>1, <3>4, <5>1, StatusWritten
        <5> QED
          BY <2>4, <3>2, <3>4, <4>1, <5>2 DEF SubWritten
      <4>5. CASE WriteScores(r)
        <5>1. PICK h : sub' = [sub EXCEPT ![d].eval.human = h]
          BY <2>5, <4>5 DEF WriteScores
        <5>2. SubWritten(d, sub[d].student, sub[d].status, [ai |-> sub[d].eval.ai, human |-> h], sub[d].ledger)
          BY <1>1, <3>4, <5>1, ScoreWritten
        <5> QED
          BY <2>4, <3>2, <3>4, <4>1, <5>2 DEF LabSound, SubWritten
      <4>6. CASE WriteRatify(r)
        <5>1. ASSUME sub[d].ledger = None
              PROVE  SubWritten(d, sub[d].student, "RATIFIED", sub[d].eval, x)
          <6>1. sub' = [sub EXCEPT ![d].ledger = x, ![d].status = "RATIFIED"]
            BY <2>5, <4>6, <5>1 DEF WriteRatify
          <6> QED
            BY <1>1, <3>4, <6>1, GradeWritten
        <5>2. sub[d].ledger # None => sub' = sub
          BY <2>5, <4>6 DEF WriteRatify
        <5>3. req[r].op = "ratify_lab"
          BY <4>6 DEF WriteRatify
        <5>4. CASE sub[d].ledger = None
          BY <2>4, <3>2, <3>4, <4>1, <5>1, <5>3, <5>4 DEF SubWritten
        <5>5. CASE sub[d].ledger # None
          BY <2>3, <3>2, <5>2, <5>5
        <5> QED
          BY <5>4, <5>5
      <4> QED
        BY <2>8, <4>4, <4>5, <4>6
    <3> QED
      BY <3>3, <3>4
  <2> QED
    BY <1>4, <2>2, <2>6, <2>7, <2>8, LabChecks DEF LabRequest
<1>5. ASSUME NEW w \in Workers, LabTask(w), UNCHANGED <<req, raced>>
      PROVE  (\A s \in Submissions : LabSound(s)') /\ GradesKept
  <2>1. again \subseteq again'
    BY <1>5
    DEF LabTask, StartEvaluation, CommitEvaluation, FailEvaluation, ResetSubmission,
        ResetSubmissionFails, EndRaised, Finish, Retry
  <2>2. ASSUME UNCHANGED sub
        PROVE  (\A s \in Submissions : LabSound(s)') /\ GradesKept
    BY <1>2, <1>5, <2>2 DEF LabSound
  <2>3. ASSUME NEW s \in Submissions, NEW x \in {"EVALUATING", "SUBMITTED"},
               sub' = [sub EXCEPT ![s].status = x]
        PROVE  (\A t \in Submissions : LabSound(t)') /\ GradesKept
    <3>1. SubWritten(s, sub[s].student, x, sub[s].eval, sub[s].ledger)
      BY <1>1, <2>3, StatusWritten
    <3>3. /\ \A t \in Submissions \ {s} : sub'[t] = sub[t]
          /\ sub'[s].status = x /\ sub'[s].eval = sub[s].eval /\ sub'[s].ledger = sub[s].ledger
      BY <3>1 DEF SubWritten
    <3>4. LabTouches(s)
      BY <1>5, <2>1, <3>3 DEF LabTouches
    <3>5. LabSound(s)'
      BY <1>5, <3>3 DEF LabSound, LabShown
    <3> QED
      BY <1>3, <3>3, <3>4, <3>5, LabSoundRest
  <2>4. ASSUME NEW u, NEW x \in {"EVALUATING", "SUBMITTED"}, sub' = [sub EXCEPT ![u].status = x]
        PROVE  (\A t \in Submissions : LabSound(t)') /\ GradesKept
    <3>1. u \notin Submissions => sub' = sub
      BY <1>1, <2>4
    <3> QED
      BY <2>2, <2>3, <2>4, <3>1
  <2>5. ASSUME CommitEvaluation(w), sub' # sub
        PROVE  (\A t \in Submissions : LabSound(t)') /\ GradesKept
    <3>1. PICK s : \E x \in Scores :
              /\ s = exec[w].to /\ sub[s].eval = NoEvaluation
              /\ sub' = [sub EXCEPT ![s].status = "EVALUATED", ![s].eval = [ai |-> x, human |-> None]]
      BY <2>5 DEF CommitEvaluation
    <3>0. PICK x \in Scores :
              sub' = [sub EXCEPT ![s].status = "EVALUATED", ![s].eval = [ai |-> x, human |-> None]]
      BY <3>1
    <3>2. s \in Submissions
      <4>1. s \notin Submissions => sub' = sub
        BY <1>1, <3>0
      <4> QED
        BY <2>5, <4>1
    <3>3. SubWritten(s, sub[s].student, "EVALUATED", [ai |-> x, human |-> None], sub[s].ledger)
      BY <1>1, <3>0, <3>2, EvaluationWritten
    <3>5. /\ \A t \in Submissions \ {s} : sub'[t] = sub[t]
          /\ sub'[s].status = "EVALUATED" /\ sub'[s].eval = [ai |-> x, human |-> None]
          /\ sub'[s].ledger = sub[s].ledger
      BY <3>3 DEF SubWritten
    <3>6. sub[s].eval.ai = None /\ sub'[s].eval.ai # None
      BY <3>1, <3>5, LabNames DEF NoEvaluation
    <3>7. LabTouches(s)
      BY <1>5, <2>1, <3>5 DEF LabTouches
    <3>8. LabSound(s)'
      BY <1>5, <3>2, <3>5, <3>6 DEF LabSound, LabShown
    <3> QED
      BY <1>3, <3>5, <3>6, <3>7, <3>8, LabSoundRest
  <2>6. CASE \E m \in Slots : StartEvaluation(w, m)
    BY <2>4, <2>6 DEF StartEvaluation
  <2>7. CASE ResetSubmission(w)
    BY <2>4, <2>7 DEF ResetSubmission
  <2> QED
    BY <1>5, <2>2, <2>5, <2>6, <2>7 DEF LabTask, FailEvaluation, ResetSubmissionFails
<1>6. ASSUME Environment, UNCHANGED sub
      PROVE  (\A s \in Submissions : LabSound(s)') /\ GradesKept
  <2>1. \A q \in Reqs : req'[q] = req[q] \/ req'[q].op = None
    <3>1. ASSUME NEW r \in Reqs, Publish(r) \/ Abandon(r)
          PROVE  \A q \in Reqs : req'[q] = req[q] \/ req'[q].op = None
      BY <1>1, <3>1 DEF Publish, Abandon, End, NoReq, BackendShape
    <3> QED
      BY <1>6, <3>1 DEF Environment, WorkerCrash, ProcessLost, Redeliver
  <2> QED
    BY <1>2, <1>6, <2>1, LabNames DEF LabSound, LabOps
<1> QED
  BY <1>4, <1>5, <1>6 DEF LabNext

\* Without overlap, requests keep what holds;
LEMMA LabRequestKeeps ==
    ASSUME NEW V, LabShape(V), \A s \in Submissions : LabSound(s), LabHolds, ~raced',
           NEW r \in Reqs, LabRequest(r), UNCHANGED queue
    PROVE  LabHolds'
<1>1. /\ sub \in [Submissions -> LabRow(V)] /\ BackendShape(V, Submissions) /\ None \notin Submissions
      /\ asg \in [status : V, rubric : V, max_marks : V]
      /\ Owned(Submissions) /\ AssignmentGood /\ LabApart /\ \A s \in Submissions : LabGood(s)
      /\ UNCHANGED again
  BY LabNames DEF LabShape, LabHolds, queue
<1>2. ASSUME NEW o \in LabOps, NEW d \in Submissions \cup {None}, NEW x,
             Begin(r, o, d, x), LabStands(o, d, x), UNCHANGED <<asg, sub>>
      PROVE  LabHolds'
  <2>1. o \notin {None, "publish"}
    BY LabNames DEF LabOps
  <2>2. Quiet(Submissions) /\ \A s \in Reqs : Active(s)' => s = r
    BY <1>1, <1>2, <2>1, BeginOwned
  <2>3. req'[r].op = o /\ req'[r].on = d /\ req'[r].mem = x
    BY <1>1, <1>2, BeginRow
  <2>4. \A q \in Reqs : req'[q].op \in LabOps => q = r
    BY <2>2, LabNames DEF Active, LabOps
  <2>5. AssignmentGood'
    BY <1>1, <1>2, <2>3, <2>4 DEF AssignmentGood, LabStands, LabOps
  <2>6. LabApart'
    BY <1>1, <1>2, <2>3, <2>4 DEF LabApart, LabStands, LabOps
  <2>7. ASSUME NEW s \in Submissions PROVE LabGood(s)'
    <3>1. LabGood(s) /\ (Busy(s)' => Busy(s))
      BY <1>1, <2>2 DEF Quiet
    <3>2. ASSUME o \in LabReviewOps, d = s
          PROVE  /\ sub[s].ledger = None /\ (s \notin again => ~Busy(s))
                 /\ o = "ratify_lab" => x = FinalScore(sub[s].eval)
      BY <1>2, <3>1, <3>2 DEF LabStands, LabGood, LabShown
    <3> QED
      BY <1>1, <1>2, <2>3, <2>4, <3>1, <3>2 DEF LabGood, LabOps, LabReviewOps
  <2> QED
    BY <2>2, <2>5, <2>6, <2>7 DEF LabHolds, Quiet
<1>3. PICK d \in Submissions \cup {None}, x \in V : d = req[r].on /\ x = req[r].mem
  BY <1>1 DEF BackendShape
<1>4. ASSUME req[r].op \in LabOps PROVE Active(r)
  BY <1>4, LabNames DEF Active, LabOps
\* Nothing is between its check and its write any more.
<1>5. ASSUME Owned(Submissions)', \A q \in Reqs : ~Active(q)',
             asg'.status = "DRAFT" \/ asg'.max_marks = asg'.rubric,
             \A s, t \in Submissions : s # t => sub'[s].student = None \/ sub'[t].student # sub'[s].student,
             NEW c, \A t \in Submissions \ {c} : sub'[t] = sub[t] /\ (Busy(t)' => Busy(t)),
             c \in Submissions =>
                 /\ sub'[c].ledger \in {None, FinalScore(sub'[c].eval)}
                 /\ sub'[c].status \in LabShown => sub'[c].ledger = None
                 /\ c \notin again =>
                       /\ sub'[c].ledger # None => sub'[c].status = "RATIFIED"
                       /\ Busy(c)' => sub'[c].status = "EVALUATING"
      PROVE  LabHolds'
  <2>1. \A q \in Reqs : req'[q].op \notin LabOps
    BY <1>5, LabNames DEF Active, LabOps
  <2>2. AssignmentGood' /\ LabApart'
    BY <1>5, <2>1 DEF AssignmentGood, LabApart, LabOps
  <2>3. ASSUME NEW s \in Submissions PROVE LabGood(s)'
    BY <1>1, <1>5, <2>1 DEF LabGood, LabOps
  <2> QED
    BY <1>5, <2>2, <2>3 DEF LabHolds
<1>6. CASE WriteUpdateAssignment(r) \/ WritePublishAssignment(r) \/ WriteCloseAssignment(r)
  <2>1. UNCHANGED sub /\ End(r) /\ req[r].op \in LabOps
    BY <1>6 DEF WriteUpdateAssignment, WritePublishAssignment, WriteCloseAssignment, LabOps
  <2>2. Quiet(Submissions) /\ \A q \in Reqs : ~Active(q)'
    BY <1>1, <1>4, <2>1, EndOwned
  <2>3. asg'.status = "DRAFT" \/ asg'.max_marks = asg'.rubric
    <3>1. CASE WriteUpdateAssignment(r)
      <4>1. asg.status = "DRAFT"
        BY <1>1, <3>1 DEF WriteUpdateAssignment, AssignmentGood
      <4> QED
        BY <1>1, <3>1, <4>1 DEF WriteUpdateAssignment
    <3>2. CASE WritePublishAssignment(r)
      <4>1. x = asg.rubric
        BY <1>1, <1>3, <3>2 DEF WritePublishAssignment, AssignmentGood
      <4> QED
        BY <1>1, <1>3, <3>2, <4>1 DEF WritePublishAssignment
    <3>3. CASE WriteCloseAssignment(r)
      <4>1. asg.max_marks = asg.rubric
        BY <1>1, <3>3 DEF WriteCloseAssignment, AssignmentGood
      <4> QED
        BY <1>1, <3>3, <4>1 DEF WriteCloseAssignment
    <3> QED
      BY <1>6, <3>1, <3>2, <3>3
  <2> QED
    BY <1>1, <1>5, <2>1, <2>2, <2>3 DEF Quiet, LabApart
<1>7. CASE WriteSubmission(r)
  <2>1. PICK s \in FreshSubmission : /\ sub' = [sub EXCEPT ![s].student = x, ![s].status = "EVALUATING"]
                                     /\ EndPublishing(r, s, "evaluate_lab_submission")
    BY <1>3, <1>7 DEF WriteSubmission
  <2>2. /\ s \in Submissions /\ sub[s].status = "NONE" /\ UNCHANGED asg
        /\ req[r].op = "submit_lab" /\ req[r].op \in LabOps
    BY <1>7 DEF FreshSubmission, WriteSubmission, LabOps
  <2>3. SubWritten(s, x, "EVALUATING", sub[s].eval, sub[s].ledger)
    BY <1>1, <2>1, <2>2, SubmissionWritten
  <2>4. /\ \A t \in Submissions \ {s} : sub'[t] = sub[t]
        /\ sub'[s].student = x /\ sub'[s].status = "EVALUATING"
        /\ sub'[s].eval = sub[s].eval /\ sub'[s].ledger = sub[s].ledger
    BY <2>3 DEF SubWritten
  <2>5. LabGood(s) /\ (s \notin again => ~Busy(s) /\ sub[s].ledger = None)
    BY <1>1, <2>2 DEF LabGood
  <2>6. /\ Owned(Submissions)' /\ (\A q \in Reqs : ~Active(q)')
        /\ \A t \in Submissions : Busy(t)' => Busy(t) \/ t = s
    BY <1>1, <1>4, <2>1, <2>2, <2>5, PublishingOwned
  <2>7. \A t \in Submissions : sub[t].student # x
    BY <1>1, <1>3, <2>2 DEF LabApart
  <2>8. \A t, u \in Submissions : t # u => sub'[t].student = None \/ sub'[u].student # sub'[t].student
    BY <1>1, <2>4, <2>7 DEF LabApart
  <2>9. asg'.status = "DRAFT" \/ asg'.max_marks = asg'.rubric
    BY <1>1, <2>2 DEF AssignmentGood
  <2>10. sub'[s].ledger \in {None, FinalScore(sub'[s].eval)}
    BY <2>4, <2>5 DEF LabGood
  <2> QED
    BY <1>5, <2>4, <2>5, <2>6, <2>8, <2>9, <2>10 DEF LabShown
<1>8. CASE WriteReview(r) \/ WriteScores(r) \/ WriteRatify(r)
  <2>1. End(r) /\ req[r].op \in LabReviewOps /\ req[r].op \in LabOps /\ UNCHANGED asg
    BY <1>8 DEF WriteReview, WriteScores, WriteRatify, LabReviewOps, LabOps
  <2>2. Quiet(Submissions) /\ \A q \in Reqs : ~Active(q)'
    BY <1>1, <1>4, <2>1, EndOwned
  <2>3. asg'.status = "DRAFT" \/ asg'.max_marks = asg'.rubric
    BY <1>1, <2>1 DEF AssignmentGood
  <2>4. CASE d = None
    <3>1. sub' = sub
      BY <1>1, <1>3, <1>8, <2>4 DEF WriteReview, WriteScores, WriteRatify
    <3> QED
      BY <1>1, <1>5, <2>2, <2>3, <2>4, <3>1 DEF Quiet, LabApart
  <2>5. ASSUME NEW y, NEW e, NEW l, SubWritten(d, sub[d].student, y, e, l), d \in Submissions,
               l \in {None, FinalScore(e)}, y \in LabShown => l = None,
               l # None => y = "RATIFIED"
        PROVE  LabHolds'
    <3>1. /\ \A t \in Submissions \ {d} : sub'[t] = sub[t]
          /\ sub'[d].student = sub[d].student /\ sub'[d].status = y /\ sub'[d].eval = e /\ sub'[d].ledger = l
      BY <2>5 DEF SubWritten
    <3>2. LabGood(d) /\ (d \notin again => ~Busy(d))
      BY <1>1, <1>3, <2>1, <2>5 DEF LabGood, LabReviewOps
    <3>3. \A t, u \in Submissions : t # u => sub'[t].student = None \/ sub'[u].student # sub'[t].student
      BY <1>1, <3>1 DEF LabApart
    <3>4. d \notin again => ~Busy(d)'
      BY <2>2, <2>5, <3>2 DEF Quiet
    <3>5. sub'[d].ledger \in {None, FinalScore(sub'[d].eval)}
      BY <2>5, <3>1
    <3> QED
      BY <1>5, <2>2, <2>3, <2>5, <3>1, <3>3, <3>4, <3>5 DEF Quiet
  <2>6. ASSUME d \in Submissions
        PROVE  /\ sub[d].ledger = None
               /\ req[r].op = "ratify_lab" => x = FinalScore(sub[d].eval)
    BY <1>1, <1>3, <2>1, <2>6 DEF LabGood, LabReviewOps
  <2>7. ASSUME WriteReview(r), d \in Submissions PROVE LabHolds'
    <3>1. sub' = [sub EXCEPT ![d].status = "REVIEWED"]
      BY <1>3, <2>7 DEF WriteReview
    <3>2. SubWritten(d, sub[d].student, "REVIEWED", sub[d].eval, sub[d].ledger)
      BY <1>1, <2>7, <3>1, StatusWritten
    <3> QED
      BY <2>5, <2>6, <2>7, <3>2
  <2>8. ASSUME WriteScores(r), d \in Submissions PROVE LabHolds'
    <3>1. PICK h : sub' = [sub EXCEPT ![d].eval.human = h]
      BY <1>3, <2>8 DEF WriteScores
    <3>2. SubWritten(d, sub[d].student, sub[d].status, [ai |-> sub[d].eval.ai, human |-> h], sub[d].ledger)
      BY <1>1, <2>8, <3>1, ScoreWritten
    <3> QED
      BY <2>5, <2>6, <2>8, <3>2
  <2>9. ASSUME WriteRatify(r), d \in Submissions PROVE LabHolds'
    <3>1. sub' = [sub EXCEPT ![d].ledger = x, ![d].status = "RATIFIED"] /\ req[r].op = "ratify_lab"
      BY <1>3, <2>6, <2>9 DEF WriteRatify
    <3>2. SubWritten(d, sub[d].student, "RATIFIED", sub[d].eval, x)
      BY <1>1, <2>9, <3>1, GradeWritten
    <3> QED
      BY <2>5, <2>6, <2>9, <3>1, <3>2 DEF LabShown
  <2> QED
    BY <1>3, <1>8, <2>4, <2>7, <2>8, <2>9
<1> QED
  BY <1>2, <1>6, <1>7, <1>8, LabChecks DEF LabRequest

\* so do tasks, of which one that is not repeated still owns its submission,
LEMMA LabTaskKeeps ==
    ASSUME NEW V, LabShape(V), \A s \in Submissions : LabSound(s), LabHolds,
           NEW w \in Workers, LabTask(w), UNCHANGED <<req, raced>>
    PROVE  LabHolds'
<1>1. /\ sub \in [Submissions -> LabRow(V)] /\ BackendShape(V, Submissions) /\ None \notin Submissions
      /\ Owned(Submissions) /\ AssignmentGood /\ LabApart /\ \A s \in Submissions : LabGood(s)
      /\ UNCHANGED <<asg, req>>
  BY LabNames
  DEF LabShape, LabHolds, LabTask, StartEvaluation, CommitEvaluation, FailEvaluation, ResetSubmission,
      ResetSubmissionFails
<1>2. AssignmentGood'
  BY <1>1 DEF AssignmentGood
<1>3. ASSUME Quiet(Submissions), UNCHANGED sub, again \subseteq again' PROVE LabHolds'
  BY <1>1, <1>2, <1>3 DEF LabHolds, LabApart, LabGood, Quiet
<1>4. ASSUME NEW s \in Submissions, NEW x, NEW e, SubWritten(s, sub[s].student, x, e, sub[s].ledger),
             Quiet(Submissions), again \subseteq again', LabGood(s)'
      PROVE  LabHolds'
  <2>1. LabApart'
    BY <1>1, <1>4 DEF LabApart, SubWritten
  <2>2. ASSUME NEW t \in Submissions, t # s PROVE LabGood(t)'
    BY <1>1, <1>4, <2>2 DEF LabGood, SubWritten, Quiet
  <2> QED
    BY <1>2, <1>4, <2>1, <2>2 DEF LabHolds, Quiet
<1>5. ASSUME NEW m \in Slots, StartEvaluation(w, m) PROVE LabHolds'
  <2>1. PICK s : s = msg[m].to /\ sub' = [sub EXCEPT ![s].status = "EVALUATING"]
    BY <1>5 DEF StartEvaluation
  <2>2. Quiet(Submissions) /\ UNCHANGED again
    BY <1>1, <1>5, TaskOwned DEF StartEvaluation
  <2>3. CASE s \notin Submissions
    <3>1. sub' = sub
      BY <1>1, <2>1, <2>3
    <3> QED
      BY <1>3, <2>2, <3>1
  <2>4. ASSUME s \in Submissions PROVE LabHolds'
    <3>1. SubWritten(s, sub[s].student, "EVALUATING", sub[s].eval, sub[s].ledger)
      BY <1>1, <2>1, <2>4, StatusWritten
    <3>2. LabGood(s) /\ Busy(s)
      BY <1>1, <2>1, <2>4 DEF Busy, Queued
    <3>3. LabGood(s)'
      BY <1>1, <2>2, <2>4, <3>1, <3>2 DEF LabGood, SubWritten, LabShown
    <3> QED
      BY <1>4, <2>2, <2>4, <3>1, <3>3
  <2> QED
    BY <2>3, <2>4
<1>6. CASE FailEvaluation(w)
  <2>1. UNCHANGED <<sub, again>> /\ Quiet(Submissions)
    BY <1>1, <1>6, TaskOwned DEF FailEvaluation
  <2> QED
    BY <1>3, <2>1
<1>7. PICK s : s = exec[w].to
  OBVIOUS
\* A task ends: unless it is repeated its submission was EVALUATING, and is busy no more.
<1>8. ASSUME Finish(w) \/ Retry(w)
      PROVE  /\ Quiet(Submissions) /\ again \subseteq again'
             /\ s \in Submissions \ again' =>
                   ~Busy(s)' /\ sub[s].status = "EVALUATING" /\ sub[s].ledger = None
  <2>1. /\ Quiet(Submissions)
        /\ again \subseteq again' /\ again' \subseteq again \cup {s}
        /\ s \in Submissions \ again' => Busy(s) /\ ~Busy(s)'
    BY <1>1, <1>7, <1>8, TaskEndOwned
  <2> QED
    BY <1>1, <2>1 DEF LabGood
<1>9. CASE CommitEvaluation(w)
  <2>1. CASE Goto(w, "refused", None) /\ UNCHANGED <<sub, msg, again>>
    <3>1. Quiet(Submissions)
      BY <1>1, <2>1, TaskOwned
    <3> QED
      BY <1>3, <2>1, <3>1
  <2>2. ASSUME NEW x \in Scores, sub[s].eval = NoEvaluation, Finish(w),
               sub' = [sub EXCEPT ![s].status = "EVALUATED", ![s].eval = [ai |-> x, human |-> None]]
        PROVE  LabHolds'
    <3>1. CASE s \notin Submissions
      <4>1. sub' = sub
        BY <1>1, <2>2, <3>1
      <4> QED
        BY <1>3, <1>8, <2>2, <4>1
    <3>2. ASSUME s \in Submissions PROVE LabHolds'
      <4>1. SubWritten(s, sub[s].student, "EVALUATED", [ai |-> x, human |-> None], sub[s].ledger)
        BY <1>1, <2>2, <3>2, EvaluationWritten
      <4>2. LabSound(s) /\ sub[s].eval.ai = None
        BY <2>2, <3>2 DEF NoEvaluation
      <4>3. sub[s].ledger = None /\ \A q \in Reqs : req[q].on = s => req[q].op \notin LabReviewOps
        BY <4>2 DEF LabSound, LabReviewOps
      <4>4. LabGood(s)'
        BY <1>1, <1>8, <2>2, <3>2, <4>1, <4>3 DEF LabGood, SubWritten, LabReviewOps
      <4> QED
        BY <1>4, <1>8, <2>2, <3>2, <4>1, <4>4
    <3> QED
      BY <3>1, <3>2
  <2> QED
    BY <1>7, <1>9, <2>1, <2>2 DEF CommitEvaluation
<1>10. CASE ResetSubmission(w)
  <2>1. sub' = [sub EXCEPT ![s].status = "SUBMITTED"] /\ (Finish(w) \/ Retry(w))
    BY <1>7, <1>10 DEF ResetSubmission, EndRaised
  <2>2. CASE s \notin Submissions
    <3>1. sub' = sub
      BY <1>1, <2>1, <2>2
    <3> QED
      BY <1>3, <1>8, <2>1, <3>1
  <2>3. ASSUME s \in Submissions PROVE LabHolds'
    <3>1. SubWritten(s, sub[s].student, "SUBMITTED", sub[s].eval, sub[s].ledger)
      BY <1>1, <2>1, <2>3, StatusWritten
    <3>2. LabGood(s)
      BY <1>1, <2>3
    <3>3. LabGood(s)'
      BY <1>1, <1>8, <2>1, <2>3, <3>1, <3>2 DEF LabGood, SubWritten, LabShown
    <3> QED
      BY <1>4, <1>8, <2>1, <2>3, <3>1, <3>3
  <2> QED
    BY <2>2, <2>3
<1>11. CASE ResetSubmissionFails(w)
  BY <1>3, <1>8, <1>11 DEF ResetSubmissionFails
<1> QED
  BY <1>5, <1>6, <1>9, <1>10, <1>11 DEF LabTask

\* and what publishes, fails or is delivered again.
LEMMA LabEnvironmentKeeps ==
    ASSUME NEW V, LabShape(V), LabHolds, Environment, UNCHANGED <<asg, sub>>
    PROVE  LabHolds'
<1>1. BackendShape(V, Submissions) /\ Owned(Submissions) /\ None \notin Submissions
  BY LabNames DEF LabShape, LabHolds
<1>2. /\ Quiet(Submissions) /\ again \subseteq again'
      /\ \A q \in Reqs : Active(q)' => Active(q) /\ UNCHANGED req[q]
  BY <1>1, EnvironmentOwned
<1>3. \A q \in Reqs : req'[q].op \in LabOps => req'[q] = req[q]
  BY <1>2, LabNames DEF Active, LabOps
<1>4. AssignmentGood' /\ LabApart'
  BY <1>3 DEF LabHolds, AssignmentGood, LabApart, LabOps
<1>5. ASSUME NEW s \in Submissions PROVE LabGood(s)'
  BY <1>2, <1>3 DEF LabHolds, LabGood, LabOps, Quiet
<1> QED
  BY <1>2, <1>4, <1>5 DEF LabHolds, Quiet

\* An overlap is remembered.
LEMMA LabRacedStays ==
    ASSUME NEW V, LabShape(V), LabNext, raced
    PROVE  raced'
<1>1. ASSUME NEW r \in Reqs, LabRequest(r) PROVE raced'
  <2>1. ASSUME NEW o, NEW d, NEW x, Begin(r, o, d, x) PROVE raced'
    BY <2>1 DEF Begin, LabShape, BackendShape
  <2>2. ASSUME End(r) \/ \E d, t : EndPublishing(r, d, t) PROVE raced'
    BY <2>2 DEF End, EndPublishing
  <2>3. \/ \E o, d, x : Begin(r, o, d, x)
        \/ End(r)
        \/ \E d, t : EndPublishing(r, d, t)
    BY <1>1, LabChecks
    DEF LabRequest, WriteUpdateAssignment, WritePublishAssignment, WriteCloseAssignment,
        WriteSubmission, WriteReview, WriteScores, WriteRatify
  <2> QED
    BY <2>1, <2>2, <2>3
<1>2. ASSUME Environment PROVE raced'
  BY <1>2 DEF Environment, Publish, End, Abandon, WorkerCrash, ProcessLost, Redeliver
<1> QED
  BY <1>1, <1>2 DEF LabNext

\* Nothing is submitted or under way at first.
LEMMA LabInitHolds ==
    ASSUME LabInit
    PROVE  LabInv
<1>1. PICK V : V = {None, 0, "none", "idle", "DRAFT", "NONE"}
  OBVIOUS
<1>2. LabShape(V)
  BY <1>1
  DEF LabInit, BackendInit, NoSubmission, NoEvaluation, NoReq, NoMsg, Idle, LabShape, LabRow, BackendShape
<1>3. /\ \A r \in Reqs : req[r].op = None /\ req[r].on = None /\ ~Active(r) /\ \A d \in Submissions : ~Asking(r, d)
      /\ \A m \in Slots, d \in Submissions : ~Queued(m, d)
      /\ \A w \in Workers : exec[w].to \notin Submissions
      /\ \A s \in Submissions : /\ sub[s].status = "NONE" /\ sub[s].ledger = None
                                /\ sub[s].student = None /\ sub[s].eval.human = None
      /\ asg.status = "DRAFT"
  BY LabNames
  DEF LabInit, BackendInit, NoSubmission, NoEvaluation, NoReq, NoMsg, Idle, Active, Asking, Queued
<1>4. Owned(Submissions)
  BY <1>3 DEF Owned, Solo, Single, Held
<1>5. AssignmentGood /\ LabApart
  BY <1>3, LabNames DEF AssignmentGood, LabApart, LabOps
<1>6. \A s \in Submissions : LabSound(s) /\ LabGood(s)
  BY <1>3, LabNames DEF LabSound, LabGood, LabShown, Busy
<1> QED
  BY <1>2, <1>4, <1>5, <1>6 DEF LabInv, LabHolds

\* The invariant is inductive.
LEMMA LabNextHolds ==
    ASSUME LabInv, [LabNext]_labVars
    PROVE  LabInv' /\ GradesKept
<1>1. PICK V : LabShape(V)
  BY DEF LabInv
<1>2. CASE UNCHANGED labVars
  <2>1. UNCHANGED <<asg, sub, req, msg, exec, again, raced>>
    BY <1>2 DEF labVars, backend, queue
  <2>2. LabShape(V)' /\ GradesKept
    BY <1>1, <2>1 DEF LabShape, BackendShape, GradesKept
  <2>3. \A s \in Submissions : LabSound(s)'
    BY <2>1 DEF LabInv, LabSound
  <2>4. LabHolds => LabHolds'
    BY <2>1
    DEF LabHolds, AssignmentGood, LabApart, LabGood, Owned, Solo, Single, Held, Busy, Active, Asking, Queued
  <2> QED
    BY <2>1, <2>2, <2>3, <2>4 DEF LabInv
<1>3. CASE LabNext
  <2>1. PICK W : W = V \cup LabWords
    OBVIOUS
  <2>2. LabShape(W)'
    BY <1>1, <1>3, <2>1, LabShapeStep
  <2>3. (\A s \in Submissions : LabSound(s)') /\ GradesKept
    BY <1>1, <1>3, LabSoundKeeps DEF LabInv
  <2>4. ASSUME ~raced' PROVE LabHolds'
    <3>1. LabHolds
      BY <1>1, <1>3, <2>4, LabRacedStays DEF LabInv
    <3> QED
      BY <1>1, <1>3, <2>4, <3>1, LabRequestKeeps, LabTaskKeeps, LabEnvironmentKeeps DEF LabNext, LabInv
  <2> QED
    BY <2>2, <2>3, <2>4 DEF LabInv
<1> QED
  BY <1>2, <1>3

\* What is graded agrees with what was evaluated.
LEMMA LabInvAgrees ==
    ASSUME LabInv
    PROVE  GradesAgree
<1>1. \A s \in Submissions : sub[s].eval.ai # None => sub[s].eval # NoEvaluation
  BY DEF NoEvaluation
<1> QED
  BY <1>1 DEF LabInv, LabSound, LabShown, LabHolds, AssignmentGood, LabApart, LabGood, GradesAgree

\* The grade ledger agrees with the evaluations, the statuses and the rubric, for any number
\* of students and submissions, with the exceptions that GradesAgree names.
THEOREM GradesAgreeAlways == LabSpec => []GradesAgree
BY LabInitHolds, LabNextHolds, LabInvAgrees, PTL DEF LabSpec

\* A grade and the AI's score under it never change, whatever overlaps and repeats.
THEOREM GradesStandAlways == LabSpec => GradesStand
<1>1. LabInv /\ [LabNext]_labVars => LabInv'
  BY LabNextHolds
<1>2. LabInv /\ [LabNext]_labVars => [GradesKept]_labVars
  BY LabNextHolds
<1> QED
  BY <1>1, <1>2, LabInitHolds, PTL DEF LabSpec, GradesStand, GradesKept

----------------------------------------------------------------------------
(* More about the backend.                                                 *)

\* A request that goes on with its next part starts no generation.
LEMMA ContinueOwned ==
    ASSUME NEW V, NEW R, NEW D, BackendShape(V, R), None \notin D, Owned(D), UNCHANGED queue,
           NEW r \in Reqs, Active(r), req'[r].op \notin {None, "publish"},
           \A q \in Reqs \ {r} : req'[q] = req[q]
    PROVE  Quiet(D) /\ \A s \in Reqs : Active(s)' => s = r
<1>1. UNCHANGED <<msg, exec, again>>
  BY DEF queue
<1>2. \A s \in Reqs : Active(s)' => s = r
  BY DEF Owned, Solo, Active
<1>3. \A s \in Reqs, e \in D : Asking(s, e)' => Asking(s, e)
  BY DEF Asking
<1>4. Solo'
  BY <1>2 DEF Solo
<1>5. Single(D)' /\ Held(D)' /\ \A e \in D : Busy(e)' => Busy(e)
  BY <1>1, <1>3 DEF Owned, Single, Held, Busy, Queued
<1> QED
  BY <1>2, <1>4, <1>5 DEF Owned, Quiet

\* It is still on record, on the same row.
LEMMA ContinueShape ==
    ASSUME NEW V, NEW D, BackendShape(V, D), UNCHANGED <<queue, raced>>, NEW r \in Reqs, NEW o \in V,
           req' = [req EXCEPT ![r].op = o]
    PROVE  /\ BackendShape(V, D)'
           /\ req'[r].op = o /\ req'[r].on = req[r].on
           /\ \A q \in Reqs \ {r} : req'[q] = req[q]
<1>1. PICK new : new = [req[r] EXCEPT !.op = o]
  OBVIOUS
<1>2. req[r] \in [op : V, on : D \cup {None}, mem : V, task : V]
  BY DEF BackendShape
<1>3. /\ new \in [op : V, on : D \cup {None}, mem : V, task : V]
      /\ new.op = o /\ new.on = req[r].on
  BY <1>1, <1>2
<1>4. req' = [req EXCEPT ![r] = new]
  BY <1>1
<1>5. /\ req' \in [Reqs -> [op : V, on : D \cup {None}, mem : V, task : V]]
      /\ req'[r] = new /\ \A q \in Reqs \ {r} : req'[q] = req[q]
  BY <1>3, <1>4 DEF BackendShape
<1> QED
  BY <1>3, <1>5 DEF BackendShape, queue

\* Fewer documents are owned as well.
LEMMA OwnedShrinks ==
    ASSUME NEW D, NEW E, Owned(D), E \subseteq D
    PROVE  Owned(E)
BY DEF Owned, Single, Held

\* A worker that takes a message up, goes on with it or ends leaves the other
\* workers and the addressees of the messages alone.
LEMMA TakeRow ==
    ASSUME NEW V, NEW R, BackendShape(V, R), NEW w \in Workers, NEW m \in Slots, NEW t, NEW p, NEW x,
           Take(w, m, t, p, x)
    PROVE  /\ exec'[w].to = msg[m].to /\ exec'[w].mem = x /\ exec'[w].phase = p /\ exec'[w].task = t
           /\ \A u \in Workers \ {w} : exec'[u] = exec[u]
           /\ \A n \in Slots : msg'[n].to = msg[n].to /\ msg'[n].task = msg[n].task
BY DEF Take, BackendShape

LEMMA TaskEndRow ==
    ASSUME NEW V, NEW R, BackendShape(V, R), NEW w \in Workers, Finish(w) \/ Retry(w)
    PROVE  /\ exec'[w] = Idle
           /\ \A u \in Workers \ {w} : exec'[u] = exec[u]
           /\ \A n \in Slots : \/ msg'[n].to = msg[n].to /\ msg'[n].task = msg[n].task
                               \/ msg'[n] = NoMsg
<1>1. CASE Finish(w)
  BY <1>1 DEF Finish, Acked, BackendShape
<1>2. CASE Retry(w)
  BY <1>2 DEF Retry, BackendShape
<1> QED
  BY <1>1, <1>2

\* What happens around them makes no request and no task, and a message only for
\* what a request asked for.
LEMMA EnvironmentRow ==
    ASSUME NEW V, NEW R, BackendShape(V, R), Environment
    PROVE  /\ \A q \in Reqs : req'[q] = req[q] \/ req'[q] = NoReq
           /\ \A u \in Workers : exec'[u] = exec[u] \/ exec'[u] = Idle
           /\ \A n \in Slots : \/ msg'[n].to = msg[n].to /\ msg'[n].task = msg[n].task
                               \/ msg'[n] = NoMsg
                               \/ \E q \in Reqs : /\ req[q].op = "publish" /\ msg'[n].to = req[q].on
                                                  /\ msg'[n].task = req[q].task
<1>1. ASSUME NEW r \in Reqs, Publish(r)
      PROVE  /\ \A q \in Reqs : req'[q] = req[q] \/ req'[q] = NoReq
             /\ UNCHANGED exec
             /\ \A n \in Slots : \/ msg'[n].to = msg[n].to /\ msg'[n].task = msg[n].task
                                 \/ \E q \in Reqs : /\ req[q].op = "publish" /\ msg'[n].to = req[q].on
                                                    /\ msg'[n].task = req[q].task
  BY <1>1 DEF Publish, End, BackendShape
<1>2. ASSUME NEW r \in Reqs, Abandon(r)
      PROVE  /\ \A q \in Reqs : req'[q] = req[q] \/ req'[q] = NoReq
             /\ UNCHANGED <<exec, msg>>
  BY <1>2 DEF Abandon, BackendShape
<1>3. ASSUME NEW w \in Workers, WorkerCrash(w) \/ ProcessLost(w)
      PROVE  /\ UNCHANGED req
             /\ \A u \in Workers : exec'[u] = exec[u] \/ exec'[u] = Idle
             /\ \A n \in Slots : msg'[n] = msg[n] \/ msg'[n] = NoMsg
  BY <1>3 DEF WorkerCrash, ProcessLost, Acked, BackendShape
<1>4. ASSUME NEW m \in Slots, Redeliver(m)
      PROVE  /\ UNCHANGED <<req, exec>>
             /\ \A n \in Slots : msg'[n].to = msg[n].to /\ msg'[n].task = msg[n].task
  BY <1>4 DEF Redeliver, BackendShape
<1> QED
  BY <1>1, <1>2, <1>3, <1>4 DEF Environment

----------------------------------------------------------------------------
(* Vivas.                                                                  *)

\* The columns of a session and its records, over one set of names.
VivaRow(V) ==
    [status : V, consent : BOOLEAN, video : BOOLEAN, answers : SUBSET Questions, judged : V, guide : BOOLEAN]

VivaShape(V) ==
    /\ viva \in [Vivas -> VivaRow(V)]
    /\ BackendShape(V, Vivas)

\* The statuses that an evaluation leads to.
VivaJudged == {"EVALUATED", "GUIDE_RATIFIED"}

\* Whatever overlaps: recordings, evaluations and all that leads to one have the
\* consent; what is evaluated or ratified has been judged.
VivaRowSound(v) ==
    /\ viva[v].video \/ viva[v].judged # None => viva[v].consent
    /\ viva[v].status \in VivaJudged \/ viva[v].guide => viva[v].judged # None

VivaReqSound(r) ==
    req[r].on \in Vivas =>
        /\ req[r].op \in {"complete", "queue_viva", "publish"} => viva[req[r].on].consent
        /\ req[r].op = "ratify_viva" => viva[req[r].on].judged # None

VivaMsgSound(m) == msg[m].to \in Vivas => viva[msg[m].to].consent

VivaExecSound(w) == exec[w].to \in Vivas => viva[exec[w].to].consent /\ exec[w].mem # None

VivaSound ==
    /\ \A v \in Vivas : VivaRowSound(v)
    /\ \A r \in Reqs : VivaReqSound(r)
    /\ \A m \in Slots : VivaMsgSound(m)
    /\ \A w \in Workers : VivaExecSound(w)

\* What the check of an operation found and its write relies on.
VivaStands(op, row) ==
    /\ op = "respond" => row.status \in {"SCHEDULED", "IN_PROGRESS"}
    /\ op = "conduct" => row.status = "SCHEDULED"
    /\ op = "queue_viva" => row.status = "COMPLETED"
    /\ op = "ratify_viva" => row.status = "EVALUATED"

\* It still holds at the write; a session that is processed says so, and its
\* worker has its answers.
VivaGood(v) ==
    /\ \A r \in Reqs : req[r].on = v => VivaStands(req[r].op, viva[v])
    /\ Busy(v) => viva[v].status = "ASR_PROCESSING"
    /\ \A w \in Workers : exec[w].to = v => exec[w].mem = viva[v].answers
    /\ viva[v].status \in VivaJudged => viva[v].judged = viva[v].answers

\* Without overlap, of every session that was not reopened, and not repeated.
VivaHolds == Owned(Vivas \ reopened) /\ \A v \in Vivas \ (again \cup reopened) : VivaGood(v)

\* The inductive invariant of the vivas.
VivaInv ==
    /\ \E V : VivaShape(V)
    /\ VivaSound
    /\ raced \/ VivaHolds

\* The names and numbers a step writes.
VivaWords ==
    UNION {Words(Vivas), VivaOps, SUBSET Questions, VivaJudged, {viva[msg[m].to].answers : m \in Slots},
           {"process_viva_session", "SCHEDULED", "IN_PROGRESS", "COMPLETED", "ASR_PROCESSING", "NONE"}}

\* A step that writes the row of v, and what its columns are then.
VivaRecord(v) ==
    viva' = [viva EXCEPT ![v] = [status |-> viva'[v].status, consent |-> viva'[v].consent,
                                 video |-> viva'[v].video, answers |-> viva'[v].answers,
                                 judged |-> viva'[v].judged, guide |-> viva'[v].guide]]

VivaWritten(v, x, c, u, a, j, g) ==
    /\ VivaRecord(v)
    /\ \A t \in Vivas \ {v} : viva'[t] = viva[t]
    /\ viva'[v].status = x /\ viva'[v].consent = c /\ viva'[v].video = u
    /\ viva'[v].answers = a /\ viva'[v].judged = j /\ viva'[v].guide = g

\* The writes of a session, by the columns they set.
LEMMA VivaStatusWritten ==
    ASSUME NEW V, viva \in [Vivas -> VivaRow(V)], NEW v \in Vivas, NEW x,
           viva' = [viva EXCEPT ![v].status = x]
    PROVE  VivaWritten(v, x, viva[v].consent, viva[v].video, viva[v].answers, viva[v].judged, viva[v].guide)
<1>1. viva[v] \in VivaRow(V)
  OBVIOUS
<1>2. viva' = [viva EXCEPT ![v] = [viva[v] EXCEPT !.status = x]]
  OBVIOUS
<1>3. PICK new : new = [viva[v] EXCEPT !.status = x]
  OBVIOUS
<1>4. viva' = [viva EXCEPT ![v] = new]
  BY <1>2, <1>3
<1>5. new.status = x /\ new.consent = viva[v].consent /\ new.video = viva[v].video /\ new.answers = viva[v].answers /\ new.judged = viva[v].judged /\ new.guide = viva[v].guide
  BY <1>1, <1>3 DEF VivaRow
<1>6. new = [status |-> new.status, consent |-> new.consent, video |-> new.video, answers |-> new.answers, judged |-> new.judged, guide |-> new.guide]
  BY <1>1, <1>3 DEF VivaRow
<1>7. viva'[v] = new
  BY <1>4
<1>8. viva' = [viva EXCEPT ![v] = [status |-> viva'[v].status, consent |-> viva'[v].consent, video |-> viva'[v].video, answers |-> viva'[v].answers, judged |-> viva'[v].judged, guide |-> viva'[v].guide]]
  BY <1>4, <1>6, <1>7
<1> QED
  BY <1>4, <1>5, <1>7, <1>8 DEF VivaWritten, VivaRecord

\* the consent,
LEMMA ConsentWritten ==
    ASSUME NEW V, viva \in [Vivas -> VivaRow(V)], NEW v \in Vivas, NEW x,
           viva' = [viva EXCEPT ![v].consent = TRUE, ![v].status = x]
    PROVE  VivaWritten(v, x, TRUE, viva[v].video, viva[v].answers, viva[v].judged, viva[v].guide)
<1>1. viva[v] \in VivaRow(V)
  OBVIOUS
<1>2. viva' = [viva EXCEPT ![v] = [viva[v] EXCEPT !.consent = TRUE, !.status = x]]
  OBVIOUS
<1>3. PICK new : new = [viva[v] EXCEPT !.consent = TRUE, !.status = x]
  OBVIOUS
<1>4. viva' = [viva EXCEPT ![v] = new]
  BY <1>2, <1>3
<1>5. new.status = x /\ new.consent = TRUE /\ new.video = viva[v].video /\ new.answers = viva[v].answers /\ new.judged = viva[v].judged /\ new.guide = viva[v].guide
  BY <1>1, <1>3 DEF VivaRow
<1>6. new = [status |-> new.status, consent |-> new.consent, video |-> new.video, answers |-> new.answers, judged |-> new.judged, guide |-> new.guide]
  BY <1>1, <1>3 DEF VivaRow
<1>7. viva'[v] = new
  BY <1>4
<1>8. viva' = [viva EXCEPT ![v] = [status |-> viva'[v].status, consent |-> viva'[v].consent, video |-> viva'[v].video, answers |-> viva'[v].answers, judged |-> viva'[v].judged, guide |-> viva'[v].guide]]
  BY <1>4, <1>6, <1>7
<1> QED
  BY <1>4, <1>5, <1>7, <1>8 DEF VivaWritten, VivaRecord

\* one more answer,
LEMMA AnswersWritten ==
    ASSUME NEW V, viva \in [Vivas -> VivaRow(V)], NEW v \in Vivas, NEW a,
           viva' = [viva EXCEPT ![v].answers = a]
    PROVE  VivaWritten(v, viva[v].status, viva[v].consent, viva[v].video, a, viva[v].judged, viva[v].guide)
<1>1. viva[v] \in VivaRow(V)
  OBVIOUS
<1>2. viva' = [viva EXCEPT ![v] = [viva[v] EXCEPT !.answers = a]]
  OBVIOUS
<1>3. PICK new : new = [viva[v] EXCEPT !.answers = a]
  OBVIOUS
<1>4. viva' = [viva EXCEPT ![v] = new]
  BY <1>2, <1>3
<1>5. new.status = viva[v].status /\ new.consent = viva[v].consent /\ new.video = viva[v].video /\ new.answers = a /\ new.judged = viva[v].judged /\ new.guide = viva[v].guide
  BY <1>1, <1>3 DEF VivaRow
<1>6. new = [status |-> new.status, consent |-> new.consent, video |-> new.video, answers |-> new.answers, judged |-> new.judged, guide |-> new.guide]
  BY <1>1, <1>3 DEF VivaRow
<1>7. viva'[v] = new
  BY <1>4
<1>8. viva' = [viva EXCEPT ![v] = [status |-> viva'[v].status, consent |-> viva'[v].consent, video |-> viva'[v].video, answers |-> viva'[v].answers, judged |-> viva'[v].judged, guide |-> viva'[v].guide]]
  BY <1>4, <1>6, <1>7
<1> QED
  BY <1>4, <1>5, <1>7, <1>8 DEF VivaWritten, VivaRecord

\* the recording,
LEMMA RecordingWritten ==
    ASSUME NEW V, viva \in [Vivas -> VivaRow(V)], NEW v \in Vivas, NEW x,
           viva' = [viva EXCEPT ![v].video = TRUE, ![v].status = x]
    PROVE  VivaWritten(v, x, viva[v].consent, TRUE, viva[v].answers, viva[v].judged, viva[v].guide)
<1>1. viva[v] \in VivaRow(V)
  OBVIOUS
<1>2. viva' = [viva EXCEPT ![v] = [viva[v] EXCEPT !.video = TRUE, !.status = x]]
  OBVIOUS
<1>3. PICK new : new = [viva[v] EXCEPT !.video = TRUE, !.status = x]
  OBVIOUS
<1>4. viva' = [viva EXCEPT ![v] = new]
  BY <1>2, <1>3
<1>5. new.status = x /\ new.consent = viva[v].consent /\ new.video = TRUE /\ new.answers = viva[v].answers /\ new.judged = viva[v].judged /\ new.guide = viva[v].guide
  BY <1>1, <1>3 DEF VivaRow
<1>6. new = [status |-> new.status, consent |-> new.consent, video |-> new.video, answers |-> new.answers, judged |-> new.judged, guide |-> new.guide]
  BY <1>1, <1>3 DEF VivaRow
<1>7. viva'[v] = new
  BY <1>4
<1>8. viva' = [viva EXCEPT ![v] = [status |-> viva'[v].status, consent |-> viva'[v].consent, video |-> viva'[v].video, answers |-> viva'[v].answers, judged |-> viva'[v].judged, guide |-> viva'[v].guide]]
  BY <1>4, <1>6, <1>7
<1> QED
  BY <1>4, <1>5, <1>7, <1>8 DEF VivaWritten, VivaRecord

\* the answers of an offline viva,
LEMMA ConductWritten ==
    ASSUME NEW V, viva \in [Vivas -> VivaRow(V)], NEW v \in Vivas, NEW a, NEW x,
           viva' = [viva EXCEPT ![v].answers = a, ![v].consent = TRUE, ![v].video = FALSE, ![v].status = x]
    PROVE  VivaWritten(v, x, TRUE, FALSE, a, viva[v].judged, viva[v].guide)
<1>1. viva[v] \in VivaRow(V)
  OBVIOUS
<1>2. viva' = [viva EXCEPT ![v] = [viva[v] EXCEPT !.answers = a, !.consent = TRUE, !.video = FALSE, !.status = x]]
  OBVIOUS
<1>3. PICK new : new = [viva[v] EXCEPT !.answers = a, !.consent = TRUE, !.video = FALSE, !.status = x]
  OBVIOUS
<1>4. viva' = [viva EXCEPT ![v] = new]
  BY <1>2, <1>3
<1>5. new.status = x /\ new.consent = TRUE /\ new.video = FALSE /\ new.answers = a /\ new.judged = viva[v].judged /\ new.guide = viva[v].guide
  BY <1>1, <1>3 DEF VivaRow
<1>6. new = [status |-> new.status, consent |-> new.consent, video |-> new.video, answers |-> new.answers, judged |-> new.judged, guide |-> new.guide]
  BY <1>1, <1>3 DEF VivaRow
<1>7. viva'[v] = new
  BY <1>4
<1>8. viva' = [viva EXCEPT ![v] = [status |-> viva'[v].status, consent |-> viva'[v].consent, video |-> viva'[v].video, answers |-> viva'[v].answers, judged |-> viva'[v].judged, guide |-> viva'[v].guide]]
  BY <1>4, <1>6, <1>7
<1> QED
  BY <1>4, <1>5, <1>7, <1>8 DEF VivaWritten, VivaRecord

\* the ratification,
LEMMA RatificationWritten ==
    ASSUME NEW V, viva \in [Vivas -> VivaRow(V)], NEW v \in Vivas, NEW x,
           viva' = [viva EXCEPT ![v].guide = TRUE, ![v].status = x]
    PROVE  VivaWritten(v, x, viva[v].consent, viva[v].video, viva[v].answers, viva[v].judged, TRUE)
<1>1. viva[v] \in VivaRow(V)
  OBVIOUS
<1>2. viva' = [viva EXCEPT ![v] = [viva[v] EXCEPT !.guide = TRUE, !.status = x]]
  OBVIOUS
<1>3. PICK new : new = [viva[v] EXCEPT !.guide = TRUE, !.status = x]
  OBVIOUS
<1>4. viva' = [viva EXCEPT ![v] = new]
  BY <1>2, <1>3
<1>5. new.status = x /\ new.consent = viva[v].consent /\ new.video = viva[v].video /\ new.answers = viva[v].answers /\ new.judged = viva[v].judged /\ new.guide = TRUE
  BY <1>1, <1>3 DEF VivaRow
<1>6. new = [status |-> new.status, consent |-> new.consent, video |-> new.video, answers |-> new.answers, judged |-> new.judged, guide |-> new.guide]
  BY <1>1, <1>3 DEF VivaRow
<1>7. viva'[v] = new
  BY <1>4
<1>8. viva' = [viva EXCEPT ![v] = [status |-> viva'[v].status, consent |-> viva'[v].consent, video |-> viva'[v].video, answers |-> viva'[v].answers, judged |-> viva'[v].judged, guide |-> viva'[v].guide]]
  BY <1>4, <1>6, <1>7
<1> QED
  BY <1>4, <1>5, <1>7, <1>8 DEF VivaWritten, VivaRecord

\* and the judgement.
LEMMA JudgementWritten ==
    ASSUME NEW V, viva \in [Vivas -> VivaRow(V)], NEW v \in Vivas, NEW j, NEW x,
           viva' = [viva EXCEPT ![v].judged = j, ![v].status = x]
    PROVE  VivaWritten(v, x, viva[v].consent, viva[v].video, viva[v].answers, j, viva[v].guide)
<1>1. viva[v] \in VivaRow(V)
  OBVIOUS
<1>2. viva' = [viva EXCEPT ![v] = [viva[v] EXCEPT !.judged = j, !.status = x]]
  OBVIOUS
<1>3. PICK new : new = [viva[v] EXCEPT !.judged = j, !.status = x]
  OBVIOUS
<1>4. viva' = [viva EXCEPT ![v] = new]
  BY <1>2, <1>3
<1>5. new.status = x /\ new.consent = viva[v].consent /\ new.video = viva[v].video /\ new.answers = viva[v].answers /\ new.judged = j /\ new.guide = viva[v].guide
  BY <1>1, <1>3 DEF VivaRow
<1>6. new = [status |-> new.status, consent |-> new.consent, video |-> new.video, answers |-> new.answers, judged |-> new.judged, guide |-> new.guide]
  BY <1>1, <1>3 DEF VivaRow
<1>7. viva'[v] = new
  BY <1>4
<1>8. viva' = [viva EXCEPT ![v] = [status |-> viva'[v].status, consent |-> viva'[v].consent, video |-> viva'[v].video, answers |-> viva'[v].answers, judged |-> viva'[v].judged, guide |-> viva'[v].guide]]
  BY <1>4, <1>6, <1>7
<1> QED
  BY <1>4, <1>5, <1>7, <1>8 DEF VivaWritten, VivaRecord

\* A row whose columns are names is of the shape.
LEMMA VivaShaped ==
    ASSUME NEW V, viva \in [Vivas -> VivaRow(V)], NEW v \in Vivas, VivaRecord(v),
           viva'[v].status \in V, viva'[v].consent \in BOOLEAN, viva'[v].video \in BOOLEAN,
           viva'[v].answers \in SUBSET Questions, viva'[v].judged \in V, viva'[v].guide \in BOOLEAN
    PROVE  viva' \in [Vivas -> VivaRow(V)]
<1>1. PICK new : new = [status |-> viva'[v].status, consent |-> viva'[v].consent,
                        video |-> viva'[v].video, answers |-> viva'[v].answers,
                        judged |-> viva'[v].judged, guide |-> viva'[v].guide]
  OBVIOUS
<1>2. new \in VivaRow(V)
  BY <1>1 DEF VivaRow
<1>3. viva' = [viva EXCEPT ![v] = new]
  BY <1>1 DEF VivaRecord
<1> QED
  BY <1>2, <1>3

\* What a request writes,
LEMMA VivaWrites ==
    ASSUME NEW V, VivaShape(V), NEW r \in Reqs, NEW d \in Vivas, d = req[r].on
    PROVE  /\ WriteConsent(r) => VivaWritten(d, "IN_PROGRESS", TRUE, viva[d].video, viva[d].answers, viva[d].judged, viva[d].guide)
           /\ WriteResponse(r) => \E q \in Questions : VivaWritten(d, viva[d].status, viva[d].consent, viva[d].video, viva[d].answers \cup {q}, viva[d].judged, viva[d].guide)
           /\ WriteComplete(r) => VivaWritten(d, "COMPLETED", viva[d].consent, TRUE, viva[d].answers, viva[d].judged, viva[d].guide)
           /\ WriteConduct(r) => \E a \in Answers : VivaWritten(d, "COMPLETED", TRUE, FALSE, a, viva[d].judged, viva[d].guide)
           /\ WriteQueued(r) => VivaWritten(d, "ASR_PROCESSING", viva[d].consent, viva[d].video, viva[d].answers, viva[d].judged, viva[d].guide)
           /\ WriteRatifyViva(r) => VivaWritten(d, "GUIDE_RATIFIED", viva[d].consent, viva[d].video, viva[d].answers, viva[d].judged, TRUE)
<1>1. viva \in [Vivas -> VivaRow(V)]
  BY DEF VivaShape
<1>2. ASSUME WriteConsent(r)
      PROVE  VivaWritten(d, "IN_PROGRESS", TRUE, viva[d].video, viva[d].answers, viva[d].judged, viva[d].guide)
  <2>1. viva' = [viva EXCEPT ![d].consent = TRUE, ![d].status = "IN_PROGRESS"]
    BY <1>2 DEF WriteConsent
  <2> QED
    BY <1>1, <2>1, ConsentWritten
<1>3. ASSUME WriteResponse(r)
      PROVE  \E q \in Questions : VivaWritten(d, viva[d].status, viva[d].consent, viva[d].video, viva[d].answers \cup {q}, viva[d].judged, viva[d].guide)
  <2>1. PICK q \in Questions : viva' = [viva EXCEPT ![d].answers = @ \cup {q}]
    BY <1>3 DEF WriteResponse
  <2>2. PICK a : a = viva[d].answers \cup {q}
    OBVIOUS
  <2>3. viva' = [viva EXCEPT ![d].answers = a]
    BY <1>1, <2>1, <2>2 DEF VivaRow
  <2>4. VivaWritten(d, viva[d].status, viva[d].consent, viva[d].video, a, viva[d].judged, viva[d].guide)
    BY <1>1, <2>3, AnswersWritten
  <2> QED
    BY <2>2, <2>4
<1>4. ASSUME WriteComplete(r)
      PROVE  VivaWritten(d, "COMPLETED", viva[d].consent, TRUE, viva[d].answers, viva[d].judged, viva[d].guide)
  <2>1. viva' = [viva EXCEPT ![d].video = TRUE, ![d].status = "COMPLETED"]
    BY <1>4 DEF WriteComplete
  <2> QED
    BY <1>1, <2>1, RecordingWritten
<1>5. ASSUME WriteConduct(r)
      PROVE  \E a \in Answers : VivaWritten(d, "COMPLETED", TRUE, FALSE, a, viva[d].judged, viva[d].guide)
  <2>1. PICK a \in Answers : viva' = [viva EXCEPT ![d].answers = a, ![d].consent = TRUE,
                                                  ![d].video = FALSE, ![d].status = "COMPLETED"]
    BY <1>5 DEF WriteConduct
  <2>2. VivaWritten(d, "COMPLETED", TRUE, FALSE, a, viva[d].judged, viva[d].guide)
    BY <1>1, <2>1, ConductWritten
  <2> QED
    BY <2>2
<1>6. ASSUME WriteQueued(r)
      PROVE  VivaWritten(d, "ASR_PROCESSING", viva[d].consent, viva[d].video, viva[d].answers, viva[d].judged, viva[d].guide)
  <2>1. viva' = [viva EXCEPT ![d].status = "ASR_PROCESSING"]
    BY <1>6 DEF WriteQueued
  <2> QED
    BY <1>1, <2>1, VivaStatusWritten
<1>7. ASSUME WriteRatifyViva(r)
      PROVE  VivaWritten(d, "GUIDE_RATIFIED", viva[d].consent, viva[d].video, viva[d].answers, viva[d].judged, TRUE)
  <2>1. viva' = [viva EXCEPT ![d].guide = TRUE, ![d].status = "GUIDE_RATIFIED"]
    BY <1>7 DEF WriteRatifyViva
  <2> QED
    BY <1>1, <2>1, RatificationWritten
<1> QED
  BY <1>2, <1>3, <1>4, <1>5, <1>6, <1>7

\* A request on no session writes none.
LEMMA NoVivaWritten ==
    ASSUME NEW V, VivaShape(V), NEW r, req[r].on \notin Vivas,
           \/ WriteConsent(r) \/ WriteResponse(r) \/ WriteComplete(r) \/ WriteConduct(r)
           \/ WriteQueued(r) \/ WriteRatifyViva(r)
    PROVE  viva' = viva
<1>1. viva \in [Vivas -> VivaRow(V)]
  BY DEF VivaShape
<1>2. PICK d : d = req[r].on /\ d \notin Vivas
  OBVIOUS
<1>3. CASE WriteConsent(r)
  BY <1>1, <1>2, <1>3 DEF WriteConsent
<1>4. CASE WriteResponse(r)
  BY <1>1, <1>2, <1>4 DEF WriteResponse
<1>5. CASE WriteComplete(r)
  BY <1>1, <1>2, <1>5 DEF WriteComplete
<1>6. CASE WriteConduct(r)
  <2>1. PICK a : viva' = [viva EXCEPT ![d].answers = a, ![d].consent = TRUE,
                                      ![d].video = FALSE, ![d].status = "COMPLETED"]
    BY <1>2, <1>6 DEF WriteConduct
  <2> QED
    BY <1>1, <1>2, <2>1
<1>7. CASE WriteQueued(r)
  BY <1>1, <1>2, <1>7 DEF WriteQueued
<1>8. CASE WriteRatifyViva(r)
  BY <1>1, <1>2, <1>8 DEF WriteRatifyViva
<1> QED
  BY <1>3, <1>4, <1>5, <1>6, <1>7, <1>8

\* A session is scheduled in a fresh row.
LEMMA ScheduleWrites ==
    ASSUME NEW V, VivaShape(V), NEW r, WriteSchedule(r)
    PROVE  \E d \in FreshViva : VivaWritten(d, "SCHEDULED", viva[d].consent, viva[d].video, viva[d].answers, viva[d].judged, viva[d].guide)
<1>1. PICK d \in FreshViva : viva' = [viva EXCEPT ![d].status = "SCHEDULED"]
  BY DEF WriteSchedule
<1>2. d \in Vivas /\ viva \in [Vivas -> VivaRow(V)]
  BY DEF FreshViva, VivaShape
<1>3. VivaWritten(d, "SCHEDULED", viva[d].consent, viva[d].video, viva[d].answers, viva[d].judged, viva[d].guide)
  BY <1>1, <1>2, VivaStatusWritten
<1> QED
  BY <1>3

\* and a task.
LEMMA VivaTaskWrites ==
    ASSUME NEW V, VivaShape(V), NEW w \in Workers, NEW d \in Vivas
    PROVE  /\ \A m \in Slots : StartProcessing(w, m) /\ msg[m].to = d =>
                  \/ viva' = viva
                  \/ VivaWritten(d, "ASR_PROCESSING", viva[d].consent, viva[d].video, viva[d].answers, viva[d].judged, viva[d].guide)
           /\ CommitProcessing(w) /\ exec[w].to = d =>
                  VivaWritten(d, "EVALUATED", viva[d].consent, viva[d].video, viva[d].answers, exec[w].mem, viva[d].guide)
           /\ FailProcessing(w) /\ exec[w].to = d =>
                  \/ viva' = viva
                  \/ VivaWritten(d, "COMPLETED", viva[d].consent, viva[d].video, viva[d].answers, viva[d].judged, viva[d].guide)
<1>1. viva \in [Vivas -> VivaRow(V)]
  BY DEF VivaShape
<1>2. ASSUME NEW m \in Slots, StartProcessing(w, m), msg[m].to = d, viva' # viva
      PROVE  VivaWritten(d, "ASR_PROCESSING", viva[d].consent, viva[d].video, viva[d].answers, viva[d].judged, viva[d].guide)
  <2>1. viva' = [viva EXCEPT ![d].status = "ASR_PROCESSING"]
    BY <1>2 DEF StartProcessing
  <2> QED
    BY <1>1, <2>1, VivaStatusWritten
<1>3. ASSUME CommitProcessing(w), exec[w].to = d
      PROVE  VivaWritten(d, "EVALUATED", viva[d].consent, viva[d].video, viva[d].answers, exec[w].mem, viva[d].guide)
  <2>1. PICK j : j = exec[w].mem
    OBVIOUS
  <2>2. viva' = [viva EXCEPT ![d].judged = j, ![d].status = "EVALUATED"]
    BY <1>3, <2>1 DEF CommitProcessing
  <2>3. VivaWritten(d, "EVALUATED", viva[d].consent, viva[d].video, viva[d].answers, j, viva[d].guide)
    BY <1>1, <2>2, JudgementWritten
  <2> QED
    BY <2>1, <2>3
<1>4. ASSUME FailProcessing(w), exec[w].to = d, viva' # viva
      PROVE  VivaWritten(d, "COMPLETED", viva[d].consent, viva[d].video, viva[d].answers, viva[d].judged, viva[d].guide)
  <2>1. viva' = [viva EXCEPT ![d].status = "COMPLETED"]
    BY <1>4 DEF FailProcessing
  <2> QED
    BY <1>1, <2>1, VivaStatusWritten
<1> QED
  BY <1>2, <1>3, <1>4

\* A task for no session writes none.
LEMMA NoVivaProcessed ==
    ASSUME NEW V, VivaShape(V), NEW w \in Workers,
           \/ \E m \in Slots : StartProcessing(w, m) /\ msg[m].to \notin Vivas
           \/ (CommitProcessing(w) \/ FailProcessing(w)) /\ exec[w].to \notin Vivas
    PROVE  viva' = viva
<1>1. viva \in [Vivas -> VivaRow(V)]
  BY DEF VivaShape
<1>2. ASSUME NEW m \in Slots, StartProcessing(w, m), msg[m].to \notin Vivas PROVE viva' = viva
  BY <1>1, <1>2 DEF StartProcessing
<1>3. ASSUME CommitProcessing(w), exec[w].to \notin Vivas PROVE viva' = viva
  BY <1>1, <1>3 DEF CommitProcessing
<1>4. ASSUME FailProcessing(w), exec[w].to \notin Vivas PROVE viva' = viva
  BY <1>1, <1>4 DEF FailProcessing
<1> QED
  BY <1>2, <1>3, <1>4

\* Requests and tasks write rows of their shape, out of known names.
LEMMA VivaShapeStep ==
    ASSUME NEW V, VivaShape(V), VivaNext, NEW W, W = V \cup VivaWords
    PROVE  VivaShape(W)'
<1>1. VivaShape(W) /\ viva \in [Vivas -> VivaRow(W)] /\ BackendShape(W, Vivas)
  BY ShapeGrows DEF VivaShape, VivaRow
<1>2. /\ Words(Vivas) \subseteq W /\ SUBSET Questions \subseteq W
      /\ VivaOps \cup VivaJudged \cup {None, "process_viva_session", "running", "SCHEDULED", "IN_PROGRESS",
            "COMPLETED", "ASR_PROCESSING", "publish"} \subseteq W
  BY DEF VivaWords, Words
<1>3. \A v \in Vivas : /\ viva[v].status \in W /\ viva[v].consent \in BOOLEAN /\ viva[v].video \in BOOLEAN
                       /\ viva[v].answers \in SUBSET Questions /\ viva[v].judged \in W
                       /\ viva[v].guide \in BOOLEAN
  BY <1>1 DEF VivaRow
<1>4. ASSUME NEW v \in Vivas, VivaRecord(v), viva'[v].status \in W, viva'[v].judged \in W,
             viva'[v].answers \in SUBSET Questions, viva'[v].consent \in BOOLEAN,
             viva'[v].video \in BOOLEAN, viva'[v].guide \in BOOLEAN
      PROVE  viva' \in [Vivas -> VivaRow(W)]
  BY <1>1, <1>4, VivaShaped
<1>5. ASSUME NEW r \in Reqs, VivaRequest(r), UNCHANGED queue
      PROVE  VivaShape(W)'
  <2>1. PICK d \in Vivas \cup {None} : d = req[r].on
    BY <1>1 DEF BackendShape
  <2>2. ASSUME NEW o \in VivaOps, NEW e \in Vivas \cup {None}, Begin(r, o, e, None)
        PROVE  BackendShape(W, Vivas)'
    BY <1>1, <1>2, <1>5, <2>2, RequestShape
  <2>3. ASSUME End(r) \/ EndPublishing(r, d, "process_viva_session")
        PROVE  BackendShape(W, Vivas)'
    BY <1>1, <1>2, <1>5, <2>1, <2>3, RequestShape
  <2>4. ASSUME QueueProcessing(r) PROVE BackendShape(W, Vivas)'
    <3>1. "queue_viva" \in W
      BY <1>2 DEF VivaOps
    <3> QED
      BY <1>1, <1>5, <2>4, <3>1, ContinueShape DEF QueueProcessing
  <2>5. CASE \/ Schedule(r)
             \/ \E v \in Vivas : RecordConsent(r, v) \/ SubmitResponse(r, v) \/ Complete(r, v)
                                  \/ Conduct(r, v) \/ RatifyViva(r, v)
    <3>1. UNCHANGED viva /\ \E o \in VivaOps, e \in Vivas \cup {None} : Begin(r, o, e, None)
      BY <2>5 DEF Schedule, RecordConsent, SubmitResponse, Complete, Conduct, RatifyViva, Checked, VivaOps
    <3> QED
      BY <1>1, <2>2, <3>1 DEF VivaShape
  <2>6. CASE WriteSchedule(r)
    <3>1. PICK v \in FreshViva : VivaWritten(v, "SCHEDULED", viva[v].consent, viva[v].video, viva[v].answers, viva[v].judged, viva[v].guide)
      BY <1>1, <2>6, ScheduleWrites
    <3>2. v \in Vivas
      BY DEF FreshViva
    <3>3. viva' \in [Vivas -> VivaRow(W)]
      BY <1>2, <1>3, <1>4, <3>1, <3>2 DEF VivaWritten
    <3> QED
      BY <2>3, <2>6, <3>3 DEF WriteSchedule, VivaShape
  <2>7. CASE WriteConsent(r) \/ WriteResponse(r) \/ WriteComplete(r) \/ WriteConduct(r)
             \/ WriteQueued(r) \/ WriteRatifyViva(r)
    <3>1. BackendShape(W, Vivas)'
      BY <2>1, <2>3, <2>4, <2>7
      DEF WriteConsent, WriteResponse, WriteComplete, WriteConduct, WriteQueued, WriteRatifyViva
    <3>2. ASSUME d \in Vivas PROVE viva' \in [Vivas -> VivaRow(W)]
      <4>1. CASE WriteConsent(r)
        <5>1. VivaWritten(d, "IN_PROGRESS", TRUE, viva[d].video, viva[d].answers, viva[d].judged, viva[d].guide)
          BY <1>1, <2>1, <3>2, <4>1, VivaWrites
        <5> QED
          BY <1>2, <1>3, <1>4, <3>2, <5>1 DEF VivaWritten
      <4>2. CASE WriteResponse(r)
        <5>1. PICK q \in Questions : VivaWritten(d, viva[d].status, viva[d].consent, viva[d].video, viva[d].answers \cup {q}, viva[d].judged, viva[d].guide)
          BY <1>1, <2>1, <3>2, <4>2, VivaWrites
        <5>2. viva[d].answers \cup {q} \in SUBSET Questions
          BY <1>3, <3>2
        <5> QED
          BY <1>3, <1>4, <3>2, <5>1, <5>2 DEF VivaWritten
      <4>3. CASE WriteComplete(r)
        <5>1. VivaWritten(d, "COMPLETED", viva[d].consent, TRUE, viva[d].answers, viva[d].judged, viva[d].guide)
          BY <1>1, <2>1, <3>2, <4>3, VivaWrites
        <5> QED
          BY <1>2, <1>3, <1>4, <3>2, <5>1 DEF VivaWritten
      <4>4. CASE WriteConduct(r)
        <5>1. PICK a \in Answers : VivaWritten(d, "COMPLETED", TRUE, FALSE, a, viva[d].judged, viva[d].guide)
          BY <1>1, <2>1, <3>2, <4>4, VivaWrites
        <5> QED
          BY <1>2, <1>3, <1>4, <3>2, <5>1 DEF VivaWritten, Answers
      <4>5. CASE WriteQueued(r)
        <5>1. VivaWritten(d, "ASR_PROCESSING", viva[d].consent, viva[d].video, viva[d].answers, viva[d].judged, viva[d].guide)
          BY <1>1, <2>1, <3>2, <4>5, VivaWrites
        <5> QED
          BY <1>2, <1>3, <1>4, <3>2, <5>1 DEF VivaWritten
      <4>6. CASE WriteRatifyViva(r)
        <5>1. VivaWritten(d, "GUIDE_RATIFIED", viva[d].consent, viva[d].video, viva[d].answers, viva[d].judged, TRUE)
          BY <1>1, <2>1, <3>2, <4>6, VivaWrites
        <5> QED
          BY <1>2, <1>3, <1>4, <3>2, <5>1 DEF VivaWritten, VivaJudged
      <4> QED
        BY <2>7, <4>1, <4>2, <4>3, <4>4, <4>5, <4>6
    <3>3. ASSUME d \notin Vivas PROVE viva' = viva
      BY <1>1, <2>1, <2>7, <3>3, NoVivaWritten
    <3> QED
      BY <1>1, <3>1, <3>2, <3>3 DEF VivaShape
  <2> QED
    BY <1>5, <2>5, <2>6, <2>7 DEF VivaRequest
<1>6. ASSUME NEW w \in Workers, VivaTask(w), UNCHANGED <<req, raced>>
      PROVE  VivaShape(W)'
  <2>1. PICK d, j \in W : d = exec[w].to /\ j = exec[w].mem
    BY <1>1 DEF BackendShape
  <2>2. \/ \E m \in Slots, t \in W, p \in W, x \in W : Take(w, m, t, p, x)
        \/ Finish(w)
        \/ Retry(w)
    <3>1. \A m \in Slots : viva[msg[m].to].answers \in W
      BY DEF VivaWords
    <3> QED
      BY <1>2, <1>6, <3>1 DEF VivaTask, StartProcessing, CommitProcessing, FailProcessing
  <2>3. BackendShape(W, Vivas)'
    BY <1>1, <1>2, <1>6, <2>2, TaskShape
  <2>4. ASSUME NEW m \in Slots, StartProcessing(w, m) PROVE viva' \in [Vivas -> VivaRow(W)]
    <3>1. PICK v : v = msg[m].to
      OBVIOUS
    <3>2. v \notin Vivas => viva' = viva
      BY <1>1, <2>4, <3>1, NoVivaProcessed
    <3>3. ASSUME v \in Vivas, viva' # viva PROVE viva' \in [Vivas -> VivaRow(W)]
      <4>1. VivaWritten(v, "ASR_PROCESSING", viva[v].consent, viva[v].video, viva[v].answers, viva[v].judged, viva[v].guide)
        BY <1>1, <2>4, <3>1, <3>3, VivaTaskWrites
      <4> QED
        BY <1>2, <1>3, <1>4, <3>3, <4>1 DEF VivaWritten
    <3> QED
      BY <1>1, <3>2, <3>3
  <2>5. ASSUME CommitProcessing(w) \/ FailProcessing(w) PROVE viva' \in [Vivas -> VivaRow(W)]
    <3>1. d \notin Vivas => viva' = viva
      BY <1>1, <2>1, <2>5, NoVivaProcessed
    <3>2. ASSUME d \in Vivas, CommitProcessing(w) PROVE viva' \in [Vivas -> VivaRow(W)]
      <4>1. VivaWritten(d, "EVALUATED", viva[d].consent, viva[d].video, viva[d].answers, exec[w].mem, viva[d].guide)
        BY <1>1, <2>1, <3>2, VivaTaskWrites
      <4> QED
        BY <1>2, <1>3, <1>4, <2>1, <3>2, <4>1 DEF VivaWritten, VivaJudged
    <3>3. ASSUME d \in Vivas, FailProcessing(w), viva' # viva PROVE viva' \in [Vivas -> VivaRow(W)]
      <4>1. VivaWritten(d, "COMPLETED", viva[d].consent, viva[d].video, viva[d].answers, viva[d].judged, viva[d].guide)
        BY <1>1, <2>1, <3>3, VivaTaskWrites
      <4> QED
        BY <1>2, <1>3, <1>4, <3>3, <4>1 DEF VivaWritten
    <3> QED
      BY <1>1, <2>5, <3>1, <3>2, <3>3
  <2> QED
    BY <1>6, <2>3, <2>4, <2>5 DEF VivaTask, VivaShape
<1>7. ASSUME Environment, UNCHANGED <<viva, reopened>>
      PROVE  VivaShape(W)'
  BY <1>1, <1>2, <1>7, EnvironmentShape DEF VivaShape
<1> QED
  BY <1>5, <1>6, <1>7 DEF VivaNext

\* Consent is never withdrawn, and a judgement never dropped.
VivaKept(v) ==
    /\ viva[v].consent => viva'[v].consent
    /\ viva[v].judged # None => viva'[v].judged # None

VivaRowsKeep == \A v \in Vivas : VivaKept(v) /\ VivaRowSound(v)'

\* It is enough to look at the row that is written.
LEMMA VivaRowsRest ==
    ASSUME VivaSound, NEW v, \A t \in Vivas \ {v} : viva'[t] = viva[t],
           v \in Vivas => VivaKept(v) /\ VivaRowSound(v)'
    PROVE  VivaRowsKeep
BY DEF VivaSound, VivaRowsKeep, VivaKept, VivaRowSound

\* What a step does not begin stays sound.
LEMMA VivaSoundRest ==
    ASSUME VivaSound, VivaRowsKeep,
           \A q \in Reqs : req'[q] = req[q] \/ req'[q] = NoReq \/ VivaReqSound(q)',
           \A n \in Slots : \/ msg'[n].to = msg[n].to
                            \/ msg'[n] = NoMsg
                            \/ \E q \in Reqs : req[q].op = "publish" /\ msg'[n].to = req[q].on,
           \A u \in Workers : exec'[u] = exec[u] \/ exec'[u] = Idle \/ VivaExecSound(u)'
    PROVE  VivaSound'
<1>1. \A q \in Reqs : VivaReqSound(q)'
  BY VivaNames DEF VivaSound, VivaRowsKeep, VivaKept, VivaReqSound, NoReq
<1>2. \A n \in Slots : VivaMsgSound(n)'
  BY VivaNames DEF VivaSound, VivaRowsKeep, VivaKept, VivaReqSound, VivaMsgSound, NoMsg
<1>3. \A u \in Workers : VivaExecSound(u)'
  BY VivaNames DEF VivaSound, VivaRowsKeep, VivaKept, VivaExecSound, Idle
<1> QED
  BY <1>1, <1>2, <1>3 DEF VivaSound, VivaRowsKeep

\* A request begins with a check.
LEMMA VivaChecks ==
    ASSUME NEW r,
           \/ Schedule(r)
           \/ \E v \in Vivas : RecordConsent(r, v) \/ SubmitResponse(r, v) \/ Complete(r, v)
                                \/ Conduct(r, v) \/ RatifyViva(r, v)
    PROVE  \E o \in VivaOps \ {"queue_viva"}, d \in Vivas \cup {None} :
               /\ Begin(r, o, d, None) /\ UNCHANGED <<viva, reopened>>
               /\ VivaStands(o, viva[d]) /\ (o = "complete" => viva[d].consent)
<1>1. CASE Schedule(r)
  BY <1>1 DEF Schedule, Checked, VivaOps, VivaStands
<1>2. CASE \E v \in Vivas : RecordConsent(r, v) \/ SubmitResponse(r, v) \/ Complete(r, v)
                                \/ Conduct(r, v) \/ RatifyViva(r, v)
  BY <1>2 DEF RecordConsent, SubmitResponse, Complete, Conduct, RatifyViva, Checked, VivaOps, VivaStands
<1> QED
  BY <1>1, <1>2

\* A write of a request keeps the rows sound,
LEMMA VivaWriteSound ==
    ASSUME NEW V, VivaShape(V), VivaSound, NEW r \in Reqs,
           \/ WriteSchedule(r) \/ WriteConsent(r) \/ WriteResponse(r) \/ WriteComplete(r)
           \/ WriteConduct(r) \/ WriteQueued(r) \/ WriteRatifyViva(r)
    PROVE  VivaRowsKeep
<1>1. PICK d \in Vivas \cup {None} : d = req[r].on
  BY DEF VivaShape, BackendShape
<1>2. CASE WriteSchedule(r)
  <2>1. PICK v \in FreshViva : VivaWritten(v, "SCHEDULED", viva[v].consent, viva[v].video, viva[v].answers, viva[v].judged, viva[v].guide)
    BY <1>2, ScheduleWrites
  <2>2. v \in Vivas /\ VivaRowSound(v)
    BY DEF FreshViva, VivaSound
  <2> QED
    BY <2>1, <2>2, VivaRowsRest DEF VivaWritten, VivaRowSound, VivaKept, VivaJudged
<1>3. CASE d = None /\ ~WriteSchedule(r)
  <2>1. viva' = viva
    BY <1>1, <1>3, VivaNames, NoVivaWritten
  <2> QED
    BY <2>1 DEF VivaSound, VivaRowsKeep, VivaKept, VivaRowSound
<1>4. ASSUME d \in Vivas, ~WriteSchedule(r) PROVE VivaRowsKeep
  <2>1. VivaRowSound(d) /\ VivaReqSound(r)
    BY <1>4 DEF VivaSound
  <2>2. CASE WriteConsent(r)
    <3>1. VivaWritten(d, "IN_PROGRESS", TRUE, viva[d].video, viva[d].answers, viva[d].judged, viva[d].guide)
      BY <1>1, <1>4, <2>2, VivaWrites
    <3> QED
      BY <2>1, <3>1, VivaRowsRest DEF VivaWritten, VivaRowSound, VivaKept, VivaJudged
  <2>3. CASE WriteResponse(r)
    <3>1. PICK q \in Questions : VivaWritten(d, viva[d].status, viva[d].consent, viva[d].video, viva[d].answers \cup {q}, viva[d].judged, viva[d].guide)
      BY <1>1, <1>4, <2>3, VivaWrites
    <3> QED
      BY <2>1, <3>1, VivaRowsRest DEF VivaWritten, VivaRowSound, VivaKept
  <2>4. CASE WriteComplete(r)
    <3>1. VivaWritten(d, "COMPLETED", viva[d].consent, TRUE, viva[d].answers, viva[d].judged, viva[d].guide)
      BY <1>1, <1>4, <2>4, VivaWrites
    <3>2. viva[d].consent
      BY <1>1, <1>4, <2>1, <2>4 DEF WriteComplete, VivaReqSound
    <3> QED
      BY <2>1, <3>1, <3>2, VivaRowsRest DEF VivaWritten, VivaRowSound, VivaKept, VivaJudged
  <2>5. CASE WriteConduct(r)
    <3>1. PICK a \in Answers : VivaWritten(d, "COMPLETED", TRUE, FALSE, a, viva[d].judged, viva[d].guide)
      BY <1>1, <1>4, <2>5, VivaWrites
    <3> QED
      BY <2>1, <3>1, VivaRowsRest DEF VivaWritten, VivaRowSound, VivaKept, VivaJudged
  <2>6. CASE WriteQueued(r)
    <3>1. VivaWritten(d, "ASR_PROCESSING", viva[d].consent, viva[d].video, viva[d].answers, viva[d].judged, viva[d].guide)
      BY <1>1, <1>4, <2>6, VivaWrites
    <3> QED
      BY <2>1, <3>1, VivaRowsRest DEF VivaWritten, VivaRowSound, VivaKept, VivaJudged
  <2>7. CASE WriteRatifyViva(r)
    <3>1. VivaWritten(d, "GUIDE_RATIFIED", viva[d].consent, viva[d].video, viva[d].answers, viva[d].judged, TRUE)
      BY <1>1, <1>4, <2>7, VivaWrites
    <3>2. viva[d].judged # None
      BY <1>1, <1>4, <2>1, <2>7 DEF WriteRatifyViva, VivaReqSound
    <3> QED
      BY <2>1, <3>1, <3>2, VivaRowsRest DEF VivaWritten, VivaRowSound, VivaKept
  <2> QED
    BY <1>4, <2>2, <2>3, <2>4, <2>5, <2>6, <2>7
<1> QED
  BY <1>2, <1>3, <1>4

\* a request has what it needs, whatever overlaps,
LEMMA VivaRequestSound ==
    ASSUME NEW V, VivaShape(V), VivaSound, NEW r \in Reqs, VivaRequest(r), UNCHANGED queue
    PROVE  VivaSound'
<1>1. BackendShape(V, Vivas) /\ UNCHANGED <<msg, exec>>
  BY DEF VivaShape, queue
<1>2. ASSUME VivaRowsKeep, VivaReqSound(r)', \A q \in Reqs \ {r} : req'[q] = req[q]
      PROVE  VivaSound'
  BY <1>1, <1>2, VivaSoundRest
<1>3. ASSUME NEW o \in VivaOps \ {"queue_viva"}, NEW d \in Vivas \cup {None},
             Begin(r, o, d, None), UNCHANGED viva,
             VivaStands(o, viva[d]) /\ (o = "complete" => viva[d].consent)
      PROVE  VivaSound'
  <2>1. VivaRowsKeep
    BY <1>3 DEF VivaSound, VivaRowsKeep, VivaKept, VivaRowSound
  <2>2. /\ req'[r].op = o /\ req'[r].on = d
        /\ \A q \in Reqs \ {r} : req'[q] = req[q]
    BY <1>1, <1>3, BeginRow
  <2>3. d \in Vivas /\ o = "ratify_viva" => viva[d].judged # None
    BY <1>3 DEF VivaStands, VivaSound, VivaRowSound, VivaJudged
  <2>4. o # "publish"
    BY <1>3 DEF VivaOps
  <2>5. VivaReqSound(r)'
    BY <1>3, <2>2, <2>3, <2>4 DEF VivaReqSound
  <2> QED
    BY <1>2, <2>1, <2>2, <2>5
<1>4. CASE WriteSchedule(r) \/ WriteConsent(r) \/ WriteResponse(r) \/ WriteRatifyViva(r)
  <2>1. End(r)
    BY <1>4 DEF WriteSchedule, WriteConsent, WriteResponse, WriteRatifyViva
  <2>2. req'[r] = NoReq /\ \A q \in Reqs \ {r} : req'[q] = req[q]
    BY <1>1, <2>1 DEF End, BackendShape
  <2>3. VivaReqSound(r)'
    BY <2>2, VivaNames DEF VivaReqSound, NoReq
  <2> QED
    BY <1>2, <1>4, <2>2, <2>3, VivaWriteSound
<1>5. CASE WriteComplete(r) \/ WriteConduct(r) \/ WriteQueued(r)
  <2>1. PICK d \in Vivas \cup {None} : d = req[r].on
    BY <1>1 DEF BackendShape
  <2>2. /\ req'[r].on = d /\ req'[r].op \in {"queue_viva", "publish"}
        /\ \A q \in Reqs \ {r} : req'[q] = req[q]
    <3>1. CASE WriteComplete(r) \/ WriteConduct(r)
      <4>1. req' = [req EXCEPT ![r].op = "queue_viva"]
        BY <3>1 DEF WriteComplete, WriteConduct, QueueProcessing
      <4> QED
        BY <1>1, <2>1, <4>1 DEF BackendShape
    <3>2. CASE WriteQueued(r)
      BY <1>1, <2>1, <3>2 DEF WriteQueued, EndPublishing, BackendShape, NoReq
    <3> QED
      BY <1>5, <3>1, <3>2
  <2>3. VivaRowsKeep
    BY <1>5, VivaWriteSound
  <2>4. d \in Vivas => viva'[d].consent
    <3>1. ASSUME d \in Vivas, WriteConduct(r) PROVE viva'[d].consent
      BY <2>1, <3>1, VivaWrites DEF VivaWritten
    <3>2. ASSUME d \in Vivas, WriteComplete(r) \/ WriteQueued(r) PROVE viva[d].consent
      BY <2>1, <3>2 DEF VivaSound, VivaReqSound, WriteComplete, WriteQueued
    <3> QED
      BY <1>5, <2>3, <3>1, <3>2 DEF VivaRowsKeep, VivaKept
  <2>5. VivaReqSound(r)'
    BY <2>2, <2>4 DEF VivaReqSound
  <2> QED
    BY <1>2, <2>2, <2>3, <2>5
<1> QED
  BY <1>3, <1>4, <1>5, VivaChecks DEF VivaRequest

\* and a task judges with consent.
LEMMA VivaTaskSound ==
    ASSUME NEW V, VivaShape(V), VivaSound, NEW w \in Workers, VivaTask(w), UNCHANGED <<req, raced>>
    PROVE  VivaSound'
<1>1. BackendShape(V, Vivas) /\ viva \in [Vivas -> VivaRow(V)]
  BY DEF VivaShape
<1>2. ASSUME UNCHANGED viva PROVE VivaRowsKeep
  BY <1>2 DEF VivaSound, VivaRowsKeep, VivaKept, VivaRowSound
<1>3. ASSUME NEW m \in Slots, StartProcessing(w, m) PROVE VivaSound'
  <2>1. PICK v, a : /\ v = msg[m].to /\ a = viva[v].answers
                    /\ Take(w, m, "process_viva_session", "running", a)
    BY <1>3 DEF StartProcessing
  <2>2. /\ exec'[w].to = v /\ exec'[w].mem = a
        /\ \A u \in Workers \ {w} : exec'[u] = exec[u]
        /\ \A n \in Slots : msg'[n].to = msg[n].to
    BY <1>1, <2>1, TakeRow
  <2>3. VivaRowsKeep
    <3>1. CASE v \notin Vivas
      BY <1>2, <1>3, <2>1, <3>1, NoVivaProcessed
    <3>2. ASSUME v \in Vivas, viva' # viva PROVE VivaRowsKeep
      <4>1. VivaWritten(v, "ASR_PROCESSING", viva[v].consent, viva[v].video, viva[v].answers, viva[v].judged, viva[v].guide)
        BY <1>3, <2>1, <3>2, VivaTaskWrites
      <4>2. VivaRowSound(v)
        BY <3>2 DEF VivaSound
      <4> QED
        BY <4>1, <4>2, VivaRowsRest DEF VivaWritten, VivaRowSound, VivaKept, VivaJudged
    <3> QED
      BY <1>2, <3>1, <3>2
  <2>4. v \in Vivas => viva'[v].consent /\ a # None
    <3>1. v \in Vivas => viva[v].consent
      BY <2>1 DEF VivaSound, VivaMsgSound
    <3>2. v \in Vivas => a \in Answers
      BY <1>1, <2>1 DEF VivaRow, Answers
    <3> QED
      BY <2>3, <3>1, <3>2, VivaNames DEF VivaRowsKeep, VivaKept
  <2>5. VivaExecSound(w)'
    BY <2>2, <2>4 DEF VivaExecSound
  <2> QED
    BY <2>2, <2>3, <2>5, VivaSoundRest
<1>4. ASSUME CommitProcessing(w) \/ FailProcessing(w) PROVE VivaSound'
  <2>1. PICK d : d = exec[w].to
    OBVIOUS
  <2>2. Finish(w) \/ Retry(w)
    BY <1>4 DEF CommitProcessing, FailProcessing
  <2>3. /\ exec'[w] = Idle
        /\ \A u \in Workers \ {w} : exec'[u] = exec[u]
        /\ \A n \in Slots : msg'[n].to = msg[n].to \/ msg'[n] = NoMsg
    BY <1>1, <2>2, TaskEndRow
  <2>4. VivaRowsKeep
    <3>1. CASE d \notin Vivas
      BY <1>2, <1>4, <2>1, <3>1, NoVivaProcessed
    <3>2. ASSUME d \in Vivas, CommitProcessing(w) PROVE VivaRowsKeep
      <4>1. VivaWritten(d, "EVALUATED", viva[d].consent, viva[d].video, viva[d].answers, exec[w].mem, viva[d].guide)
        BY <2>1, <3>2, VivaTaskWrites
      <4>2. VivaRowSound(d) /\ viva[d].consent /\ exec[w].mem # None
        BY <2>1, <3>2 DEF VivaSound, VivaExecSound
      <4> QED
        BY <4>1, <4>2, VivaRowsRest DEF VivaWritten, VivaRowSound, VivaKept
    <3>3. ASSUME d \in Vivas, FailProcessing(w), viva' # viva PROVE VivaRowsKeep
      <4>1. VivaWritten(d, "COMPLETED", viva[d].consent, viva[d].video, viva[d].answers, viva[d].judged, viva[d].guide)
        BY <2>1, <3>3, VivaTaskWrites
      <4>2. VivaRowSound(d)
        BY <3>3 DEF VivaSound
      <4> QED
        BY <4>1, <4>2, VivaRowsRest DEF VivaWritten, VivaRowSound, VivaKept, VivaJudged
    <3> QED
      BY <1>2, <1>4, <3>1, <3>2, <3>3
  <2> QED
    BY <2>3, <2>4, VivaSoundRest
<1> QED
  BY <1>3, <1>4 DEF VivaTask

\* Whatever overlaps, a step keeps what is sound.
LEMMA VivaSoundKeeps ==
    ASSUME NEW V, VivaShape(V), VivaSound, VivaNext
    PROVE  VivaSound'
<1>1. ASSUME Environment, UNCHANGED viva PROVE VivaSound'
  <2>1. BackendShape(V, Vivas)
    BY DEF VivaShape
  <2>2. VivaRowsKeep
    BY <1>1 DEF VivaSound, VivaRowsKeep, VivaKept, VivaRowSound
  <2>3. /\ \A q \in Reqs : req'[q] = req[q] \/ req'[q] = NoReq
        /\ \A u \in Workers : exec'[u] = exec[u] \/ exec'[u] = Idle
        /\ \A n \in Slots : \/ msg'[n].to = msg[n].to
                            \/ msg'[n] = NoMsg
                            \/ \E q \in Reqs : req[q].op = "publish" /\ msg'[n].to = req[q].on
    BY <1>1, <2>1, EnvironmentRow
  <2> QED
    BY <2>2, <2>3, VivaSoundRest
<1> QED
  BY <1>1, VivaRequestSound, VivaTaskSound DEF VivaNext

\* Requests keep what their checks found, and what a worker has read: the answers
\* of a session change while it is open, or when it is conducted.
LEMMA VivaRequestKeeps ==
    ASSUME NEW V, VivaShape(V), VivaHolds, NEW r \in Reqs, VivaRequest(r), UNCHANGED queue, ~raced'
    PROVE  VivaHolds'
<1>1. /\ viva \in [Vivas -> VivaRow(V)] /\ BackendShape(V, Vivas) /\ None \notin Vivas
      /\ UNCHANGED <<msg, exec, again>>
  BY VivaNames DEF VivaShape, queue
<1>2. reopened \subseteq reopened'
  <2>1. ASSUME Schedule(r) \/ \E v \in Vivas : RecordConsent(r, v) \/ SubmitResponse(r, v) \/ Complete(r, v)
                                               \/ Conduct(r, v) \/ RatifyViva(r, v)
        PROVE  reopened' = reopened
    BY <2>1, VivaChecks
  <2> QED
    BY <2>1
    DEF VivaRequest, WriteSchedule, WriteConsent, WriteResponse, WriteComplete, WriteConduct, WriteQueued,
        WriteRatifyViva, Reopen
<1>3. PICK E : E = Vivas \ reopened'
  OBVIOUS
<1>4. Owned(E) /\ E \subseteq Vivas /\ None \notin E /\ \A v \in E \ again : VivaGood(v)
  <2>1. PICK D : D = Vivas \ reopened
    OBVIOUS
  <2>2. E \subseteq D /\ Owned(D)
    BY <1>2, <1>3, <2>1 DEF VivaHolds
  <2>3. Owned(E)
    BY <2>2, OwnedShrinks
  <2> QED
    BY <1>1, <1>2, <1>3, <2>3 DEF VivaHolds
<1>5. ASSUME Owned(E)', \A v \in E \ again : VivaGood(v)'
      PROVE  VivaHolds'
  BY <1>1, <1>3, <1>5 DEF VivaHolds, Owned, Single, Held
<1>6. ASSUME NEW v \in E \ again, viva'[v] = viva[v], Busy(v)' => Busy(v),
             \A q \in Reqs : req'[q].on = v => ~Active(q)' \/ VivaStands(req'[q].op, viva[v])
      PROVE  VivaGood(v)'
  BY <1>1, <1>4, <1>6, VivaNames DEF VivaGood, VivaStands, Active, VivaOps
\* No session is processed but one whose status says so.
<1>7. ASSUME NEW v \in E \ again, viva[v].status # "ASR_PROCESSING"
      PROVE  ~Busy(v) /\ \A w \in Workers : exec[w].to # v
  BY <1>1, <1>4, <1>7 DEF VivaGood, Owned, Held, Busy, Queued
<1>8. ASSUME NEW d, \A t \in Vivas \ {d} : viva'[t] = viva[t],
             Owned(E)', \A t \in E : Busy(t)' => Busy(t) \/ t = d,
             \A q \in Reqs : ~Active(q)' \/ req'[q].on = d,
             d \in E \ again =>
                /\ viva[d].status # "ASR_PROCESSING"
                /\ \A q \in Reqs : ~Active(q)' \/ VivaStands(req'[q].op, viva'[d])
                /\ Busy(d)' => viva'[d].status = "ASR_PROCESSING"
                /\ viva'[d].status \in VivaJudged => viva'[d].judged = viva'[d].answers
      PROVE  VivaHolds'
  <2>1. ASSUME NEW v \in E \ again, v # d PROVE VivaGood(v)'
    BY <1>4, <1>6, <1>8, <2>1
  <2>2. ASSUME d \in E \ again PROVE VivaGood(d)'
    BY <1>1, <1>7, <1>8, <2>2, VivaNames DEF VivaGood, VivaStands, Active, VivaOps
  <2> QED
    BY <1>5, <1>8, <2>1, <2>2
<1>9. ASSUME NEW o \in VivaOps, NEW d \in Vivas \cup {None}, Begin(r, o, d, None), UNCHANGED viva,
             VivaStands(o, viva[d])
      PROVE  VivaHolds'
  <2>1. o \notin {None, "publish"}
    BY <1>9, VivaNames DEF VivaOps
  <2>2. /\ Quiet(E) /\ req'[r].op = o /\ req'[r].on = d
        /\ \A s \in Reqs : Active(s)' => s = r
    BY <1>1, <1>4, <1>9, <2>1, BeginOwned
  <2>3. ASSUME NEW v \in E \ again PROVE VivaGood(v)'
    BY <1>6, <1>9, <2>2 DEF Quiet
  <2> QED
    BY <1>5, <2>2, <2>3 DEF Quiet
<1>10. PICK d \in Vivas \cup {None} : d = req[r].on
  BY <1>1 DEF BackendShape
<1>11. CASE WriteSchedule(r)
  <2>1. PICK v \in FreshViva : VivaWritten(v, "SCHEDULED", viva[v].consent, viva[v].video, viva[v].answers, viva[v].judged, viva[v].guide)
    BY <1>11, ScheduleWrites
  <2>2. End(r) /\ Active(r) /\ viva[v].status = "NONE"
    BY <1>11, VivaNames DEF FreshViva, WriteSchedule, Active, VivaOps
  <2>3. Quiet(E) /\ \A q \in Reqs : ~Active(q)'
    BY <1>1, <1>4, <2>2, EndOwned
  <2>4. v \in E \ again => ~Busy(v)'
    BY <1>7, <2>2, <2>3 DEF Quiet
  <2> QED
    BY <1>8, <2>1, <2>2, <2>3, <2>4 DEF Quiet, VivaWritten, VivaJudged
\* What the check found still holds, or the session is reopened.
<1>12. ASSUME d \in E \ again PROVE VivaStands(req[r].op, viva[d])
  BY <1>4, <1>10, <1>12 DEF VivaGood
<1>13. CASE WriteConsent(r) \/ WriteResponse(r) \/ WriteRatifyViva(r)
  <2>1. End(r) /\ Active(r)
    BY <1>13, VivaNames DEF WriteConsent, WriteResponse, WriteRatifyViva, Active, VivaOps
  <2>2. Quiet(E) /\ \A q \in Reqs : ~Active(q)'
    BY <1>1, <1>4, <2>1, EndOwned
  <2>3. d \in E \ again => viva[d].status # "ASR_PROCESSING"
    BY <1>3, <1>10, <1>12, <1>13 DEF WriteConsent, WriteResponse, WriteRatifyViva, Reopen, VivaStands
  <2>4. d \in E \ again => ~Busy(d)'
    BY <1>7, <2>2, <2>3 DEF Quiet
  <2>5. ASSUME \A t \in Vivas \ {d} : viva'[t] = viva[t],
               d \in E \ again /\ viva'[d].status \in VivaJudged => viva'[d].judged = viva'[d].answers
        PROVE  VivaHolds'
    BY <1>8, <2>2, <2>3, <2>4, <2>5 DEF Quiet
  <2>6. CASE d \notin Vivas
    <3>1. viva' = viva
      BY <1>10, <1>13, <2>6, NoVivaWritten
    <3> QED
      BY <1>4, <2>5, <2>6, <3>1
  <2>7. ASSUME d \in Vivas, WriteConsent(r) PROVE VivaHolds'
    <3>1. VivaWritten(d, "IN_PROGRESS", TRUE, viva[d].video, viva[d].answers, viva[d].judged, viva[d].guide)
      BY <1>10, <2>7, VivaWrites
    <3> QED
      BY <2>5, <3>1 DEF VivaWritten, VivaJudged
  <2>8. ASSUME d \in Vivas, WriteResponse(r) PROVE VivaHolds'
    <3>1. PICK q \in Questions : VivaWritten(d, viva[d].status, viva[d].consent, viva[d].video, viva[d].answers \cup {q}, viva[d].judged, viva[d].guide)
      BY <1>10, <2>8, VivaWrites
    <3>2. d \in E \ again => viva[d].status \notin VivaJudged
      BY <1>12, <2>8 DEF WriteResponse, VivaStands, VivaJudged
    <3> QED
      BY <2>5, <3>1, <3>2 DEF VivaWritten
  <2>9. ASSUME d \in Vivas, WriteRatifyViva(r) PROVE VivaHolds'
    <3>1. VivaWritten(d, "GUIDE_RATIFIED", viva[d].consent, viva[d].video, viva[d].answers, viva[d].judged, TRUE)
      BY <1>10, <2>9, VivaWrites
    <3>2. d \in E \ again => viva[d].judged = viva[d].answers
      BY <1>4, <1>12, <2>9 DEF WriteRatifyViva, VivaStands, VivaJudged, VivaGood
    <3> QED
      BY <2>5, <3>1, <3>2 DEF VivaWritten
  <2> QED
    BY <1>10, <1>13, <2>6, <2>7, <2>8, <2>9
<1>14. CASE WriteComplete(r) \/ WriteConduct(r)
  <2>1. Active(r) /\ req' = [req EXCEPT ![r].op = "queue_viva"]
    BY <1>14, VivaNames DEF WriteComplete, WriteConduct, QueueProcessing, Active, VivaOps
  <2>2. /\ req'[r].op = "queue_viva" /\ req'[r].on = d
        /\ \A q \in Reqs \ {r} : req'[q] = req[q]
    BY <1>1, <1>10, <2>1 DEF BackendShape
  <2>3. Quiet(E) /\ \A s \in Reqs : Active(s)' => s = r
    <3>1. req'[r].op \notin {None, "publish"}
      BY <2>2, VivaNames DEF VivaOps
    <3> QED
      BY <1>1, <1>4, <2>1, <2>2, <3>1, ContinueOwned
  <2>4. d \in E \ again => viva[d].status # "ASR_PROCESSING"
    BY <1>3, <1>10, <1>12, <1>14 DEF WriteComplete, WriteConduct, Reopen, VivaStands
  <2>5. d \in E \ again => ~Busy(d)'
    BY <1>7, <2>3, <2>4 DEF Quiet
  <2>6. ASSUME \A t \in Vivas \ {d} : viva'[t] = viva[t],
               d \in E \ again => viva'[d].status = "COMPLETED"
        PROVE  VivaHolds'
    <3>1. d \in E \ again => VivaStands("queue_viva", viva'[d]) /\ viva'[d].status \notin VivaJudged
      BY <2>6 DEF VivaStands, VivaJudged
    <3> QED
      BY <1>8, <2>2, <2>3, <2>4, <2>5, <2>6, <3>1 DEF Quiet
  <2>7. CASE d \notin Vivas
    <3>1. viva' = viva
      BY <1>10, <1>14, <2>7, NoVivaWritten
    <3> QED
      BY <1>4, <2>6, <2>7, <3>1
  <2>8. ASSUME d \in Vivas, WriteComplete(r) PROVE VivaHolds'
    <3>1. VivaWritten(d, "COMPLETED", viva[d].consent, TRUE, viva[d].answers, viva[d].judged, viva[d].guide)
      BY <1>10, <2>8, VivaWrites
    <3> QED
      BY <2>6, <3>1 DEF VivaWritten
  <2>9. ASSUME d \in Vivas, WriteConduct(r) PROVE VivaHolds'
    <3>1. PICK a \in Answers : VivaWritten(d, "COMPLETED", TRUE, FALSE, a, viva[d].judged, viva[d].guide)
      BY <1>10, <2>9, VivaWrites
    <3> QED
      BY <2>6, <3>1 DEF VivaWritten
  <2> QED
    BY <1>14, <2>7, <2>8, <2>9
<1>15. CASE WriteQueued(r)
  <2>1. /\ Active(r) /\ EndPublishing(r, d, "process_viva_session")
        /\ d \in E \ again => viva[d].status = "COMPLETED"
    BY <1>10, <1>12, <1>15, VivaNames DEF WriteQueued, Active, VivaOps, VivaStands
  <2>2. d \in E \ again => ~Busy(d)
    BY <1>7, <2>1
  <2>3. /\ Owned(E)' /\ (\A s \in Reqs : ~Active(s)')
        /\ \A e \in E : Busy(e)' => Busy(e) \/ e = d
    BY <1>1, <1>4, <2>1, <2>2, PublishingOwned
  <2>4. CASE d \notin Vivas
    <3>1. viva' = viva
      BY <1>10, <1>15, <2>4, NoVivaWritten
    <3> QED
      BY <1>4, <1>8, <2>3, <2>4, <3>1
  <2>5. ASSUME d \in Vivas PROVE VivaHolds'
    <3>1. VivaWritten(d, "ASR_PROCESSING", viva[d].consent, viva[d].video, viva[d].answers, viva[d].judged, viva[d].guide)
      BY <1>10, <1>15, <2>5, VivaWrites
    <3>2. /\ viva'[d].status = "ASR_PROCESSING" /\ viva'[d].status \notin VivaJudged
          /\ \A t \in Vivas \ {d} : viva'[t] = viva[t]
      BY <3>1 DEF VivaWritten, VivaJudged
    <3> QED
      BY <1>8, <2>1, <2>3, <3>2
  <2> QED
    BY <2>4, <2>5
<1> QED
  BY <1>9, <1>11, <1>13, <1>14, <1>15, VivaChecks DEF VivaRequest

\* A worker judges the answers it has read of a session that is being processed,
LEMMA VivaTaskKeeps ==
    ASSUME NEW V, VivaShape(V), VivaHolds, NEW w \in Workers, VivaTask(w), UNCHANGED <<req, raced>>
    PROVE  VivaHolds'
<1>1. /\ viva \in [Vivas -> VivaRow(V)] /\ BackendShape(V, Vivas) /\ None \notin Vivas
      /\ UNCHANGED <<req, reopened>>
  BY VivaNames DEF VivaShape, VivaTask, StartProcessing, CommitProcessing, FailProcessing
<1>2. PICK E : E = Vivas \ reopened
  OBVIOUS
<1>3. /\ Owned(E) /\ E \subseteq Vivas /\ None \notin E /\ \A v \in E \ again : VivaGood(v)
      /\ E = Vivas \ reopened'
  BY <1>1, <1>2 DEF VivaHolds
<1>4. ASSUME Quiet(E), again \subseteq again', \A v \in E \ again' : VivaGood(v)'
      PROVE  VivaHolds'
  BY <1>1, <1>3, <1>4 DEF VivaHolds, Quiet, Owned, Single, Held
<1>5. ASSUME NEW v \in E, v \notin again, viva'[v].answers = viva[v].answers,
             VivaStands("queue_viva", viva[v]) \/ viva[v].status = "ASR_PROCESSING" \/ viva'[v] = viva[v],
             \/ viva'[v] = viva[v]
             \/ viva[v].status = "ASR_PROCESSING",
             Busy(v)' => Busy(v) /\ viva'[v].status = viva[v].status,
             \A u \in Workers : exec'[u].to = v => exec'[u].mem = viva[v].answers,
             viva'[v] = viva[v] \/ (viva'[v].status \in VivaJudged => viva'[v].judged = viva'[v].answers)
      PROVE  VivaGood(v)'
  <2>1. CASE viva'[v] = viva[v]
    BY <1>1, <1>3, <1>5, <2>1 DEF VivaGood
  <2>2. CASE viva[v].status = "ASR_PROCESSING"
    <3>1. \A q \in Reqs : req[q].on = v => req[q].op \notin {"respond", "conduct", "queue_viva", "ratify_viva"}
      BY <1>3, <1>5, <2>2 DEF VivaGood, VivaStands
    <3>2. \A q \in Reqs : req'[q].on = v => VivaStands(req'[q].op, viva'[v])
      BY <1>1, <3>1 DEF VivaStands
    <3>3. VivaGood(v)
      BY <1>3, <1>5
    <3> QED
      BY <1>5, <2>2, <3>2, <3>3 DEF VivaGood
  <2> QED
    BY <1>5, <2>1, <2>2
\* The others are as good as before.
<1>6. ASSUME NEW v \in E, v \notin again, viva'[v] = viva[v], Busy(v)' => Busy(v),
             \A u \in Workers : exec'[u].to = v => exec[u].to = v /\ exec'[u].mem = exec[u].mem
      PROVE  VivaGood(v)'
  <2>1. \A u \in Workers : exec'[u].to = v => exec'[u].mem = viva[v].answers
    BY <1>3, <1>6 DEF VivaGood
  <2> QED
    BY <1>5, <1>6, <2>1
<1>7. ASSUME NEW m \in Slots, StartProcessing(w, m) PROVE VivaHolds'
  <2>1. PICK v, a : /\ v = msg[m].to /\ a = viva[v].answers
                    /\ Take(w, m, "process_viva_session", "running", a)
    BY <1>7 DEF StartProcessing
  <2>2. /\ exec'[w].to = v /\ exec'[w].mem = a
        /\ \A u \in Workers \ {w} : exec'[u] = exec[u]
    BY <1>1, <2>1, TakeRow
  <2>3. Quiet(E) /\ UNCHANGED again
    BY <1>1, <1>3, <1>7, <2>1, TaskOwned DEF StartProcessing
  <2>4. /\ \A t \in Vivas \ {v} : viva'[t] = viva[t]
        /\ v \in Vivas => /\ viva'[v].answers = viva[v].answers
                          /\ viva'[v] = viva[v] \/ viva'[v].status = "ASR_PROCESSING"
    <3>1. v \notin Vivas => viva' = viva
      BY <1>7, <2>1, NoVivaProcessed
    <3>2. ASSUME v \in Vivas, viva' # viva
          PROVE  VivaWritten(v, "ASR_PROCESSING", viva[v].consent, viva[v].video, viva[v].answers, viva[v].judged, viva[v].guide)
      BY <1>7, <2>1, <3>2, VivaTaskWrites
    <3> QED
      BY <3>1, <3>2 DEF VivaWritten
  <2>5. ASSUME NEW t \in E, t \notin again, t # v PROVE VivaGood(t)'
    BY <1>3, <1>6, <2>2, <2>3, <2>4, <2>5 DEF Quiet
  <2>6. ASSUME v \in E, v \notin again PROVE VivaGood(v)'
    <3>1. Busy(v) /\ VivaGood(v)
      BY <1>3, <2>1, <2>6 DEF Busy, Queued
    <3>2. viva[v].status = "ASR_PROCESSING"
      BY <3>1 DEF VivaGood
    <3>3. \A u \in Workers : exec'[u].to = v => exec'[u].mem = viva[v].answers
      BY <2>1, <2>2, <3>1 DEF VivaGood
    <3>4. "ASR_PROCESSING" \notin VivaJudged
      BY DEF VivaJudged
    <3> QED
      BY <1>3, <1>5, <2>3, <2>4, <2>6, <3>2, <3>3, <3>4, <3>1 DEF Quiet
  <2> QED
    BY <1>4, <2>3, <2>5, <2>6
<1>8. ASSUME CommitProcessing(w) \/ FailProcessing(w) PROVE VivaHolds'
  <2>1. PICK d : d = exec[w].to
    OBVIOUS
  <2>2. Finish(w) \/ Retry(w)
    BY <1>8 DEF CommitProcessing, FailProcessing
  <2>3. /\ exec'[w] = Idle
        /\ \A u \in Workers \ {w} : exec'[u] = exec[u]
    BY <1>1, <2>2, TaskEndRow
  <2>4. /\ Quiet(E)
        /\ again \subseteq again' /\ again' \subseteq again \cup {d}
        /\ d \in E \ again' => Busy(d) /\ ~Busy(d)'
    BY <1>1, <1>3, <2>1, <2>2, TaskEndOwned
  <2>5. \A t \in E, u \in Workers : exec'[u].to = t => exec[u].to = t /\ exec'[u].mem = exec[u].mem
    BY <1>3, <2>3 DEF Idle
  <2>6. \A t \in Vivas \ {d} : viva'[t] = viva[t]
    <3>1. d \notin Vivas => viva' = viva
      BY <1>8, <2>1, NoVivaProcessed
    <3>2. ASSUME d \in Vivas, CommitProcessing(w) PROVE \A t \in Vivas \ {d} : viva'[t] = viva[t]
      <4>1. VivaWritten(d, "EVALUATED", viva[d].consent, viva[d].video, viva[d].answers, exec[w].mem, viva[d].guide)
        BY <2>1, <3>2, VivaTaskWrites
      <4> QED
        BY <4>1 DEF VivaWritten
    <3>3. ASSUME d \in Vivas, FailProcessing(w), viva' # viva PROVE \A t \in Vivas \ {d} : viva'[t] = viva[t]
      <4>1. VivaWritten(d, "COMPLETED", viva[d].consent, viva[d].video, viva[d].answers, viva[d].judged, viva[d].guide)
        BY <2>1, <3>3, VivaTaskWrites
      <4> QED
        BY <4>1 DEF VivaWritten
    <3> QED
      BY <1>8, <3>1, <3>2, <3>3
  <2>7. ASSUME NEW t \in E, t \notin again, t # d PROVE VivaGood(t)'
    BY <1>3, <1>6, <2>4, <2>5, <2>6, <2>7 DEF Quiet
  <2>8. ASSUME d \in E \ again' PROVE VivaGood(d)'
    <3>1. VivaGood(d) /\ Busy(d) /\ ~Busy(d)' /\ d \notin again
      BY <1>3, <2>4, <2>8
    <3>2. viva[d].status = "ASR_PROCESSING" /\ exec[w].mem = viva[d].answers
      BY <2>1, <3>1 DEF VivaGood
    <3>3. \A u \in Workers : exec'[u].to = d => exec'[u].mem = viva[d].answers
      BY <2>5, <2>8, <3>1 DEF VivaGood
    <3>4. CASE CommitProcessing(w)
      <4>1. VivaWritten(d, "EVALUATED", viva[d].consent, viva[d].video, viva[d].answers, exec[w].mem, viva[d].guide)
        BY <1>3, <2>1, <2>8, <3>4, VivaTaskWrites
      <4>2. viva'[d].answers = viva[d].answers /\ viva'[d].judged = viva'[d].answers
        BY <3>2, <4>1 DEF VivaWritten
      <4> QED
        BY <1>5, <2>8, <3>1, <3>2, <3>3, <4>2
    <3>5. CASE FailProcessing(w) /\ viva' = viva
      BY <1>6, <2>5, <2>8, <3>1, <3>5
    <3>6. CASE FailProcessing(w) /\ viva' # viva
      <4>1. VivaWritten(d, "COMPLETED", viva[d].consent, viva[d].video, viva[d].answers, viva[d].judged, viva[d].guide)
        BY <1>3, <2>1, <2>8, <3>6, VivaTaskWrites
      <4>2. viva'[d].answers = viva[d].answers /\ viva'[d].status \notin VivaJudged
        BY <4>1 DEF VivaWritten, VivaJudged
      <4> QED
        BY <1>5, <2>8, <3>1, <3>2, <3>3, <4>2
    <3> QED
      BY <1>8, <3>4, <3>5, <3>6
  <2> QED
    BY <1>4, <2>4, <2>7, <2>8
<1> QED
  BY <1>7, <1>8 DEF VivaTask

\* and what publishes, fails or is delivered again changes neither.
LEMMA VivaEnvironmentKeeps ==
    ASSUME NEW V, VivaShape(V), VivaHolds, Environment, UNCHANGED <<viva, reopened>>
    PROVE  VivaHolds'
<1>1. BackendShape(V, Vivas) /\ None \notin Vivas
  BY VivaNames DEF VivaShape
<1>2. PICK E : E = Vivas \ reopened
  OBVIOUS
<1>3. /\ Owned(E) /\ E \subseteq Vivas /\ None \notin E /\ \A v \in E \ again : VivaGood(v)
      /\ E = Vivas \ reopened'
  BY <1>1, <1>2 DEF VivaHolds
<1>4. /\ Quiet(E) /\ again \subseteq again'
      /\ \A q \in Reqs : Active(q)' => Active(q) /\ UNCHANGED req[q]
  BY <1>1, <1>3, EnvironmentOwned
<1>5. \A u \in Workers : exec'[u] = exec[u] \/ exec'[u] = Idle
  BY <1>1, EnvironmentRow
<1>6. ASSUME NEW v \in E, v \notin again PROVE VivaGood(v)'
  <2>1. VivaGood(v) /\ (Busy(v)' => Busy(v))
    BY <1>3, <1>4, <1>6 DEF Quiet
  <2>2. \A q \in Reqs : req'[q].on = v => VivaStands(req'[q].op, viva[v])
    BY <1>4, <2>1, VivaNames DEF VivaGood, VivaStands, Active, VivaOps
  <2>3. \A u \in Workers : exec'[u].to = v => exec'[u].mem = viva[v].answers
    BY <1>3, <1>5, <1>6, <2>1 DEF VivaGood, Idle
  <2> QED
    BY <2>1, <2>2, <2>3 DEF VivaGood
<1> QED
  BY <1>3, <1>4, <1>6 DEF VivaHolds, Quiet, Owned, Single, Held

\* An overlap is remembered.
LEMMA VivaRacedStays ==
    ASSUME NEW V, VivaShape(V), VivaNext, raced
    PROVE  raced'
<1>1. ASSUME NEW r \in Reqs, VivaRequest(r) PROVE raced'
  <2>1. ASSUME NEW o, NEW d, Begin(r, o, d, None) PROVE raced'
    BY <2>1 DEF Begin, VivaShape, BackendShape
  <2>2. ASSUME End(r) \/ QueueProcessing(r) \/ \E d, t : EndPublishing(r, d, t) PROVE raced'
    BY <2>2 DEF End, QueueProcessing, EndPublishing
  <2>3. \/ \E o, d : Begin(r, o, d, None)
        \/ End(r) \/ QueueProcessing(r)
        \/ \E d, t : EndPublishing(r, d, t)
    BY <1>1, VivaChecks
    DEF VivaRequest, WriteSchedule, WriteConsent, WriteResponse, WriteComplete, WriteConduct,
        WriteQueued, WriteRatifyViva
  <2> QED
    BY <2>1, <2>2, <2>3
<1>2. ASSUME Environment PROVE raced'
  BY <1>2 DEF Environment, Publish, End, Abandon, WorkerCrash, ProcessLost, Redeliver
<1> QED
  BY <1>1, <1>2 DEF VivaNext

\* Nothing is scheduled or under way at first.
LEMMA VivaInitHolds ==
    ASSUME VivaInit
    PROVE  VivaInv
<1>1. PICK V : V = {None, 0, "none", "idle", "NONE"}
  OBVIOUS
<1>2. VivaShape(V)
  BY <1>1
  DEF VivaInit, BackendInit, NoViva, NoReq, NoMsg, Idle, VivaShape, VivaRow, BackendShape
<1>3. /\ \A r \in Reqs : req[r].op = None /\ req[r].on = None /\ ~Active(r) /\ \A d \in Vivas : ~Asking(r, d)
      /\ \A m \in Slots, d \in Vivas : ~Queued(m, d)
      /\ \A m \in Slots : msg[m].to \notin Vivas
      /\ \A w \in Workers : exec[w].to \notin Vivas
      /\ \A v \in Vivas : /\ viva[v].status = "NONE" /\ ~viva[v].video /\ viva[v].judged = None
                           /\ ~viva[v].guide
  BY VivaNames DEF VivaInit, BackendInit, NoViva, NoReq, NoMsg, Idle, Active, Asking, Queued
<1>4. \A E : E \subseteq Vivas => Owned(E)
  BY <1>3 DEF Owned, Solo, Single, Held
<1>5. Owned(Vivas \ reopened)
  BY <1>3 DEF Owned, Solo, Single, Held
<1>6. VivaSound
  BY <1>3, VivaNames DEF VivaSound, VivaRowSound, VivaReqSound, VivaMsgSound, VivaExecSound, VivaJudged
<1>7. \A v \in Vivas : VivaGood(v)
  BY <1>3, VivaNames DEF VivaGood, VivaStands, VivaJudged, VivaOps, Busy
<1> QED
  BY <1>2, <1>5, <1>6, <1>7 DEF VivaInv, VivaHolds

\* The invariant is inductive.
LEMMA VivaNextHolds ==
    ASSUME VivaInv, [VivaNext]_vivaVars
    PROVE  VivaInv'
<1>1. PICK V : VivaShape(V)
  BY DEF VivaInv
<1>2. CASE UNCHANGED vivaVars
  <2>1. UNCHANGED <<viva, reopened, req, msg, exec, again, raced>>
    BY <1>2 DEF vivaVars, backend, queue
  <2>2. VivaShape(V)'
    BY <1>1, <2>1 DEF VivaShape, BackendShape
  <2>3. VivaSound'
    BY <2>1 DEF VivaInv, VivaSound, VivaRowSound, VivaReqSound, VivaMsgSound, VivaExecSound
  <2>4. VivaHolds => VivaHolds'
    BY <2>1 DEF VivaHolds, VivaGood, Owned, Solo, Single, Held, Busy, Active, Asking, Queued
  <2> QED
    BY <2>1, <2>2, <2>3, <2>4 DEF VivaInv
<1>3. CASE VivaNext
  <2>1. PICK W : W = V \cup VivaWords
    OBVIOUS
  <2>2. VivaShape(W)'
    BY <1>1, <1>3, <2>1, VivaShapeStep
  <2>3. VivaSound'
    BY <1>1, <1>3, VivaSoundKeeps DEF VivaInv
  <2>4. ASSUME ~raced' PROVE VivaHolds'
    <3>1. VivaHolds
      BY <1>1, <1>3, <2>4, VivaRacedStays DEF VivaInv
    <3> QED
      BY <1>1, <1>3, <2>4, <3>1, VivaRequestKeeps, VivaTaskKeeps, VivaEnvironmentKeeps DEF VivaNext
  <2> QED
    BY <2>2, <2>3, <2>4 DEF VivaInv
<1> QED
  BY <1>2, <1>3

\* What the guide sees has been judged whole.
LEMMA VivaInvJudged ==
    ASSUME VivaInv
    PROVE  VivaJudgedWhole
BY DEF VivaInv, VivaSound, VivaRowSound, VivaHolds, VivaGood, VivaJudged, VivaJudgedWhole

\* What the guide sees evaluated, and ratifies, was judged on the answers the session holds,
\* for any number of sessions, unless requests overlap, the task repeats or it is reopened.
THEOREM VivaJudgedAlways == VivaSpec => []VivaJudgedWhole
BY VivaInitHolds, VivaNextHolds, VivaInvJudged, PTL DEF VivaSpec

\* A ratified session is written by nobody, unless it is reopened, repeated or overlapped.
LEMMA VivaRatifiedStays ==
    ASSUME VivaInv, [VivaNext]_vivaVars, NEW v \in Vivas, viva[v].status = "GUIDE_RATIFIED",
           ~raced, v \notin again, v \notin reopened'
    PROVE  viva'[v].status = "GUIDE_RATIFIED"
<1>1. PICK V : VivaShape(V)
  BY DEF VivaInv
<1>2. BackendShape(V, Vivas) /\ VivaHolds
  BY <1>1 DEF VivaShape, VivaInv
<1>3. CASE UNCHANGED viva
  BY <1>3
<1>4. ASSUME NEW r \in Reqs, VivaRequest(r), viva' # viva
      PROVE  viva'[v].status = "GUIDE_RATIFIED"
  <2>1. reopened \subseteq reopened'
    BY <1>4, VivaChecks
    DEF VivaRequest, WriteSchedule, WriteConsent, WriteResponse, WriteComplete, WriteConduct,
        WriteQueued, WriteRatifyViva, Reopen
  <2>2. VivaGood(v)
    BY <1>2, <2>1 DEF VivaHolds
  <2>3. PICK d \in Vivas \cup {None} : d = req[r].on
    BY <1>2 DEF BackendShape
  <2>4. CASE WriteSchedule(r)
    <3>1. PICK u \in FreshViva : VivaWritten(u, "SCHEDULED", viva[u].consent, viva[u].video, viva[u].answers, viva[u].judged, viva[u].guide)
      BY <1>1, <2>4, ScheduleWrites
    <3> QED
      BY <3>1 DEF FreshViva, VivaWritten
  <2>5. CASE \/ WriteConsent(r) \/ WriteResponse(r) \/ WriteComplete(r) \/ WriteConduct(r)
             \/ WriteQueued(r) \/ WriteRatifyViva(r)
    <3>1. d # v
      BY <2>2, <2>3, <2>5
      DEF VivaGood, VivaStands, WriteConsent, WriteResponse, WriteComplete, WriteConduct, WriteQueued,
          WriteRatifyViva, Reopen
    <3>2. d \in Vivas
      BY <1>1, <1>4, <2>3, <2>5, NoVivaWritten
    <3>3. \A t \in Vivas \ {d} : viva'[t] = viva[t]
      BY <1>1, <2>3, <2>5, <3>2, VivaWrites DEF VivaWritten
    <3> QED
      BY <3>1, <3>3
  <2> QED
    BY <1>4, <2>4, <2>5, VivaChecks DEF VivaRequest
<1>5. ASSUME NEW w \in Workers, VivaTask(w), viva' # viva
      PROVE  viva'[v].status = "GUIDE_RATIFIED"
  <2>1. reopened' = reopened
    BY <1>5 DEF VivaTask, StartProcessing, CommitProcessing, FailProcessing
  <2>2. PICK E : E = Vivas \ reopened
    OBVIOUS
  <2>3. VivaGood(v) /\ Owned(E) /\ v \in E \ again
    BY <1>2, <2>1, <2>2 DEF VivaHolds
  <2>4. ~Busy(v) /\ (\A m \in Slots : msg[m].to # v) /\ \A u \in Workers : exec[u].to # v
    BY <2>3 DEF VivaGood, Owned, Held, Busy, Queued
  <2>5. ASSUME NEW m \in Slots, StartProcessing(w, m) PROVE viva'[v] = viva[v]
    <3>1. PICK d : d = msg[m].to
      OBVIOUS
    <3>2. d \in Vivas
      BY <1>1, <1>5, <2>5, <3>1, NoVivaProcessed
    <3>3. VivaWritten(d, "ASR_PROCESSING", viva[d].consent, viva[d].video, viva[d].answers, viva[d].judged, viva[d].guide)
      BY <1>1, <1>5, <2>5, <3>1, <3>2, VivaTaskWrites
    <3> QED
      BY <2>4, <3>1, <3>3 DEF VivaWritten
  <2>6. ASSUME CommitProcessing(w) \/ FailProcessing(w) PROVE viva'[v] = viva[v]
    <3>1. PICK d : d = exec[w].to
      OBVIOUS
    <3>2. d \in Vivas
      BY <1>1, <1>5, <2>6, <3>1, NoVivaProcessed
    <3>3. \A t \in Vivas \ {d} : viva'[t] = viva[t]
      BY <1>1, <1>5, <2>6, <3>1, <3>2, VivaTaskWrites DEF VivaWritten
    <3> QED
      BY <2>4, <3>1, <3>3
  <2> QED
    BY <1>5, <2>5, <2>6 DEF VivaTask
<1> QED
  BY <1>3, <1>4, <1>5 DEF VivaNext, vivaVars

\* No request and no task takes the status GUIDE_RATIFIED back, with the same exceptions.
THEOREM RatifiedStaysAlways == VivaSpec => RatifiedStays
<1>1. VivaInv /\ [VivaNext]_vivaVars => VivaInv'
  BY VivaNextHolds
<1>2. VivaInv /\ [VivaNext]_vivaVars =>
        [\A v \in Vivas :
          viva[v].status = "GUIDE_RATIFIED" =>
              viva'[v].status = "GUIDE_RATIFIED" \/ raced \/ v \in again \cup reopened']_vivaVars
  BY VivaRatifiedStays
<1> QED
  BY <1>1, <1>2, VivaInitHolds, PTL DEF VivaSpec, RatifiedStays

----------------------------------------------------------------------------
(* Research documents.                                                     *)

\* A request, message or task is on a document, or on the student's problem.
Papers == Documents \cup {Problem}

\* The columns of a document and its records, over one set of names.
DocRow(V) == [status : V, version : V, file : Nat, evaluated : V]

DocShape(V) ==
    /\ doc \in [Documents -> DocRow(V)]
    /\ BackendShape(V, Papers)

\* The statuses that a document has from its evaluation on.
DocEvaluating == {"EVALUATING", "EVALUATED", "APPROVED", "REVISION_REQUESTED"}

\* Whatever overlaps: what is on its way to an evaluation, or has been there, is
\* a document with a file.
DocRowSound(d) ==
    /\ doc[d].status = "NONE" => doc[d].version = 0
    /\ doc[d].status \in DocEvaluating => doc[d].file > 0

DocReqSound(r) ==
    req[r].on \in Documents =>
        /\ req[r].op \in {"set_file", "queue_evaluation", "review_document", "publish"} =>
              doc[req[r].on].status # "NONE"
        /\ req[r].op \in {"queue_evaluation", "review_document", "publish"} => doc[req[r].on].file > 0

DocMsgSound(m) == msg[m].to \in Documents => doc[msg[m].to].status # "NONE" /\ doc[msg[m].to].file > 0

DocExecSound(w) == exec[w].to \in Documents => doc[exec[w].to].status # "NONE" /\ doc[exec[w].to].file > 0

DocSound ==
    /\ \A d \in Documents : DocRowSound(d)
    /\ \A r \in Reqs : DocReqSound(r)
    /\ \A m \in Slots : DocMsgSound(m)
    /\ \A w \in Workers : DocExecSound(w)

\* What the check of an operation found, or its first commit wrote.
DocStands(op, row) ==
    /\ op = "queue_evaluation" => row.status \notin DocEvaluating
    /\ op = "review_document" => row.status = "EVALUATED"

\* Without overlap it still holds at the write; a document that is evaluated says
\* so, and its worker has the file it holds.
DocGood(d) ==
    /\ \A r \in Reqs : req[r].on = d => DocStands(req[r].op, doc[d])
    /\ Busy(d) => doc[d].status = "EVALUATING"
    /\ \A w \in Workers : exec[w].to = d /\ exec[w].task = "evaluate_research_document" =>
          exec[w].mem = doc[d].file
    /\ doc[d].status \in {"EVALUATED", "APPROVED"} => doc[d].evaluated = doc[d].file

\* The versions are 1..n, each of one document, and a request that is to write the
\* next one has n + 1.
DocNumbered ==
    /\ \E n \in Nat :
          /\ {doc[d].version : d \in Documents} \ {0} = 1..n
          /\ \A r \in Reqs : req[r].op = "submit_document" => req[r].mem = n + 1
    /\ \A d, e \in Documents : d # e => doc[d].version = 0 \/ doc[e].version # doc[d].version

\* Without overlap, of every document whose file was not replaced, and not repeated.
DocHolds ==
    /\ Owned(Documents \ refiled)
    /\ DocNumbered
    /\ \A d \in Documents \ (again \cup refiled) : DocGood(d)

\* The inductive invariant of the documents.
DocInv ==
    /\ \E V : DocShape(V)
    /\ DocSound
    /\ raced \/ DocHolds

\* The names and numbers a step writes.
DocWords ==
    UNION {Words(Papers), ResearchOps, Nat, DocEvaluating, {doc[msg[m].to].file : m \in Slots},
           {NextDocumentVersion, "evaluate_research_proposal", "evaluate_research_document", "SUBMITTED", "NONE"}}

\* A step that writes the row of d, and what its columns are then.
DocRecord(d) ==
    doc' = [doc EXCEPT ![d] = [status |-> doc'[d].status, version |-> doc'[d].version,
                               file |-> doc'[d].file, evaluated |-> doc'[d].evaluated]]

DocWritten(d, x, n, f, e) ==
    /\ DocRecord(d)
    /\ \A c \in Documents \ {d} : doc'[c] = doc[c]
    /\ doc'[d].status = x /\ doc'[d].version = n /\ doc'[d].file = f /\ doc'[d].evaluated = e

\* The writes of a document, by the columns they set.
LEMMA DocStatusWritten ==
    ASSUME NEW V, doc \in [Documents -> DocRow(V)], NEW d \in Documents, NEW x,
           doc' = [doc EXCEPT ![d].status = x]
    PROVE  DocWritten(d, x, doc[d].version, doc[d].file, doc[d].evaluated)
<1>1. doc[d] \in DocRow(V)
  OBVIOUS
<1>2. PICK new : new = [doc[d] EXCEPT !.status = x]
  OBVIOUS
<1>3. doc' = [doc EXCEPT ![d] = new]
  BY <1>2
<1>4. new.status = x /\ new.version = doc[d].version /\ new.file = doc[d].file /\ new.evaluated = doc[d].evaluated
  BY <1>1, <1>2 DEF DocRow
<1>5. new = [status |-> new.status, version |-> new.version, file |-> new.file, evaluated |-> new.evaluated]
  BY <1>1, <1>2 DEF DocRow
<1>6. doc'[d] = new
  BY <1>3
<1>7. DocRecord(d)
  BY <1>3, <1>5, <1>6 DEF DocRecord
<1> QED
  BY <1>3, <1>4, <1>6, <1>7 DEF DocWritten

\* a new row,
LEMMA DocumentWritten ==
    ASSUME NEW V, doc \in [Documents -> DocRow(V)], NEW d \in Documents, NEW x, NEW n, NEW f, NEW e,
           doc' = [doc EXCEPT ![d] = [status |-> x, version |-> n, file |-> f, evaluated |-> e]]
    PROVE  DocWritten(d, x, n, f, e)
<1>1. doc[d] \in DocRow(V)
  OBVIOUS
<1>2. PICK new : new = [status |-> x, version |-> n, file |-> f, evaluated |-> e]
  OBVIOUS
<1>3. doc' = [doc EXCEPT ![d] = new]
  BY <1>2
<1>4. new.status = x /\ new.version = n /\ new.file = f /\ new.evaluated = e
  BY <1>1, <1>2 DEF DocRow
<1>5. new = [status |-> new.status, version |-> new.version, file |-> new.file, evaluated |-> new.evaluated]
  BY <1>1, <1>2 DEF DocRow
<1>6. doc'[d] = new
  BY <1>3
<1>7. DocRecord(d)
  BY <1>3, <1>5, <1>6 DEF DocRecord
<1> QED
  BY <1>3, <1>4, <1>6, <1>7 DEF DocWritten

\* the file,
LEMMA FileWritten ==
    ASSUME NEW V, doc \in [Documents -> DocRow(V)], NEW d \in Documents, NEW f,
           doc' = [doc EXCEPT ![d].file = f]
    PROVE  DocWritten(d, doc[d].status, doc[d].version, f, doc[d].evaluated)
<1>1. doc[d] \in DocRow(V)
  OBVIOUS
<1>2. PICK new : new = [doc[d] EXCEPT !.file = f]
  OBVIOUS
<1>3. doc' = [doc EXCEPT ![d] = new]
  BY <1>2
<1>4. new.status = doc[d].status /\ new.version = doc[d].version /\ new.file = f /\ new.evaluated = doc[d].evaluated
  BY <1>1, <1>2 DEF DocRow
<1>5. new = [status |-> new.status, version |-> new.version, file |-> new.file, evaluated |-> new.evaluated]
  BY <1>1, <1>2 DEF DocRow
<1>6. doc'[d] = new
  BY <1>3
<1>7. DocRecord(d)
  BY <1>3, <1>5, <1>6 DEF DocRecord
<1> QED
  BY <1>3, <1>4, <1>6, <1>7 DEF DocWritten

\* and the evaluation.
LEMMA DocEvaluationWritten ==
    ASSUME NEW V, doc \in [Documents -> DocRow(V)], NEW d \in Documents, NEW x, NEW e,
           doc' = [doc EXCEPT ![d].status = x, ![d].evaluated = e]
    PROVE  DocWritten(d, x, doc[d].version, doc[d].file, e)
<1>1. doc[d] \in DocRow(V)
  OBVIOUS
<1>2. PICK new : new = [doc[d] EXCEPT !.status = x, !.evaluated = e]
  OBVIOUS
<1>3. doc' = [doc EXCEPT ![d] = new]
  BY <1>2
<1>4. new.status = x /\ new.version = doc[d].version /\ new.file = doc[d].file /\ new.evaluated = e
  BY <1>1, <1>2 DEF DocRow
<1>5. new = [status |-> new.status, version |-> new.version, file |-> new.file, evaluated |-> new.evaluated]
  BY <1>1, <1>2 DEF DocRow
<1>6. doc'[d] = new
  BY <1>3
<1>7. DocRecord(d)
  BY <1>3, <1>5, <1>6 DEF DocRecord
<1> QED
  BY <1>3, <1>4, <1>6, <1>7 DEF DocWritten

\* A row whose columns are names is of the shape.
LEMMA DocShaped ==
    ASSUME NEW V, doc \in [Documents -> DocRow(V)], NEW d \in Documents, DocRecord(d),
           doc'[d].status \in V, doc'[d].version \in V, doc'[d].file \in Nat, doc'[d].evaluated \in V
    PROVE  doc' \in [Documents -> DocRow(V)]
<1>1. PICK new : new = [status |-> doc'[d].status, version |-> doc'[d].version,
                        file |-> doc'[d].file, evaluated |-> doc'[d].evaluated]
  OBVIOUS
<1>2. new \in DocRow(V)
  BY <1>1 DEF DocRow
<1>3. doc' = [doc EXCEPT ![d] = new]
  BY <1>1 DEF DocRecord
<1> QED
  BY <1>2, <1>3

\* What a request writes,
LEMMA DocWrites ==
    ASSUME NEW V, DocShape(V), NEW r \in Reqs, NEW d \in Documents, d = req[r].on
    PROVE  /\ WriteFile(r) => DocWritten(d, doc[d].status, doc[d].version, doc[d].file + 1, doc[d].evaluated)
           /\ QueueEvaluation(r) => DocWritten(d, "EVALUATING", doc[d].version, doc[d].file, doc[d].evaluated)
           /\ WriteDocumentReview(r) =>
                 \E s \in {"APPROVED", "REVISION_REQUESTED"} :
                    DocWritten(d, s, doc[d].version, doc[d].file, doc[d].evaluated)
<1>1. doc \in [Documents -> DocRow(V)]
  BY DEF DocShape
<1>2. ASSUME WriteFile(r)
      PROVE  DocWritten(d, doc[d].status, doc[d].version, doc[d].file + 1, doc[d].evaluated)
  <2>1. PICK f : f = doc[d].file + 1
    OBVIOUS
  <2>2. doc' = [doc EXCEPT ![d].file = f]
    BY <1>1, <1>2, <2>1 DEF WriteFile, DocRow
  <2>3. DocWritten(d, doc[d].status, doc[d].version, f, doc[d].evaluated)
    BY <1>1, <2>2, FileWritten
  <2> QED
    BY <2>1, <2>3
<1>3. ASSUME QueueEvaluation(r)
      PROVE  DocWritten(d, "EVALUATING", doc[d].version, doc[d].file, doc[d].evaluated)
  <2>1. doc' = [doc EXCEPT ![d].status = "EVALUATING"]
    BY <1>3 DEF QueueEvaluation
  <2> QED
    BY <1>1, <2>1, DocStatusWritten
<1>4. ASSUME WriteDocumentReview(r)
      PROVE  \E s \in {"APPROVED", "REVISION_REQUESTED"} :
                DocWritten(d, s, doc[d].version, doc[d].file, doc[d].evaluated)
  <2>1. PICK s \in {"APPROVED", "REVISION_REQUESTED"} : doc' = [doc EXCEPT ![d].status = s]
    BY <1>4 DEF WriteDocumentReview
  <2>2. DocWritten(d, s, doc[d].version, doc[d].file, doc[d].evaluated)
    BY <1>1, <2>1, DocStatusWritten
  <2> QED
    BY <2>2
<1> QED
  BY <1>2, <1>3, <1>4

\* A request on no document writes none.
LEMMA NoDocWritten ==
    ASSUME NEW V, DocShape(V), NEW r, req[r].on \notin Documents,
           WriteFile(r) \/ QueueEvaluation(r) \/ WriteDocumentReview(r)
    PROVE  doc' = doc
<1>1. doc \in [Documents -> DocRow(V)]
  BY DEF DocShape
<1>2. PICK d : d = req[r].on /\ d \notin Documents
  OBVIOUS
<1>3. CASE WriteFile(r)
  BY <1>1, <1>2, <1>3 DEF WriteFile
<1>4. CASE QueueEvaluation(r)
  BY <1>1, <1>2, <1>4 DEF QueueEvaluation
<1>5. CASE WriteDocumentReview(r)
  BY <1>1, <1>2, <1>5 DEF WriteDocumentReview
<1> QED
  BY <1>3, <1>4, <1>5

\* A document is submitted in a fresh row, and evaluated at once if it has a file.
LEMMA DocumentWrites ==
    ASSUME NEW V, DocShape(V), NEW r, WriteDocument(r)
    PROVE  \E d \in FreshDocument, f \in {0, 1} :
              /\ DocWritten(d, "SUBMITTED", req[r].mem, f, None)
              /\ \/ f = 0 /\ End(r)
                 \/ f = 1 /\ QueueNext(r, d) /\ UNCHANGED <<raced, faults>>
<1>1. PICK d \in FreshDocument, f \in {0, 1} :
          /\ doc' = [doc EXCEPT ![d] = [status |-> "SUBMITTED", version |-> req[r].mem,
                                        file |-> f, evaluated |-> None]]
          /\ IF f = 0 THEN req' = [req EXCEPT ![r] = NoReq] ELSE QueueNext(r, d)
  BY DEF WriteDocument
<1>2. d \in Documents /\ doc \in [Documents -> DocRow(V)] /\ UNCHANGED <<raced, faults>>
  BY DEF FreshDocument, DocShape, WriteDocument
<1>3. PICK n : n = req[r].mem
  OBVIOUS
<1>4. doc' = [doc EXCEPT ![d] = [status |-> "SUBMITTED", version |-> n, file |-> f, evaluated |-> None]]
  BY <1>1, <1>3
<1>5. DocWritten(d, "SUBMITTED", n, f, None)
  BY <1>2, <1>4, DocumentWritten
<1>6. \/ f = 0 /\ End(r)
      \/ f = 1 /\ QueueNext(r, d) /\ UNCHANGED <<raced, faults>>
  BY <1>1, <1>2 DEF End
<1> QED
  BY <1>3, <1>5, <1>6

\* and a task.
LEMMA DocTaskWrites ==
    ASSUME NEW V, DocShape(V), NEW w \in Workers, NEW d \in Documents
    PROVE  /\ \A m \in Slots : StartDocument(w, m) /\ msg[m].to = d =>
                  DocWritten(d, "EVALUATING", doc[d].version, doc[d].file, doc[d].evaluated)
           /\ CommitDocument(w) /\ exec[w].to = d =>
                  DocWritten(d, "EVALUATED", doc[d].version, doc[d].file, exec[w].mem)
           /\ ResetDocument(w) /\ exec[w].to = d =>
                  DocWritten(d, "SUBMITTED", doc[d].version, doc[d].file, doc[d].evaluated)
<1>1. doc \in [Documents -> DocRow(V)]
  BY DEF DocShape
<1>2. ASSUME NEW m \in Slots, StartDocument(w, m), msg[m].to = d
      PROVE  DocWritten(d, "EVALUATING", doc[d].version, doc[d].file, doc[d].evaluated)
  <2>1. doc' = [doc EXCEPT ![d].status = "EVALUATING"]
    BY <1>2 DEF StartDocument
  <2> QED
    BY <1>1, <2>1, DocStatusWritten
<1>3. ASSUME CommitDocument(w), exec[w].to = d
      PROVE  DocWritten(d, "EVALUATED", doc[d].version, doc[d].file, exec[w].mem)
  <2>1. PICK e : e = exec[w].mem
    OBVIOUS
  <2>2. doc' = [doc EXCEPT ![d].status = "EVALUATED", ![d].evaluated = e]
    BY <1>3, <2>1 DEF CommitDocument
  <2>3. DocWritten(d, "EVALUATED", doc[d].version, doc[d].file, e)
    BY <1>1, <2>2, DocEvaluationWritten
  <2> QED
    BY <2>1, <2>3
<1>4. ASSUME ResetDocument(w), exec[w].to = d
      PROVE  DocWritten(d, "SUBMITTED", doc[d].version, doc[d].file, doc[d].evaluated)
  <2>1. doc' = [doc EXCEPT ![d].status = "SUBMITTED"]
    BY <1>4 DEF ResetDocument
  <2> QED
    BY <1>1, <2>1, DocStatusWritten
<1> QED
  BY <1>2, <1>3, <1>4

\* A task for no document writes none.
LEMMA NoDocEvaluated ==
    ASSUME NEW V, DocShape(V), NEW w \in Workers,
           \/ \E m \in Slots : StartDocument(w, m) /\ msg[m].to \notin Documents
           \/ (CommitDocument(w) \/ ResetDocument(w)) /\ exec[w].to \notin Documents
    PROVE  doc' = doc
<1>1. doc \in [Documents -> DocRow(V)]
  BY DEF DocShape
<1>2. ASSUME NEW m \in Slots, StartDocument(w, m), msg[m].to \notin Documents PROVE doc' = doc
  BY <1>1, <1>2 DEF StartDocument
<1>3. ASSUME CommitDocument(w), exec[w].to \notin Documents PROVE doc' = doc
  BY <1>1, <1>3 DEF CommitDocument
<1>4. ASSUME ResetDocument(w), exec[w].to \notin Documents PROVE doc' = doc
  BY <1>1, <1>4 DEF ResetDocument
<1> QED
  BY <1>2, <1>3, <1>4

\* A request that goes on with its document's evaluation.
LEMMA QueueNextRow ==
    ASSUME NEW V, NEW R, BackendShape(V, R), None \in V, "queue_evaluation" \in V,
           UNCHANGED <<queue, raced>>, NEW r \in Reqs, NEW d \in R \cup {None}, QueueNext(r, d)
    PROVE  /\ BackendShape(V, R)'
           /\ req'[r].op = "queue_evaluation" /\ req'[r].on = d
           /\ \A q \in Reqs \ {r} : req'[q] = req[q]
<1>1. PICK new : new = [req[r] EXCEPT !.op = "queue_evaluation", !.on = d, !.mem = None]
  OBVIOUS
<1>2. req[r] \in [op : V, on : R \cup {None}, mem : V, task : V]
  BY DEF BackendShape
<1>3. /\ new \in [op : V, on : R \cup {None}, mem : V, task : V]
      /\ new.op = "queue_evaluation" /\ new.on = d
  BY <1>1, <1>2
<1>4. req' = [req EXCEPT ![r] = new]
  BY <1>1 DEF QueueNext
<1>5. /\ req' \in [Reqs -> [op : V, on : R \cup {None}, mem : V, task : V]]
      /\ req'[r] = new /\ \A q \in Reqs \ {r} : req'[q] = req[q]
  BY <1>3, <1>4 DEF BackendShape
<1> QED
  BY <1>3, <1>5 DEF BackendShape, queue

\* A request begins with a check.
LEMMA DocChecks ==
    ASSUME NEW r,
           \/ Propose(r) \/ Decide(r) \/ SubmitDocument(r)
           \/ \E d \in Documents : SetFile(r, d) \/ ReviewDocument(r, d)
    PROVE  \E o \in ResearchOps \ {"queue_evaluation"}, d \in Papers \cup {None},
               x \in {None, NextDocumentVersion} :
               /\ Begin(r, o, d, x) /\ UNCHANGED <<doc, refiled>>
               /\ DocStands(o, doc[d])
               /\ o = "set_file" => doc[d].status # "NONE"
               /\ o = "submit_document" => x = NextDocumentVersion
<1>1. CASE Propose(r) \/ Decide(r) \/ SubmitDocument(r)
  BY <1>1 DEF Propose, Decide, SubmitDocument, ResearchOps, DocStands, Papers
<1>2. CASE \E d \in Documents : SetFile(r, d) \/ ReviewDocument(r, d)
  BY <1>2 DEF SetFile, ReviewDocument, ResearchOps, DocStands, Papers
<1> QED
  BY <1>1, <1>2

\* Requests and tasks write rows of their shape, out of known names.
LEMMA DocShapeStep ==
    ASSUME NEW V, DocShape(V), ResearchNext, NEW W, W = V \cup DocWords
    PROVE  DocShape(W)'
<1>1. DocShape(W) /\ doc \in [Documents -> DocRow(W)] /\ BackendShape(W, Papers)
  BY ShapeGrows DEF DocShape, DocRow
<1>2. /\ Words(Papers) \subseteq W /\ Nat \subseteq W /\ ResearchOps \subseteq W /\ NextDocumentVersion \in W
      /\ {None, "running", "failed", "SUBMITTED", "EVALUATING", "EVALUATED", "APPROVED", "REVISION_REQUESTED",
          "evaluate_research_proposal", "evaluate_research_document"} \subseteq W
  BY DEF DocWords, Words, DocEvaluating
<1>3. \A d \in Documents : doc[d].status \in W /\ doc[d].version \in W /\ doc[d].file \in Nat /\ doc[d].evaluated \in W
  BY <1>1 DEF DocRow
<1>4. ASSUME NEW d \in Documents, DocRecord(d), doc'[d].status \in W, doc'[d].version \in W,
             doc'[d].file \in Nat, doc'[d].evaluated \in W
      PROVE  doc' \in [Documents -> DocRow(W)]
  BY <1>1, <1>4, DocShaped
<1>5. ASSUME NEW r \in Reqs, ResearchRequest(r), UNCHANGED queue
      PROVE  DocShape(W)'
  <2>1. PICK d \in Papers \cup {None}, x \in W : d = req[r].on /\ x = req[r].mem
    BY <1>1 DEF BackendShape
  <2>2. ASSUME NEW o \in W, NEW e \in Papers \cup {None}, NEW y \in W, Begin(r, o, e, y)
        PROVE  BackendShape(W, Papers)'
    BY <1>1, <1>2, <1>5, <2>2, RequestShape
  <2>3. ASSUME End(r) \/ \E e \in Papers \cup {None}, t \in W : EndPublishing(r, e, t)
        PROVE  BackendShape(W, Papers)'
    BY <1>1, <1>2, <1>5, <2>3, RequestShape
  <2>4. ASSUME NEW e \in Papers \cup {None}, QueueNext(r, e), UNCHANGED raced PROVE BackendShape(W, Papers)'
    <3>1. "queue_evaluation" \in W /\ None \in W
      BY <1>2 DEF ResearchOps
    <3> QED
      BY <1>1, <1>5, <2>4, <3>1, QueueNextRow
  <2>5. CASE \/ Propose(r) \/ Decide(r) \/ SubmitDocument(r)
             \/ \E e \in Documents : SetFile(r, e) \/ ReviewDocument(r, e)
    <3>1. UNCHANGED doc /\ \E o \in W, e \in Papers \cup {None}, y \in W : Begin(r, o, e, y)
      BY <1>2, <2>5, DocChecks
    <3> QED
      BY <1>1, <2>2, <3>1 DEF DocShape
  <2>6. CASE WriteProposal(r)
    <3>1. UNCHANGED doc /\ EndPublishing(r, Problem, "evaluate_research_proposal") /\ Problem \in Papers
      BY <2>6 DEF WriteProposal, Papers
    <3> QED
      BY <1>1, <1>2, <2>3, <3>1 DEF DocShape
  <2>7. CASE WriteDecision(r)
    BY <1>1, <2>3, <2>7 DEF WriteDecision, DocShape
  <2>8. CASE WriteDocument(r)
    <3>1. PICK e \in FreshDocument, f \in {0, 1} :
              /\ DocWritten(e, "SUBMITTED", req[r].mem, f, None)
              /\ \/ f = 0 /\ End(r)
                 \/ f = 1 /\ QueueNext(r, e) /\ UNCHANGED <<raced, faults>>
      BY <1>1, <2>8, DocumentWrites
    <3>2. e \in Documents /\ e \in Papers
      BY DEF FreshDocument, Papers
    <3>3. doc' \in [Documents -> DocRow(W)]
      BY <1>2, <1>4, <2>1, <3>1, <3>2 DEF DocWritten
    <3>4. BackendShape(W, Papers)'
      BY <2>3, <2>4, <3>1, <3>2
    <3> QED
      BY <3>3, <3>4 DEF DocShape
  <2>9. CASE WriteFile(r) \/ QueueEvaluation(r) \/ WriteDocumentReview(r)
    <3>1. BackendShape(W, Papers)'
      BY <1>2, <2>1, <2>3, <2>4, <2>9 DEF WriteFile, QueueEvaluation, WriteDocumentReview
    <3>2. d \notin Documents => doc' = doc
      BY <1>1, <2>1, <2>9, NoDocWritten
    <3>3. ASSUME d \in Documents, WriteFile(r) PROVE doc' \in [Documents -> DocRow(W)]
      <4>1. DocWritten(d, doc[d].status, doc[d].version, doc[d].file + 1, doc[d].evaluated)
        BY <1>1, <2>1, <3>3, DocWrites
      <4>2. doc[d].file + 1 \in Nat
        BY <1>3, <3>3
      <4> QED
        BY <1>3, <1>4, <3>3, <4>1, <4>2 DEF DocWritten
    <3>4. ASSUME d \in Documents, QueueEvaluation(r) PROVE doc' \in [Documents -> DocRow(W)]
      <4>1. DocWritten(d, "EVALUATING", doc[d].version, doc[d].file, doc[d].evaluated)
        BY <1>1, <2>1, <3>4, DocWrites
      <4> QED
        BY <1>2, <1>3, <1>4, <3>4, <4>1 DEF DocWritten
    <3>5. ASSUME d \in Documents, WriteDocumentReview(r) PROVE doc' \in [Documents -> DocRow(W)]
      <4>1. PICK s \in {"APPROVED", "REVISION_REQUESTED"} :
                DocWritten(d, s, doc[d].version, doc[d].file, doc[d].evaluated)
        BY <1>1, <2>1, <3>5, DocWrites
      <4> QED
        BY <1>2, <1>3, <1>4, <3>5, <4>1 DEF DocWritten
    <3> QED
      BY <1>1, <2>9, <3>1, <3>2, <3>3, <3>4, <3>5 DEF DocShape
  <2> QED
    BY <1>5, <2>5, <2>6, <2>7, <2>8, <2>9 DEF ResearchRequest
<1>6. ASSUME NEW w \in Workers, ResearchTask(w), UNCHANGED <<req, raced>>
      PROVE  DocShape(W)'
  <2>1. PICK d, j \in W : d = exec[w].to /\ j = exec[w].mem
    BY <1>1 DEF BackendShape
  <2>2. \/ \E m \in Slots, t \in W, p \in W, y \in W : Take(w, m, t, p, y)
        \/ \E p \in W, y \in W : Goto(w, p, y) /\ UNCHANGED msg
        \/ Finish(w)
        \/ Retry(w)
    <3>1. \A m \in Slots : doc[msg[m].to].file \in W
      BY DEF DocWords
    <3> QED
      BY <1>2, <1>6, <2>1, <3>1
      DEF ResearchTask, StartProposal, StartDocument, CommitProposal, FailProposal, CommitDocument,
          FailDocument, ResetDocument, ResetDocumentFails
  <2>3. BackendShape(W, Papers)'
    BY <1>1, <1>2, <1>6, <2>2, TaskShape
  <2>4. ASSUME NEW m \in Slots, StartDocument(w, m) PROVE doc' \in [Documents -> DocRow(W)]
    <3>1. PICK e : e = msg[m].to
      OBVIOUS
    <3>2. e \notin Documents => doc' = doc
      BY <1>1, <2>4, <3>1, NoDocEvaluated
    <3>3. ASSUME e \in Documents PROVE doc' \in [Documents -> DocRow(W)]
      <4>1. DocWritten(e, "EVALUATING", doc[e].version, doc[e].file, doc[e].evaluated)
        BY <1>1, <2>4, <3>1, <3>3, DocTaskWrites
      <4> QED
        BY <1>2, <1>3, <1>4, <3>3, <4>1 DEF DocWritten
    <3> QED
      BY <1>1, <3>2, <3>3
  <2>5. ASSUME CommitDocument(w) \/ ResetDocument(w) PROVE doc' \in [Documents -> DocRow(W)]
    <3>1. d \notin Documents => doc' = doc
      BY <1>1, <2>1, <2>5, NoDocEvaluated
    <3>2. ASSUME d \in Documents, CommitDocument(w) PROVE doc' \in [Documents -> DocRow(W)]
      <4>1. DocWritten(d, "EVALUATED", doc[d].version, doc[d].file, exec[w].mem)
        BY <1>1, <2>1, <3>2, DocTaskWrites
      <4> QED
        BY <1>2, <1>3, <1>4, <2>1, <3>2, <4>1 DEF DocWritten
    <3>3. ASSUME d \in Documents, ResetDocument(w) PROVE doc' \in [Documents -> DocRow(W)]
      <4>1. DocWritten(d, "SUBMITTED", doc[d].version, doc[d].file, doc[d].evaluated)
        BY <1>1, <2>1, <3>3, DocTaskWrites
      <4> QED
        BY <1>2, <1>3, <1>4, <3>3, <4>1 DEF DocWritten
    <3> QED
      BY <1>1, <2>5, <3>1, <3>2, <3>3
  <2>6. ASSUME \/ \E m \in Slots : StartProposal(w, m)
               \/ CommitProposal(w) \/ FailProposal(w) \/ FailDocument(w) \/ ResetDocumentFails(w)
        PROVE  doc' \in [Documents -> DocRow(W)]
    BY <1>1, <2>6 DEF StartProposal, CommitProposal, FailProposal, FailDocument, ResetDocumentFails
  <2> QED
    BY <1>6, <2>3, <2>4, <2>5, <2>6 DEF ResearchTask, DocShape
<1>7. ASSUME Environment, UNCHANGED <<problem, doc, refiled>>
      PROVE  DocShape(W)'
  BY <1>1, <1>2, <1>7, EnvironmentShape DEF DocShape
<1> QED
  BY <1>5, <1>6, <1>7 DEF ResearchNext

\* A worker that goes on keeps to its document.
LEMMA GotoRow ==
    ASSUME NEW V, NEW R, BackendShape(V, R), NEW w \in Workers, NEW p, NEW x, Goto(w, p, x)
    PROVE  /\ exec'[w].to = exec[w].to /\ exec'[w].task = exec[w].task /\ exec'[w].mem = x
           /\ \A u \in Workers \ {w} : exec'[u] = exec[u]
<1>1. /\ exec'[w] = [exec[w] EXCEPT !.phase = p, !.mem = x]
      /\ \A u \in Workers \ {w} : exec'[u] = exec[u]
  BY DEF Goto, BackendShape
<1>2. exec[w] \in [slot : V, task : V, to : V, phase : V, mem : V]
  BY DEF BackendShape
<1> QED
  BY <1>1, <1>2

\* A document stays, and so does its having a file.
DocKept(d) ==
    doc[d].status # "NONE" => doc'[d].status # "NONE" /\ (doc[d].file > 0 => doc'[d].file > 0)

DocRowsKeep == \A d \in Documents : DocKept(d) /\ DocRowSound(d)'

\* It is enough to look at the row that is written.
LEMMA DocRowsRest ==
    ASSUME DocSound, NEW d, \A c \in Documents \ {d} : doc'[c] = doc[c],
           d \in Documents => DocKept(d) /\ DocRowSound(d)'
    PROVE  DocRowsKeep
BY DEF DocSound, DocRowsKeep, DocKept, DocRowSound

\* What a step does not begin stays sound.
LEMMA DocSoundRest ==
    ASSUME DocSound, DocRowsKeep,
           \A q \in Reqs : req'[q] = req[q] \/ req'[q] = NoReq \/ DocReqSound(q)',
           \A n \in Slots : \/ msg'[n].to = msg[n].to
                            \/ msg'[n] = NoMsg
                            \/ \E q \in Reqs : req[q].op = "publish" /\ msg'[n].to = req[q].on,
           \A u \in Workers : \/ exec'[u].to = exec[u].to
                              \/ exec'[u] = Idle
                              \/ \E n \in Slots : exec'[u].to = msg[n].to
    PROVE  DocSound'
<1>1. \A q \in Reqs : DocReqSound(q)'
  BY ResearchNames DEF DocSound, DocRowsKeep, DocKept, DocReqSound, NoReq
<1>2. \A n \in Slots : DocMsgSound(n)'
  BY ResearchNames DEF DocSound, DocRowsKeep, DocKept, DocReqSound, DocMsgSound, NoMsg
<1>3. \A u \in Workers : DocExecSound(u)'
  BY ResearchNames DEF DocSound, DocRowsKeep, DocKept, DocMsgSound, DocExecSound, Idle
<1> QED
  BY <1>1, <1>2, <1>3 DEF DocSound, DocRowsKeep

\* A request has what it needs, whatever overlaps,
LEMMA DocRequestSound ==
    ASSUME NEW V, DocShape(V), DocSound, NEW r \in Reqs, ResearchRequest(r), UNCHANGED queue
    PROVE  DocSound'
<1>1. BackendShape(V, Papers) /\ doc \in [Documents -> DocRow(V)] /\ UNCHANGED <<msg, exec>>
  BY DEF DocShape, queue
<1>2. ASSUME DocRowsKeep, DocReqSound(r)', \A q \in Reqs \ {r} : req'[q] = req[q]
      PROVE  DocSound'
  BY <1>1, <1>2, DocSoundRest
<1>3. UNCHANGED doc => DocRowsKeep
  BY DEF DocSound, DocRowsKeep, DocKept, DocRowSound
<1>4. PICK d \in Papers \cup {None} : d = req[r].on
  BY <1>1 DEF BackendShape
<1>5. ASSUME End(r) PROVE DocReqSound(r)' /\ \A q \in Reqs \ {r} : req'[q] = req[q]
  <2>1. req'[r] = NoReq /\ \A q \in Reqs \ {r} : req'[q] = req[q]
    BY <1>1, <1>5 DEF End, BackendShape
  <2> QED
    BY <2>1, ResearchNames DEF DocReqSound, NoReq
<1>6. ASSUME NEW e \in Papers \cup {None}, QueueNext(r, e),
             e \in Documents => doc'[e].status # "NONE" /\ doc'[e].file > 0
      PROVE  DocReqSound(r)' /\ \A q \in Reqs \ {r} : req'[q] = req[q]
  <2>1. /\ req' = [req EXCEPT ![r].op = "queue_evaluation", ![r].on = e, ![r].mem = None]
        /\ req \in [Reqs -> [op : V, on : Papers \cup {None}, mem : V, task : V]]
    BY <1>1, <1>6 DEF QueueNext, BackendShape
  <2>2. /\ req'[r].op = "queue_evaluation" /\ req'[r].on = e
        /\ \A q \in Reqs \ {r} : req'[q] = req[q]
    BY <2>1
  <2> QED
    BY <1>6, <2>2 DEF DocReqSound
<1>7. ASSUME NEW e, NEW t, EndPublishing(r, e, t),
             e \in Documents => doc'[e].status # "NONE" /\ doc'[e].file > 0
      PROVE  DocReqSound(r)' /\ \A q \in Reqs \ {r} : req'[q] = req[q]
  <2>1. /\ req'[r].op = "publish" /\ req'[r].on = e
        /\ \A q \in Reqs \ {r} : req'[q] = req[q]
    BY <1>1, <1>7 DEF EndPublishing, BackendShape, NoReq
  <2> QED
    BY <1>7, <2>1 DEF DocReqSound
<1>8. CASE \/ Propose(r) \/ Decide(r) \/ SubmitDocument(r)
           \/ \E e \in Documents : SetFile(r, e) \/ ReviewDocument(r, e)
  <2>1. PICK o \in ResearchOps \ {"queue_evaluation"}, e \in Papers \cup {None}, x \in {None, NextDocumentVersion} :
            /\ Begin(r, o, e, x) /\ UNCHANGED <<doc, refiled>>
            /\ DocStands(o, doc[e])
            /\ o = "set_file" => doc[e].status # "NONE"
            /\ o = "submit_document" => x = NextDocumentVersion
    BY <1>8, DocChecks
  <2>2. /\ req'[r].op = o /\ req'[r].on = e
        /\ \A q \in Reqs \ {r} : req'[q] = req[q]
    BY <1>1, <2>1, BeginRow
  <2>3. e \in Documents /\ o = "review_document" => doc[e].status # "NONE" /\ doc[e].file > 0
    BY <2>1 DEF DocStands, DocSound, DocRowSound, DocEvaluating
  <2>4. o \notin {"publish", "queue_evaluation"}
    BY DEF ResearchOps
  <2>5. DocReqSound(r)'
    BY <2>1, <2>2, <2>3, <2>4 DEF DocReqSound
  <2> QED
    BY <1>2, <1>3, <2>1, <2>2, <2>5
<1>9. CASE WriteProposal(r)
  <2>1. UNCHANGED doc /\ EndPublishing(r, Problem, "evaluate_research_proposal") /\ Problem \notin Documents
    BY <1>9, ResearchAssumption DEF WriteProposal, Problem
  <2> QED
    BY <1>2, <1>3, <1>7, <2>1
<1>10. CASE WriteDecision(r)
  BY <1>2, <1>3, <1>5, <1>10 DEF WriteDecision
<1>11. CASE WriteDocument(r)
  <2>1. PICK e \in FreshDocument, f \in {0, 1} :
            /\ DocWritten(e, "SUBMITTED", req[r].mem, f, None)
            /\ \/ f = 0 /\ End(r)
               \/ f = 1 /\ QueueNext(r, e) /\ UNCHANGED <<raced, faults>>
    BY <1>11, DocumentWrites
  <2>2. e \in Documents /\ e \in Papers /\ doc[e].status = "NONE"
    BY DEF FreshDocument, Papers
  <2>3. DocRowsKeep
    BY <2>1, <2>2, DocRowsRest DEF DocWritten, DocRowSound, DocKept, DocEvaluating
  <2>4. f = 1 => doc'[e].status # "NONE" /\ doc'[e].file > 0
    BY <2>1 DEF DocWritten
  <2> QED
    BY <1>2, <1>5, <1>6, <2>1, <2>2, <2>3, <2>4
<1>12. CASE (WriteFile(r) \/ QueueEvaluation(r) \/ WriteDocumentReview(r)) /\ d \notin Documents
  <2>1. doc' = doc
    BY <1>4, <1>12, NoDocWritten
  <2>2. \/ QueueNext(r, d)
        \/ \E t : EndPublishing(r, d, t)
        \/ End(r)
    BY <1>4, <1>12 DEF WriteFile, QueueEvaluation, WriteDocumentReview
  <2> QED
    BY <1>2, <1>3, <1>4, <1>5, <1>6, <1>7, <1>12, <2>1, <2>2
<1>13. ASSUME d \in Documents, WriteFile(r) PROVE DocSound'
  <2>1. DocWritten(d, doc[d].status, doc[d].version, doc[d].file + 1, doc[d].evaluated) /\ QueueNext(r, d)
    BY <1>4, <1>13, DocWrites DEF WriteFile
  <2>2. DocRowSound(d) /\ doc[d].status # "NONE" /\ doc[d].file \in Nat
    BY <1>1, <1>4, <1>13 DEF WriteFile, DocSound, DocReqSound, DocRow
  <2>3. DocKept(d) /\ DocRowSound(d)' /\ doc'[d].status # "NONE" /\ doc'[d].file > 0
    BY <2>1, <2>2 DEF DocWritten, DocRowSound, DocKept
  <2>4. DocRowsKeep
    BY <2>1, <2>3, DocRowsRest DEF DocWritten
  <2> QED
    BY <1>2, <1>4, <1>6, <2>1, <2>3, <2>4
<1>14. ASSUME d \in Documents, QueueEvaluation(r) PROVE DocSound'
  <2>1. DocWritten(d, "EVALUATING", doc[d].version, doc[d].file, doc[d].evaluated)
    BY <1>4, <1>14, DocWrites
  <2>2. doc[d].file > 0 /\ EndPublishing(r, d, "evaluate_research_document")
    BY <1>4, <1>14 DEF QueueEvaluation, DocSound, DocReqSound
  <2>3. DocKept(d) /\ DocRowSound(d)' /\ doc'[d].status # "NONE" /\ doc'[d].file > 0
    BY <2>1, <2>2 DEF DocWritten, DocRowSound, DocKept
  <2>4. DocRowsKeep
    BY <2>1, <2>3, DocRowsRest DEF DocWritten
  <2> QED
    BY <1>2, <1>7, <2>2, <2>3, <2>4
<1>15. ASSUME d \in Documents, WriteDocumentReview(r) PROVE DocSound'
  <2>1. PICK s \in {"APPROVED", "REVISION_REQUESTED"} :
            DocWritten(d, s, doc[d].version, doc[d].file, doc[d].evaluated)
    BY <1>4, <1>15, DocWrites
  <2>2. doc[d].file > 0 /\ End(r)
    BY <1>4, <1>15 DEF WriteDocumentReview, DocSound, DocReqSound
  <2>3. DocKept(d) /\ DocRowSound(d)'
    BY <2>1, <2>2 DEF DocWritten, DocRowSound, DocKept
  <2>4. DocRowsKeep
    BY <2>1, <2>3, DocRowsRest DEF DocWritten
  <2> QED
    BY <1>2, <1>5, <2>2, <2>4
<1> QED
  BY <1>8, <1>9, <1>10, <1>11, <1>12, <1>13, <1>14, <1>15 DEF ResearchRequest

\* and a task has a document with a file.
LEMMA DocTaskSound ==
    ASSUME NEW V, DocShape(V), DocSound, NEW w \in Workers, ResearchTask(w), UNCHANGED <<req, raced>>
    PROVE  DocSound'
<1>1. BackendShape(V, Papers)
  BY DEF DocShape
<1>2. UNCHANGED doc => DocRowsKeep
  BY DEF DocSound, DocRowsKeep, DocKept, DocRowSound
<1>3. ASSUME DocRowsKeep,
             \A n \in Slots : msg'[n].to = msg[n].to \/ msg'[n] = NoMsg,
             \A u \in Workers : \/ exec'[u].to = exec[u].to
                                \/ exec'[u] = Idle
                                \/ \E n \in Slots : exec'[u].to = msg[n].to
      PROVE  DocSound'
  BY <1>3, DocSoundRest
<1>4. ASSUME NEW m \in Slots, StartProposal(w, m) \/ StartDocument(w, m) PROVE DocSound'
  <2>1. PICK d, t, a : d = msg[m].to /\ Take(w, m, t, "running", a)
    BY <1>4 DEF StartProposal, StartDocument
  <2>2. /\ exec'[w].to = d
        /\ \A u \in Workers \ {w} : exec'[u] = exec[u]
        /\ \A n \in Slots : msg'[n].to = msg[n].to
    BY <1>1, <2>1, TakeRow
  <2>3. DocRowsKeep
    <3>1. CASE StartProposal(w, m)
      BY <1>2, <3>1 DEF StartProposal
    <3>2. CASE StartDocument(w, m) /\ d \notin Documents
      BY <1>2, <2>1, <3>2, NoDocEvaluated
    <3>3. ASSUME StartDocument(w, m), d \in Documents PROVE DocRowsKeep
      <4>1. DocWritten(d, "EVALUATING", doc[d].version, doc[d].file, doc[d].evaluated)
        BY <2>1, <3>3, DocTaskWrites
      <4>2. doc[d].file > 0
        BY <2>1, <3>3 DEF DocSound, DocMsgSound
      <4>3. DocKept(d) /\ DocRowSound(d)'
        BY <4>1, <4>2 DEF DocWritten, DocRowSound, DocKept
      <4> QED
        BY <4>1, <4>3, DocRowsRest DEF DocWritten
    <3> QED
      BY <1>4, <3>1, <3>2, <3>3
  <2> QED
    BY <1>3, <2>1, <2>2, <2>3
<1>5. ASSUME \/ CommitProposal(w) \/ FailProposal(w) \/ CommitDocument(w) \/ ResetDocument(w)
             \/ ResetDocumentFails(w)
      PROVE  DocSound'
  <2>1. PICK d : d = exec[w].to
    OBVIOUS
  <2>2. Finish(w) \/ Retry(w)
    BY <1>5 DEF CommitProposal, FailProposal, CommitDocument, ResetDocument, ResetDocumentFails
  <2>3. /\ exec'[w] = Idle
        /\ \A u \in Workers \ {w} : exec'[u] = exec[u]
        /\ \A n \in Slots : msg'[n].to = msg[n].to \/ msg'[n] = NoMsg
    BY <1>1, <2>2, TaskEndRow
  <2>4. DocRowsKeep
    <3>1. CASE CommitProposal(w) \/ FailProposal(w) \/ ResetDocumentFails(w)
      BY <1>2, <3>1 DEF CommitProposal, FailProposal, ResetDocumentFails
    <3>2. CASE (CommitDocument(w) \/ ResetDocument(w)) /\ d \notin Documents
      BY <1>2, <2>1, <3>2, NoDocEvaluated
    <3>3. ASSUME CommitDocument(w), d \in Documents PROVE DocRowsKeep
      <4>1. DocWritten(d, "EVALUATED", doc[d].version, doc[d].file, exec[w].mem)
        BY <2>1, <3>3, DocTaskWrites
      <4>2. doc[d].file > 0
        BY <2>1, <3>3 DEF DocSound, DocExecSound
      <4>3. DocKept(d) /\ DocRowSound(d)'
        BY <4>1, <4>2 DEF DocWritten, DocRowSound, DocKept
      <4> QED
        BY <4>1, <4>3, DocRowsRest DEF DocWritten
    <3>4. ASSUME ResetDocument(w), d \in Documents PROVE DocRowsKeep
      <4>1. DocWritten(d, "SUBMITTED", doc[d].version, doc[d].file, doc[d].evaluated)
        BY <2>1, <3>4, DocTaskWrites
      <4>2. DocKept(d) /\ DocRowSound(d)'
        BY <4>1 DEF DocWritten, DocRowSound, DocKept, DocEvaluating
      <4> QED
        BY <4>1, <4>2, DocRowsRest DEF DocWritten
    <3> QED
      BY <1>5, <3>1, <3>2, <3>3, <3>4
  <2> QED
    BY <1>3, <2>3, <2>4
<1>6. CASE FailDocument(w)
  <2>1. UNCHANGED <<doc, msg>> /\ \E x : Goto(w, "failed", x)
    BY <1>6 DEF FailDocument
  <2>2. \A u \in Workers : exec'[u].to = exec[u].to
    BY <1>1, <2>1, GotoRow
  <2> QED
    BY <1>2, <1>3, <2>1, <2>2
<1> QED
  BY <1>4, <1>5, <1>6 DEF ResearchTask

\* Whatever overlaps, a step keeps what is sound.
LEMMA DocSoundKeeps ==
    ASSUME NEW V, DocShape(V), DocSound, ResearchNext
    PROVE  DocSound'
<1>1. ASSUME Environment, UNCHANGED doc PROVE DocSound'
  <2>1. BackendShape(V, Papers)
    BY DEF DocShape
  <2>2. DocRowsKeep
    BY <1>1 DEF DocSound, DocRowsKeep, DocKept, DocRowSound
  <2>3. /\ \A q \in Reqs : req'[q] = req[q] \/ req'[q] = NoReq
        /\ \A u \in Workers : exec'[u] = exec[u] \/ exec'[u] = Idle
        /\ \A n \in Slots : \/ msg'[n].to = msg[n].to
                            \/ msg'[n] = NoMsg
                            \/ \E q \in Reqs : req[q].op = "publish" /\ msg'[n].to = req[q].on
    BY <1>1, <2>1, EnvironmentRow
  <2>4. \A u \in Workers : exec'[u].to = exec[u].to \/ exec'[u] = Idle
    BY <2>3
  <2> QED
    BY <2>2, <2>3, <2>4, DocSoundRest
<1> QED
  BY <1>1, DocRequestSound, DocTaskSound DEF ResearchNext

\* The next version is the one after the last.
LEMMA NextVersionNumber ==
    ASSUME NEW n \in Nat, {doc[d].version : d \in Documents} \ {0} = 1..n
    PROVE  NextDocumentVersion = n + 1
<1>1. Cardinality(1..n) = n
  BY FS_Interval
<1> QED
  BY <1>1 DEF NextDocumentVersion

\* Who writes no document and numbers none leaves the versions as they are.
LEMMA NumberedStays ==
    ASSUME DocNumbered, \A d \in Documents : doc'[d].version = doc[d].version,
           \A q \in Reqs : req'[q].op = "submit_document" => req'[q] = req[q]
    PROVE  DocNumbered'
<1>1. PICK n \in Nat : /\ {doc[d].version : d \in Documents} \ {0} = 1..n
                       /\ \A r \in Reqs : req[r].op = "submit_document" => req[r].mem = n + 1
  BY DEF DocNumbered
<1>2. {doc'[d].version : d \in Documents} \ {0} = 1..n
  BY <1>1
<1>3. \A r \in Reqs : req'[r].op = "submit_document" => req'[r].mem = n + 1
  BY <1>1
<1>4. \A d, e \in Documents : d # e => doc'[d].version = 0 \/ doc'[e].version # doc'[d].version
  BY DEF DocNumbered
<1> QED
  BY <1>2, <1>3, <1>4 DEF DocNumbered

\* The document that is submitted has the version after the last one.
LEMMA NumberedGrows ==
    ASSUME DocNumbered, NEW r \in Reqs, req[r].op = "submit_document", NEW d \in Documents,
           doc[d].version = 0, doc'[d].version = req[r].mem,
           \A c \in Documents \ {d} : doc'[c] = doc[c],
           \A q \in Reqs : req'[q].op # "submit_document"
    PROVE  DocNumbered'
<1>1. PICK n \in Nat : /\ {doc[c].version : c \in Documents} \ {0} = 1..n
                       /\ \A q \in Reqs : req[q].op = "submit_document" => req[q].mem = n + 1
  BY DEF DocNumbered
<1>2. doc'[d].version = n + 1 /\ n + 1 \in Nat
  BY <1>1
<1>3. {doc'[c].version : c \in Documents} \ {0} = 1..(n + 1)
  <2>1. ASSUME NEW k \in {doc'[c].version : c \in Documents} \ {0} PROVE k \in 1..(n + 1)
    <3>1. PICK c \in Documents : k = doc'[c].version /\ k # 0
      BY <2>1
    <3>2. CASE c = d
      BY <1>2, <3>1, <3>2
    <3>3. CASE c # d
      <4>1. k \in {doc[b].version : b \in Documents} \ {0}
        BY <3>1, <3>3
      <4>2. k \in 1..n
        BY <1>1, <4>1
      <4> QED
        BY <4>2
    <3> QED
      BY <3>2, <3>3
  <2>2. ASSUME NEW k \in 1..(n + 1) PROVE k \in {doc'[c].version : c \in Documents} \ {0}
    <3>1. CASE k = n + 1
      BY <1>2, <3>1
    <3>2. CASE k # n + 1
      <4>1. k \in 1..n
        BY <2>2, <3>2
      <4>2. PICK c \in Documents : k = doc[c].version /\ k # 0
        BY <1>1, <4>1
      <4>3. c # d
        BY <4>2
      <4> QED
        BY <4>2, <4>3
    <3> QED
      BY <3>1, <3>2
  <2> QED
    BY <2>1, <2>2
<1>4. \A c \in Documents : doc[c].version # n + 1
  <2>1. \A c \in Documents : doc[c].version # 0 => doc[c].version \in 1..n
    BY <1>1
  <2> QED
    BY <2>1
<1>5. \A c, e \in Documents : c # e => doc'[c].version = 0 \/ doc'[e].version # doc'[c].version
  BY <1>2, <1>4 DEF DocNumbered
<1> QED
  BY <1>2, <1>3, <1>5 DEF DocNumbered

\* Requests keep what their checks found, and what a worker has read: a file
\* that takes the place of another is remembered.
LEMMA DocRequestKeeps ==
    ASSUME NEW V, DocShape(V), DocSound, DocHolds, NEW r \in Reqs, ResearchRequest(r), UNCHANGED queue, ~raced'
    PROVE  DocHolds'
<1>1. /\ doc \in [Documents -> DocRow(V)] /\ BackendShape(V, Papers) /\ None \notin Documents
      /\ UNCHANGED <<msg, exec, again>> /\ DocNumbered
  BY ResearchNames DEF DocShape, DocHolds, queue
<1>2. refiled \subseteq refiled'
  <2>1. ASSUME \/ Propose(r) \/ Decide(r) \/ SubmitDocument(r)
               \/ \E d \in Documents : SetFile(r, d) \/ ReviewDocument(r, d)
        PROVE  refiled' = refiled
    BY <2>1, DocChecks
  <2> QED
    BY <2>1
    DEF ResearchRequest, WriteProposal, WriteDecision, WriteDocument, WriteFile, QueueEvaluation,
        WriteDocumentReview
<1>3. PICK E : E = Documents \ refiled'
  OBVIOUS
<1>4. Owned(E) /\ E \subseteq Documents /\ None \notin E /\ \A d \in E \ again : DocGood(d)
  <2>1. PICK D : D = Documents \ refiled
    OBVIOUS
  <2>2. E \subseteq D /\ Owned(D)
    BY <1>2, <1>3, <2>1 DEF DocHolds
  <2>3. Owned(E)
    BY <2>2, OwnedShrinks
  <2> QED
    BY <1>1, <1>2, <1>3, <2>3 DEF DocHolds
<1>5. ASSUME Owned(E)', DocNumbered', \A d \in E \ again : DocGood(d)'
      PROVE  DocHolds'
  BY <1>1, <1>3, <1>5 DEF DocHolds, Owned, Single, Held
<1>6. ASSUME NEW d \in E \ again, doc'[d] = doc[d], Busy(d)' => Busy(d),
             \A q \in Reqs : req'[q].on = d => ~Active(q)' \/ DocStands(req'[q].op, doc[d])
      PROVE  DocGood(d)'
  BY <1>1, <1>4, <1>6, ResearchNames DEF DocGood, DocStands, Active, ResearchOps
\* No document is evaluated but one whose status says so.
<1>7. ASSUME NEW d \in E \ again, doc[d].status # "EVALUATING"
      PROVE  ~Busy(d) /\ \A w \in Workers : exec[w].to # d
  BY <1>1, <1>4, <1>7 DEF DocGood, Owned, Held, Busy, Queued
<1>8. ASSUME NEW d, \A c \in Documents \ {d} : doc'[c] = doc[c],
             Owned(E)', DocNumbered', \A c \in E : Busy(c)' => Busy(c) \/ c = d,
             \A q \in Reqs : ~Active(q)' \/ req'[q].on = d,
             d \in E \ again =>
                /\ doc[d].status # "EVALUATING"
                /\ \A q \in Reqs : ~Active(q)' \/ DocStands(req'[q].op, doc'[d])
                /\ Busy(d)' => doc'[d].status = "EVALUATING"
                /\ doc'[d].status \in {"EVALUATED", "APPROVED"} => doc'[d].evaluated = doc'[d].file
      PROVE  DocHolds'
  <2>1. ASSUME NEW c \in E \ again, c # d PROVE DocGood(c)'
    BY <1>4, <1>6, <1>8, <2>1
  <2>2. ASSUME d \in E \ again PROVE DocGood(d)'
    BY <1>1, <1>7, <1>8, <2>2, ResearchNames DEF DocGood, DocStands, Active, ResearchOps
  <2> QED
    BY <1>5, <1>8, <2>1, <2>2
<1>9. CASE \/ Propose(r) \/ Decide(r) \/ SubmitDocument(r)
           \/ \E e \in Documents : SetFile(r, e) \/ ReviewDocument(r, e)
  <2>1. PICK o \in ResearchOps \ {"queue_evaluation"}, d \in Papers \cup {None}, x \in {None, NextDocumentVersion} :
            /\ Begin(r, o, d, x) /\ UNCHANGED <<doc, refiled>>
            /\ DocStands(o, doc[d])
            /\ o = "set_file" => doc[d].status # "NONE"
            /\ o = "submit_document" => x = NextDocumentVersion
    BY <1>9, DocChecks
  <2>2. o \notin {None, "publish"}
    BY ResearchNames DEF ResearchOps
  <2>3. /\ Quiet(E) /\ req'[r].op = o /\ req'[r].on = d
        /\ \A s \in Reqs : Active(s)' => s = r
    BY <1>1, <1>4, <2>1, <2>2, BeginOwned
  <2>4. ASSUME NEW c \in E \ again PROVE DocGood(c)'
    BY <1>6, <2>1, <2>3, <2>4 DEF Quiet
  <2>5. req'[r].mem = x
    BY <1>1, <2>1, BeginRow
  <2>6. DocNumbered'
    <3>1. PICK n \in Nat : {doc[c].version : c \in Documents} \ {0} = 1..n
      BY <1>1 DEF DocNumbered
    <3>2. NextDocumentVersion = n + 1
      BY <3>1, NextVersionNumber
    <3>3. \A q \in Reqs : req'[q].op = "submit_document" => q = r
      BY <2>3, ResearchNames DEF Active, ResearchOps
    <3>4. \A q \in Reqs : req'[q].op = "submit_document" => req'[q].mem = n + 1
      BY <2>1, <2>3, <2>5, <3>2, <3>3
    <3>5. {doc'[c].version : c \in Documents} \ {0} = 1..n
      BY <2>1, <3>1
    <3> QED
      BY <1>1, <2>1, <3>4, <3>5 DEF DocNumbered
  <2> QED
    BY <1>5, <2>3, <2>4, <2>6 DEF Quiet
<1>10. PICK d \in Papers \cup {None} : d = req[r].on
  BY <1>1 DEF BackendShape
\* A step that ends a request, or goes on with its evaluation, numbers nothing.
<1>11. ASSUME \A q \in Reqs : Active(q)' => req'[q].op # "submit_document",
              \A c \in Documents : doc'[c].version = doc[c].version
       PROVE  DocNumbered'
  <2>1. \A q \in Reqs : req'[q].op # "submit_document"
    BY <1>11, ResearchNames DEF Active, ResearchOps
  <2> QED
    BY <1>1, <1>11, <2>1, NumberedStays
<1>12. CASE WriteProposal(r)
  <2>1. /\ UNCHANGED doc /\ Active(r) /\ EndPublishing(r, Problem, "evaluate_research_proposal")
        /\ Problem \notin E
    BY <1>4, <1>12, ResearchAssumption, ResearchNames DEF WriteProposal, Problem, Active, ResearchOps
  <2>2. /\ Owned(E)' /\ (\A s \in Reqs : ~Active(s)')
        /\ \A e \in E : Busy(e)' => Busy(e) \/ e = Problem
    BY <1>1, <1>4, <2>1, PublishingOwned
  <2>3. DocNumbered'
    BY <1>11, <2>1, <2>2
  <2> QED
    BY <1>8, <2>1, <2>2, <2>3
<1>13. CASE WriteDecision(r)
  <2>1. UNCHANGED doc /\ Active(r) /\ End(r)
    BY <1>13, ResearchNames DEF WriteDecision, Active, ResearchOps
  <2>2. Quiet(E) /\ \A s \in Reqs : ~Active(s)'
    BY <1>1, <1>4, <2>1, EndOwned
  <2>3. DocNumbered'
    BY <1>11, <2>1, <2>2
  <2> QED
    BY <1>4, <1>8, <2>1, <2>2, <2>3 DEF Quiet
\* What a request that goes on finds.
<1>14. ASSUME NEW e \in Papers \cup {None}, QueueNext(r, e), Active(r)
       PROVE  /\ Quiet(E) /\ req'[r].op = "queue_evaluation" /\ req'[r].on = e
              /\ \A s \in Reqs : Active(s)' => s = r
  <2>1. /\ req' = [req EXCEPT ![r].op = "queue_evaluation", ![r].on = e, ![r].mem = None]
        /\ req \in [Reqs -> [op : V, on : Papers \cup {None}, mem : V, task : V]]
    BY <1>1, <1>14 DEF QueueNext, BackendShape
  <2>2. /\ req'[r].op = "queue_evaluation" /\ req'[r].on = e
        /\ \A q \in Reqs \ {r} : req'[q] = req[q]
    BY <2>1
  <2>3. req'[r].op \notin {None, "publish"}
    BY <2>2, ResearchNames DEF ResearchOps
  <2> QED
    BY <1>1, <1>4, <1>14, <2>2, <2>3, ContinueOwned
<1>15. CASE WriteDocument(r)
  <2>1. PICK e \in FreshDocument, f \in {0, 1} :
            /\ DocWritten(e, "SUBMITTED", req[r].mem, f, None)
            /\ \/ f = 0 /\ End(r)
               \/ f = 1 /\ QueueNext(r, e) /\ UNCHANGED <<raced, faults>>
    BY <1>15, DocumentWrites
  <2>2. /\ e \in Documents /\ e \in Papers /\ doc[e].status = "NONE" /\ doc[e].version = 0
        /\ req[r].op = "submit_document" /\ Active(r)
    BY <1>15, ResearchNames DEF FreshDocument, Papers, WriteDocument, DocSound, DocRowSound, Active, ResearchOps
  <2>3. /\ Quiet(E)
        /\ \A q \in Reqs : Active(q)' => req'[q].op = "queue_evaluation" /\ req'[q].on = e
    <3>1. CASE f = 0 /\ End(r)
      BY <1>1, <1>4, <2>2, <3>1, EndOwned
    <3>2. CASE f = 1 /\ QueueNext(r, e)
      BY <1>14, <2>2, <3>2
    <3> QED
      BY <2>1, <3>1, <3>2
  <2>4. \A q \in Reqs : req'[q].op # "submit_document"
    BY <2>3, ResearchNames DEF Active, ResearchOps
  <2>5. DocNumbered'
    BY <1>1, <2>1, <2>2, <2>4, NumberedGrows DEF DocWritten
  <2>6. e \in E \ again => ~Busy(e)'
    BY <1>7, <2>2, <2>3 DEF Quiet
  <2>7. DocStands("queue_evaluation", doc'[e]) /\ doc'[e].status \notin {"EVALUATED", "APPROVED"}
    BY <2>1 DEF DocWritten, DocStands, DocEvaluating
  <2>8. \A c \in Documents \ {e} : doc'[c] = doc[c]
    BY <2>1 DEF DocWritten
  <2>9. /\ \A c \in E : Busy(c)' => Busy(c) \/ c = e
        /\ \A q \in Reqs : ~Active(q)' \/ req'[q].on = e
        /\ \A q \in Reqs : ~Active(q)' \/ DocStands(req'[q].op, doc'[e])
        /\ Owned(E)'
    BY <2>3, <2>7 DEF Quiet
  <2> QED
    BY <1>8, <2>2, <2>5, <2>6, <2>7, <2>8, <2>9
<1>16. CASE (WriteFile(r) \/ QueueEvaluation(r) \/ WriteDocumentReview(r)) /\ d \notin Documents
  <2>1. doc' = doc /\ d \notin E /\ Active(r)
    BY <1>4, <1>10, <1>16, NoDocWritten, ResearchNames
    DEF WriteFile, QueueEvaluation, WriteDocumentReview, Active, ResearchOps
  <2>2. /\ Owned(E)' /\ (\A c \in E : Busy(c)' => Busy(c) \/ c = d)
        /\ \A q \in Reqs : Active(q)' => req'[q].op # "submit_document" /\ req'[q].on = d
    <3>1. CASE WriteFile(r)
      BY <1>10, <1>14, <2>1, <3>1 DEF WriteFile, Quiet
    <3>2. CASE QueueEvaluation(r)
      <4>1. EndPublishing(r, d, "evaluate_research_document")
        BY <1>10, <3>2 DEF QueueEvaluation
      <4> QED
        BY <1>1, <1>4, <2>1, <4>1, PublishingOwned
    <3>3. CASE WriteDocumentReview(r)
      <4>1. End(r)
        BY <3>3 DEF WriteDocumentReview
      <4> QED
        BY <1>1, <1>4, <2>1, <4>1, EndOwned DEF Quiet
    <3> QED
      BY <1>16, <3>1, <3>2, <3>3
  <2>3. DocNumbered'
    BY <1>11, <2>1, <2>2
  <2> QED
    BY <1>8, <2>1, <2>2, <2>3
<1>17. ASSUME d \in E \ again PROVE DocStands(req[r].op, doc[d])
  BY <1>4, <1>10, <1>17 DEF DocGood
<1>18. ASSUME d \in Documents, WriteFile(r) PROVE DocHolds'
  <2>1. DocWritten(d, doc[d].status, doc[d].version, doc[d].file + 1, doc[d].evaluated) /\ QueueNext(r, d) /\ Active(r)
    BY <1>10, <1>18, DocWrites, ResearchNames DEF WriteFile, Active, ResearchOps
  <2>2. /\ doc'[d].status = doc[d].status /\ doc'[d].version = doc[d].version
        /\ \A c \in Documents \ {d} : doc'[c] = doc[c]
    BY <2>1 DEF DocWritten
  \* Its first file: nothing was evaluated yet.
  <2>3. d \in E => doc[d].status \notin DocEvaluating
    <3>1. d \in E => doc[d].file = 0
      BY <1>3, <1>10, <1>18 DEF WriteFile
    <3>2. DocRowSound(d)
      BY <1>18 DEF DocSound
    <3> QED
      BY <3>1, <3>2 DEF DocRowSound
  <2>4. /\ Quiet(E) /\ req'[r].op = "queue_evaluation" /\ req'[r].on = d
        /\ \A s \in Reqs : Active(s)' => s = r
    BY <1>14, <2>1
  <2>5. DocNumbered'
    BY <1>11, <2>2, <2>4
  <2>6. d \in E => doc[d].status \notin {"EVALUATING", "EVALUATED", "APPROVED"} /\ DocStands("queue_evaluation", doc'[d])
    BY <2>2, <2>3 DEF DocEvaluating, DocStands
  <2>7. d \in E \ again => ~Busy(d)'
    BY <1>7, <2>4, <2>6 DEF Quiet
  <2> QED
    BY <1>8, <2>2, <2>4, <2>5, <2>6, <2>7 DEF Quiet
<1>19. ASSUME d \in Documents, QueueEvaluation(r) PROVE DocHolds'
  <2>1. DocWritten(d, "EVALUATING", doc[d].version, doc[d].file, doc[d].evaluated)
    BY <1>10, <1>19, DocWrites
  <2>2. /\ Active(r) /\ EndPublishing(r, d, "evaluate_research_document")
        /\ d \in E \ again => doc[d].status \notin DocEvaluating
    BY <1>10, <1>17, <1>19, ResearchNames DEF QueueEvaluation, Active, ResearchOps, DocStands
  <2>3. d \in E \ again => ~Busy(d) /\ doc[d].status # "EVALUATING"
    BY <1>7, <2>2 DEF DocEvaluating
  <2>4. /\ Owned(E)' /\ (\A s \in Reqs : ~Active(s)')
        /\ \A e \in E : Busy(e)' => Busy(e) \/ e = d
    BY <1>1, <1>4, <2>2, <2>3, PublishingOwned
  <2>5. /\ doc'[d].status = "EVALUATING" /\ doc'[d].version = doc[d].version
        /\ \A c \in Documents \ {d} : doc'[c] = doc[c]
    BY <2>1 DEF DocWritten
  <2>6. DocNumbered'
    BY <1>11, <2>4, <2>5
  <2> QED
    BY <1>8, <2>3, <2>4, <2>5, <2>6
<1>20. ASSUME d \in Documents, WriteDocumentReview(r) PROVE DocHolds'
  <2>1. PICK s \in {"APPROVED", "REVISION_REQUESTED"} :
            DocWritten(d, s, doc[d].version, doc[d].file, doc[d].evaluated)
    BY <1>10, <1>20, DocWrites
  <2>2. /\ Active(r) /\ End(r)
        /\ d \in E \ again => doc[d].status = "EVALUATED"
    BY <1>10, <1>17, <1>20, ResearchNames DEF WriteDocumentReview, Active, ResearchOps, DocStands
  <2>3. Quiet(E) /\ \A q \in Reqs : ~Active(q)'
    BY <1>1, <1>4, <2>2, EndOwned
  <2>4. d \in E \ again => doc[d].status # "EVALUATING" /\ ~Busy(d)' /\ doc[d].evaluated = doc[d].file
    BY <1>4, <1>7, <2>2, <2>3 DEF Quiet, DocGood
  <2>5. /\ doc'[d].evaluated = doc[d].evaluated /\ doc'[d].file = doc[d].file /\ doc'[d].version = doc[d].version
        /\ \A c \in Documents \ {d} : doc'[c] = doc[c]
    BY <2>1 DEF DocWritten
  <2>6. DocNumbered'
    BY <1>11, <2>3, <2>5
  <2> QED
    BY <1>8, <2>3, <2>4, <2>5, <2>6 DEF Quiet
<1> QED
  BY <1>9, <1>12, <1>13, <1>15, <1>16, <1>18, <1>19, <1>20 DEF ResearchRequest

\* A worker writes the evaluation of the file it has read, and only of a document
\* that is being evaluated,
LEMMA DocTaskKeeps ==
    ASSUME NEW V, DocShape(V), DocHolds, NEW w \in Workers, ResearchTask(w), UNCHANGED <<req, raced>>
    PROVE  DocHolds'
<1>1. /\ doc \in [Documents -> DocRow(V)] /\ BackendShape(V, Papers) /\ None \notin Documents
      /\ UNCHANGED <<req, refiled>> /\ DocNumbered
  BY ResearchNames
  DEF DocShape, DocHolds, ResearchTask, StartProposal, StartDocument, CommitProposal, FailProposal,
      CommitDocument, FailDocument, ResetDocument, ResetDocumentFails
<1>2. PICK E : E = Documents \ refiled
  OBVIOUS
<1>3. /\ Owned(E) /\ E \subseteq Documents /\ None \notin E /\ \A d \in E \ again : DocGood(d)
      /\ E = Documents \ refiled'
  BY <1>1, <1>2 DEF DocHolds
<1>4. ASSUME Quiet(E), again \subseteq again', \A d \in E \ again' : DocGood(d)',
             \A c \in Documents : doc'[c].version = doc[c].version
      PROVE  DocHolds'
  <2>1. DocNumbered'
    BY <1>1, <1>4, NumberedStays
  <2> QED
    BY <1>3, <1>4, <2>1 DEF DocHolds, Quiet, Owned, Single, Held
\* A row that says it is evaluated, or that is as it was, is as good as before.
<1>5. ASSUME NEW d \in E, d \notin again,
             \/ doc'[d] = doc[d] \/ doc[d].status = "EVALUATING",
             Busy(d)' => Busy(d) /\ doc'[d].status = doc[d].status,
             \A u \in Workers : exec'[u].to = d /\ exec'[u].task = "evaluate_research_document" =>
                 exec'[u].mem = doc'[d].file,
             doc'[d] = doc[d] \/ (doc'[d].status \in {"EVALUATED", "APPROVED"} => doc'[d].evaluated = doc'[d].file)
      PROVE  DocGood(d)'
  <2>1. CASE doc'[d] = doc[d]
    BY <1>1, <1>3, <1>5, <2>1 DEF DocGood
  <2>2. CASE doc'[d] # doc[d]
    <3>1. DocGood(d) /\ doc[d].status = "EVALUATING"
      BY <1>3, <1>5, <2>2
    <3>2. \A q \in Reqs : req[q].on = d => req[q].op \notin {"queue_evaluation", "review_document"}
      BY <3>1 DEF DocGood, DocStands, DocEvaluating
    <3>3. \A q \in Reqs : req'[q].on = d => DocStands(req'[q].op, doc'[d])
      BY <1>1, <3>2 DEF DocStands
    <3> QED
      BY <1>5, <2>2, <3>1, <3>3 DEF DocGood
  <2> QED
    BY <2>1, <2>2
<1>6. ASSUME NEW d \in E, d \notin again, doc'[d] = doc[d], Busy(d)' => Busy(d),
             \A u \in Workers : exec'[u].to = d /\ exec'[u].task = "evaluate_research_document" =>
                 exec[u].to = d /\ exec[u].task = "evaluate_research_document" /\ exec'[u].mem = exec[u].mem
      PROVE  DocGood(d)'
  <2>1. \A u \in Workers : exec'[u].to = d /\ exec'[u].task = "evaluate_research_document" =>
            exec'[u].mem = doc'[d].file
    BY <1>3, <1>6 DEF DocGood
  <2> QED
    BY <1>5, <1>6, <2>1
<1>7. ASSUME NEW m \in Slots, StartProposal(w, m) PROVE DocHolds'
  <2>1. Take(w, m, "evaluate_research_proposal", "running", None) /\ UNCHANGED <<doc, again>>
    BY <1>7 DEF StartProposal
  <2>2. /\ exec'[w].task = "evaluate_research_proposal"
        /\ \A u \in Workers \ {w} : exec'[u] = exec[u]
    BY <1>1, <2>1, TakeRow
  <2>3. Quiet(E)
    BY <1>1, <1>3, <2>1, TaskOwned
  <2>4. ASSUME NEW d \in E, d \notin again PROVE DocGood(d)'
    BY <1>6, <2>1, <2>2, <2>3, <2>4 DEF Quiet
  <2> QED
    BY <1>4, <2>1, <2>3, <2>4
<1>8. ASSUME NEW m \in Slots, StartDocument(w, m) PROVE DocHolds'
  <2>1. PICK d, f : /\ d = msg[m].to /\ f = doc[d].file
                    /\ Take(w, m, "evaluate_research_document", "running", f)
    BY <1>8 DEF StartDocument
  <2>2. /\ exec'[w].to = d /\ exec'[w].mem = f
        /\ \A u \in Workers \ {w} : exec'[u] = exec[u]
    BY <1>1, <2>1, TakeRow
  <2>3. Quiet(E) /\ UNCHANGED again
    BY <1>1, <1>3, <1>8, <2>1, TaskOwned DEF StartDocument
  <2>4. /\ \A c \in Documents \ {d} : doc'[c] = doc[c]
        /\ d \in Documents => /\ doc'[d].file = doc[d].file /\ doc'[d].version = doc[d].version
                              /\ doc'[d].status = "EVALUATING"
                              /\ doc'[d].evaluated = doc[d].evaluated
    <3>1. d \notin Documents => doc' = doc
      BY <1>8, <2>1, NoDocEvaluated
    <3>2. ASSUME d \in Documents
          PROVE  DocWritten(d, "EVALUATING", doc[d].version, doc[d].file, doc[d].evaluated)
      BY <1>8, <2>1, <3>2, DocTaskWrites
    <3> QED
      BY <3>1, <3>2 DEF DocWritten
  <2>5. ASSUME NEW c \in E, c \notin again, c # d PROVE DocGood(c)'
    <3>1. Busy(c)' => Busy(c)
      BY <2>3, <2>5 DEF Quiet
    <3>2. \A u \in Workers : exec'[u].to = c => exec'[u] = exec[u]
      BY <2>2, <2>5
    <3> QED
      BY <1>3, <1>6, <2>4, <2>5, <3>1, <3>2
  <2>6. ASSUME d \in E, d \notin again PROVE DocGood(d)'
    <3>1. Busy(d) /\ DocGood(d)
      BY <1>3, <2>1, <2>6 DEF Take, Busy, Queued
    <3>2. doc[d].status = "EVALUATING"
      BY <3>1 DEF DocGood
    <3>3. \A u \in Workers : exec'[u].to = d /\ exec'[u].task = "evaluate_research_document" =>
              exec'[u].mem = doc'[d].file
      BY <1>3, <2>1, <2>2, <2>4, <2>6, <3>1 DEF DocGood
    <3> QED
      BY <1>3, <1>5, <2>4, <2>6, <3>1, <3>2, <3>3
  <2> QED
    BY <1>4, <2>3, <2>4, <2>5, <2>6
<1>9. ASSUME FailDocument(w) PROVE DocHolds'
  <2>1. Goto(w, "failed", exec[w].mem) /\ UNCHANGED <<doc, msg, again>>
    BY <1>9 DEF FailDocument
  <2>2. PICK x : x = exec[w].mem
    OBVIOUS
  <2>3. /\ exec'[w].to = exec[w].to /\ exec'[w].task = exec[w].task /\ exec'[w].mem = exec[w].mem
        /\ \A u \in Workers \ {w} : exec'[u] = exec[u]
    BY <1>1, <2>1, <2>2, GotoRow
  <2>4. Quiet(E)
    BY <1>1, <1>3, <2>1, TaskOwned
  <2>5. ASSUME NEW d \in E, d \notin again PROVE DocGood(d)'
    BY <1>6, <2>1, <2>3, <2>4, <2>5 DEF Quiet
  <2> QED
    BY <1>4, <2>1, <2>4, <2>5
<1>10. ASSUME CommitProposal(w) \/ FailProposal(w) \/ CommitDocument(w) \/ ResetDocument(w) \/ ResetDocumentFails(w)
       PROVE  DocHolds'
  <2>1. PICK d : d = exec[w].to
    OBVIOUS
  <2>2. Finish(w) \/ Retry(w)
    BY <1>10 DEF CommitProposal, FailProposal, CommitDocument, ResetDocument, ResetDocumentFails
  <2>3. /\ exec'[w] = Idle
        /\ \A u \in Workers \ {w} : exec'[u] = exec[u]
    BY <1>1, <2>2, TaskEndRow
  <2>4. /\ Quiet(E)
        /\ again \subseteq again' /\ again' \subseteq again \cup {d}
        /\ d \in E \ again' => Busy(d) /\ ~Busy(d)'
    BY <1>1, <1>3, <2>1, <2>2, TaskEndOwned
  <2>5. \A c \in E, u \in Workers : exec'[u].to = c => exec'[u] = exec[u]
    BY <1>3, <2>3 DEF Idle
  <2>6. \/ doc' = doc
        \/ /\ d \in Documents /\ CommitDocument(w)
           /\ DocWritten(d, "EVALUATED", doc[d].version, doc[d].file, exec[w].mem)
        \/ /\ d \in Documents /\ ResetDocument(w)
           /\ DocWritten(d, "SUBMITTED", doc[d].version, doc[d].file, doc[d].evaluated)
    <3>1. CommitProposal(w) \/ FailProposal(w) \/ ResetDocumentFails(w) => doc' = doc
      BY DEF CommitProposal, FailProposal, ResetDocumentFails
    <3>2. (CommitDocument(w) \/ ResetDocument(w)) /\ d \notin Documents => doc' = doc
      BY <1>10, <2>1, NoDocEvaluated
    <3> QED
      BY <1>10, <2>1, <3>1, <3>2, DocTaskWrites
  <2>7. /\ \A c \in Documents \ {d} : doc'[c] = doc[c]
        /\ \A c \in Documents : doc'[c].version = doc[c].version /\ doc'[c].file = doc[c].file
    BY <2>6 DEF DocWritten
  <2>8. ASSUME NEW c \in E, c \notin again, c # d PROVE DocGood(c)'
    BY <1>3, <1>6, <2>4, <2>5, <2>7, <2>8 DEF Quiet
  <2>9. ASSUME d \in E \ again' PROVE DocGood(d)'
    <3>1. DocGood(d) /\ Busy(d) /\ ~Busy(d)' /\ d \notin again
      BY <1>3, <2>4, <2>9
    <3>2. doc[d].status = "EVALUATING"
      BY <3>1 DEF DocGood
    <3>3. \A u \in Workers : exec'[u].to = d /\ exec'[u].task = "evaluate_research_document" =>
              exec'[u].mem = doc'[d].file
      BY <1>3, <2>5, <2>7, <2>9, <3>1 DEF DocGood
    <3>4. CommitDocument(w) => exec[w].mem = doc[d].file
      BY <2>1, <3>1 DEF CommitDocument, In, DocGood
    <3>5. doc' = doc \/ (doc'[d].status \in {"EVALUATED", "APPROVED"} => doc'[d].evaluated = doc'[d].file)
      BY <2>6, <3>4 DEF DocWritten
    <3> QED
      BY <1>5, <2>9, <3>1, <3>2, <3>3, <3>5
  <2> QED
    BY <1>4, <2>4, <2>7, <2>8, <2>9
<1> QED
  BY <1>7, <1>8, <1>9, <1>10 DEF ResearchTask

\* and what publishes, fails or is delivered again changes neither.
LEMMA DocEnvironmentKeeps ==
    ASSUME NEW V, DocShape(V), DocHolds, Environment, UNCHANGED <<doc, refiled>>
    PROVE  DocHolds'
<1>1. BackendShape(V, Papers) /\ None \notin Documents
  BY ResearchNames DEF DocShape
<1>2. PICK E : E = Documents \ refiled
  OBVIOUS
<1>3. /\ Owned(E) /\ E \subseteq Documents /\ None \notin E /\ \A d \in E \ again : DocGood(d)
      /\ E = Documents \ refiled'
  BY <1>1, <1>2 DEF DocHolds
<1>4. /\ Quiet(E) /\ again \subseteq again'
      /\ \A q \in Reqs : Active(q)' => Active(q) /\ UNCHANGED req[q]
  BY <1>1, <1>3, EnvironmentOwned
<1>5. \A u \in Workers : exec'[u] = exec[u] \/ exec'[u] = Idle
  BY <1>1, EnvironmentRow
<1>6. ASSUME NEW d \in E, d \notin again PROVE DocGood(d)'
  <2>1. DocGood(d) /\ (Busy(d)' => Busy(d))
    BY <1>3, <1>4, <1>6 DEF Quiet
  <2>2. \A q \in Reqs : req'[q].on = d => DocStands(req'[q].op, doc[d])
    BY <1>4, <2>1, ResearchNames DEF DocGood, DocStands, Active, ResearchOps
  <2>3. \A u \in Workers : exec'[u].to = d => exec'[u] = exec[u]
    BY <1>3, <1>5, <1>6 DEF Idle
  <2> QED
    BY <2>1, <2>2, <2>3 DEF DocGood
<1>7. DocNumbered'
  <2>1. \A q \in Reqs : req'[q].op = "submit_document" => req'[q] = req[q]
    BY <1>4, ResearchNames DEF Active, ResearchOps
  <2> QED
    BY <2>1, NumberedStays DEF DocHolds
<1> QED
  BY <1>3, <1>4, <1>6, <1>7 DEF DocHolds, Quiet, Owned, Single, Held

\* An overlap is remembered.
LEMMA DocRacedStays ==
    ASSUME NEW V, DocShape(V), ResearchNext, raced
    PROVE  raced'
<1>1. ASSUME NEW r \in Reqs, ResearchRequest(r) PROVE raced'
  <2>1. ASSUME NEW o, NEW d, NEW x, Begin(r, o, d, x) PROVE raced'
    BY <2>1 DEF Begin, DocShape, BackendShape
  <2>2. ASSUME End(r) \/ (\E d, t : EndPublishing(r, d, t)) \/ UNCHANGED raced PROVE raced'
    BY <2>2 DEF End, EndPublishing
  <2>3. \/ \E o, d, x : Begin(r, o, d, x)
        \/ End(r) \/ UNCHANGED raced
        \/ \E d, t : EndPublishing(r, d, t)
    BY <1>1, DocChecks
    DEF ResearchRequest, WriteProposal, WriteDecision, WriteDocument, WriteFile, QueueEvaluation,
        WriteDocumentReview
  <2> QED
    BY <2>1, <2>2, <2>3
<1>2. ASSUME Environment PROVE raced'
  BY <1>2 DEF Environment, Publish, End, Abandon, WorkerCrash, ProcessLost, Redeliver
<1> QED
  BY <1>1, <1>2 DEF ResearchNext

\* Nothing has been submitted or is under way at first.
LEMMA DocInitHolds ==
    ASSUME ResearchInit
    PROVE  DocInv
<1>1. PICK V : V = {None, 0, "none", "idle", "NONE"}
  OBVIOUS
<1>2. DocShape(V)
  BY <1>1
  DEF ResearchInit, BackendInit, NoDocument, NoReq, NoMsg, Idle, DocShape, DocRow, BackendShape
<1>3. /\ \A r \in Reqs : req[r].op = None /\ req[r].on = None /\ ~Active(r) /\ \A d \in Documents : ~Asking(r, d)
      /\ \A m \in Slots, d \in Documents : ~Queued(m, d)
      /\ \A m \in Slots : msg[m].to \notin Documents
      /\ \A w \in Workers : exec[w].to \notin Documents
      /\ \A d \in Documents : doc[d].status = "NONE" /\ doc[d].version = 0
  BY ResearchNames DEF ResearchInit, BackendInit, NoDocument, NoReq, NoMsg, Idle, Active, Asking, Queued
<1>4. Owned(Documents \ refiled)
  BY <1>3 DEF Owned, Solo, Single, Held
<1>5. DocSound
  BY <1>3, ResearchNames DEF DocSound, DocRowSound, DocReqSound, DocMsgSound, DocExecSound, DocEvaluating
<1>6. \A d \in Documents : DocGood(d)
  BY <1>3, ResearchNames DEF DocGood, DocStands, ResearchOps, Busy
<1>7. DocNumbered
  <2>1. {doc[d].version : d \in Documents} \ {0} = 1..0
    BY <1>3
  <2>2. \A r \in Reqs : req[r].op # "submit_document"
    BY <1>3, ResearchNames DEF ResearchOps
  <2> QED
    BY <1>3, <2>1, <2>2 DEF DocNumbered
<1> QED
  BY <1>2, <1>4, <1>5, <1>6, <1>7 DEF DocInv, DocHolds

\* The invariant is inductive.
LEMMA DocNextHolds ==
    ASSUME DocInv, [ResearchNext]_researchVars
    PROVE  DocInv'
<1>1. PICK V : DocShape(V)
  BY DEF DocInv
<1>2. CASE UNCHANGED researchVars
  <2>1. UNCHANGED <<doc, refiled, req, msg, exec, again, raced>>
    BY <1>2 DEF researchVars, backend, queue
  <2>2. DocShape(V)'
    BY <1>1, <2>1 DEF DocShape, BackendShape
  <2>3. DocSound'
    BY <2>1 DEF DocInv, DocSound, DocRowSound, DocReqSound, DocMsgSound, DocExecSound
  <2>4. DocHolds => DocHolds'
    BY <2>1 DEF DocHolds, DocNumbered, DocGood, Owned, Solo, Single, Held, Busy, Active, Asking, Queued
  <2> QED
    BY <2>1, <2>2, <2>3, <2>4 DEF DocInv
<1>3. CASE ResearchNext
  <2>1. PICK W : W = V \cup DocWords
    OBVIOUS
  <2>2. DocShape(W)'
    BY <1>1, <1>3, <2>1, DocShapeStep
  <2>3. DocSound'
    BY <1>1, <1>3, DocSoundKeeps DEF DocInv
  <2>4. ASSUME ~raced' PROVE DocHolds'
    <3>1. DocHolds
      BY <1>1, <1>3, <2>4, DocRacedStays DEF DocInv
    <3> QED
      BY <1>1, <1>3, <2>4, <3>1, DocRequestKeeps, DocTaskKeeps, DocEnvironmentKeeps DEF ResearchNext, DocInv
  <2> QED
    BY <2>2, <2>3, <2>4 DEF DocInv
<1> QED
  BY <1>2, <1>3

\* What the guide approved is the evaluation of the file that is there.
LEMMA DocInvEvaluated ==
    ASSUME DocInv
    PROVE  ApprovedFileEvaluated
<1>1. ASSUME NEW d \in Documents, ~raced, d \notin again \cup refiled
      PROVE  /\ doc[d].status = "APPROVED" => doc[d].evaluated = doc[d].file
             /\ doc[d].status \in {"EVALUATED", "APPROVED", "REVISION_REQUESTED"} => doc[d].file > 0
             /\ \A e \in Documents \ {d} : doc[d].version = 0 \/ doc[e].version # doc[d].version
  BY <1>1 DEF DocInv, DocSound, DocRowSound, DocHolds, DocGood, DocNumbered, DocEvaluating
<1> QED
  BY <1>1 DEF ApprovedFileEvaluated

\* What the guide approves is the evaluation of the file that the document holds, and the
\* versions differ, for any number of documents, unless requests overlap, the evaluation
\* repeats or the file is replaced.
THEOREM ApprovedFileEvaluatedAlways == ResearchSpec => []ApprovedFileEvaluated
BY DocInitHolds, DocNextHolds, DocInvEvaluated, PTL DEF ResearchSpec

\* An approved document is written by nobody, unless requests overlap, it is
\* evaluated once more or has been given another file.
LEMMA DocApprovalStands ==
    ASSUME DocInv, [ResearchNext]_researchVars, NEW d \in Documents, doc[d].status = "APPROVED",
           ~raced, d \notin again \cup refiled
    PROVE  doc'[d].status = "APPROVED"
<1>1. PICK V : DocShape(V)
  BY DEF DocInv
<1>2. BackendShape(V, Papers) /\ DocHolds
  BY <1>1 DEF DocShape, DocInv
<1>3. DocGood(d)
  BY <1>2 DEF DocHolds
<1>4. /\ ~Busy(d) /\ (\A m \in Slots : msg[m].at = "queued" => msg[m].to # d)
      /\ \A u \in Workers : exec[u].to # d
  <2>1. PICK E : E = Documents \ refiled
    OBVIOUS
  <2>2. Owned(E) /\ d \in E \ again
    BY <1>2, <2>1 DEF DocHolds
  <2> QED
    BY <1>3, <2>2 DEF DocGood, Owned, Held, Busy, Queued
<1>5. CASE UNCHANGED doc
  BY <1>5
<1>6. ASSUME NEW r \in Reqs, ResearchRequest(r), doc' # doc
      PROVE  doc'[d].status = "APPROVED"
  <2>1. PICK c \in Papers \cup {None} : c = req[r].on
    BY <1>2 DEF BackendShape
  <2>2. CASE WriteDocument(r)
    <3>1. PICK e \in FreshDocument, f \in {0, 1} : DocWritten(e, "SUBMITTED", req[r].mem, f, None)
      BY <1>1, <2>2, DocumentWrites
    <3> QED
      BY <3>1 DEF FreshDocument, DocWritten
  <2>3. CASE WriteFile(r) \/ QueueEvaluation(r) \/ WriteDocumentReview(r)
    <3>1. c \in Documents
      BY <1>1, <1>6, <2>1, <2>3, NoDocWritten
    <3>2. c = d => ~QueueEvaluation(r) /\ ~WriteDocumentReview(r)
      BY <1>3, <2>1 DEF DocGood, DocStands, DocEvaluating, QueueEvaluation, WriteDocumentReview
    <3>3. WriteFile(r) => DocWritten(c, doc[c].status, doc[c].version, doc[c].file + 1, doc[c].evaluated)
      BY <1>1, <2>1, <3>1, DocWrites
    <3>4. QueueEvaluation(r) \/ WriteDocumentReview(r) => \A e \in Documents \ {c} : doc'[e] = doc[e]
      BY <1>1, <2>1, <3>1, DocWrites DEF DocWritten
    <3> QED
      BY <2>3, <3>2, <3>3, <3>4 DEF DocWritten
  <2> QED
    BY <1>6, <2>2, <2>3, DocChecks DEF ResearchRequest, WriteProposal, WriteDecision
<1>7. ASSUME NEW w \in Workers, ResearchTask(w), doc' # doc
      PROVE  doc'[d].status = "APPROVED"
  <2>1. ASSUME NEW m \in Slots, StartDocument(w, m) PROVE doc'[d] = doc[d]
    <3>1. PICK c : c = msg[m].to
      OBVIOUS
    <3>2. c \in Documents /\ c # d
      BY <1>1, <1>4, <1>7, <2>1, <3>1, NoDocEvaluated DEF StartDocument, Take
    <3>3. DocWritten(c, "EVALUATING", doc[c].version, doc[c].file, doc[c].evaluated)
      BY <1>1, <2>1, <3>1, <3>2, DocTaskWrites
    <3> QED
      BY <3>2, <3>3 DEF DocWritten
  <2>2. ASSUME CommitDocument(w) \/ ResetDocument(w) PROVE doc'[d] = doc[d]
    <3>1. PICK c : c = exec[w].to
      OBVIOUS
    <3>2. c \in Documents /\ c # d
      BY <1>1, <1>4, <1>7, <2>2, <3>1, NoDocEvaluated
    <3>3. \A e \in Documents \ {c} : doc'[e] = doc[e]
      BY <1>1, <2>2, <3>1, <3>2, DocTaskWrites DEF DocWritten
    <3> QED
      BY <3>2, <3>3
  <2> QED
    BY <1>7, <2>1, <2>2
    DEF ResearchTask, StartProposal, CommitProposal, FailProposal, FailDocument, ResetDocumentFails
<1> QED
  BY <1>5, <1>6, <1>7 DEF ResearchNext, researchVars

\* No request and no task takes an approval back, with the same exceptions.
THEOREM ApprovalStandsAlways == ResearchSpec => ApprovalStands
<1>1. DocInv /\ [ResearchNext]_researchVars => DocInv'
  BY DocNextHolds
<1>2. DocInv /\ [ResearchNext]_researchVars =>
        [\A d \in Documents :
          doc[d].status = "APPROVED" =>
              doc'[d].status = "APPROVED" \/ raced \/ d \in again \cup refiled]_researchVars
  BY DocApprovalStands
<1> QED
  BY <1>1, <1>2, DocInitHolds, PTL DEF ResearchSpec, ApprovalStands

----------------------------------------------------------------------------
(* Of all the components, in the behaviours of MCCurriculum.                *)

\* The rows of the components that a behaviour is not of.
NoLab == asg = [status |-> "DRAFT", rubric |-> 0, max_marks |-> 0] /\ sub = [s \in Submissions |-> NoSubmission]
NoDocs == doc = [d \in Documents |-> NoDocument]
NoSyllabi == syl = [d \in Syllabi |-> Unused]
NoVivas == viva = [v \in Vivas |-> NoViva]

\* The component that a behaviour is of keeps its invariant, the others their rows.
HumanWorkInv ==
    /\ IF component = "syllabus" THEN VersionsInv ELSE NoSyllabi
    /\ IF component = "lab" THEN LabInv ELSE NoLab
    /\ IF component = "research" THEN DocInv ELSE NoDocs
    /\ IF component = "viva" THEN VivaInv ELSE NoVivas

\* A step is one of the component that the behaviour is of.
LEMMA ComponentStep ==
    ASSUME [Next]_curriculum
    PROVE  /\ UNCHANGED component
           /\ component = "syllabus" => [SyllabusNext]_sylVars
           /\ component = "lab" => [LabNext]_labVars
           /\ component = "research" => [ResearchNext]_researchVars
           /\ component = "viva" => [VivaNext]_vivaVars
           /\ component # "syllabus" => UNCHANGED syl
           /\ component # "lab" => UNCHANGED <<asg, sub>>
           /\ component # "research" => UNCHANGED <<problem, doc, refiled>>
           /\ component # "viva" => UNCHANGED <<viva, reopened>>
<1>1. CASE UNCHANGED curriculum
  BY <1>1 DEF curriculum, sylVars, labVars, researchVars, vivaVars, lab, research, vivas
<1>2. CASE Next
  BY <1>2 DEF Next, lab, research, vivas
<1> QED
  BY <1>1, <1>2

\* It is an invariant.
LEMMA HumanWorkInitHolds ==
    ASSUME Init
    PROVE  HumanWorkInv
<1>1. SyllabusInit /\ LabInit /\ ResearchInit /\ VivaInit
  BY DEF Init
<1>2. NoSyllabi /\ NoLab /\ NoDocs /\ NoVivas
  BY <1>1 DEF SyllabusInit, LabInit, ResearchInit, VivaInit, NoSyllabi, NoLab, NoDocs, NoVivas
<1> QED
  BY <1>1, <1>2, VersionsInitHolds, LabInitHolds, DocInitHolds, VivaInitHolds DEF HumanWorkInv

LEMMA HumanWorkNextHolds ==
    ASSUME HumanWorkInv, [Next]_curriculum
    PROVE  HumanWorkInv'
<1>1. IF component' = "lab" THEN LabInv' ELSE NoLab'
  BY ComponentStep, LabNextHolds DEF HumanWorkInv, NoLab
<1>2. IF component' = "research" THEN DocInv' ELSE NoDocs'
  BY ComponentStep, DocNextHolds DEF HumanWorkInv, NoDocs
<1>3. IF component' = "viva" THEN VivaInv' ELSE NoVivas'
  BY ComponentStep, VivaNextHolds DEF HumanWorkInv, NoVivas
<1>4. IF component' = "syllabus" THEN VersionsInv' ELSE NoSyllabi'
  BY ComponentStep, VersionsNextHolds DEF HumanWorkInv, NoSyllabi
<1> QED
  BY <1>1, <1>2, <1>3, <1>4 DEF HumanWorkInv

\* Rows that are not there say nothing wrong.
LEMMA NothingDecided ==
    /\ NoLab => GradesAgree
    /\ NoDocs => ApprovedFileEvaluated
    /\ NoVivas => VivaJudgedWhole
<1>1. ASSUME NoLab PROVE GradesAgree
  <2>1. /\ asg.status = "DRAFT"
        /\ \A s \in Submissions : sub[s].status = "NONE" /\ sub[s].ledger = None /\ sub[s].student = None
    BY <1>1 DEF NoLab, NoSubmission
  <2> QED
    BY <2>1 DEF GradesAgree
<1>2. ASSUME NoDocs PROVE ApprovedFileEvaluated
  <2>1. \A d \in Documents : doc[d].status = "NONE" /\ doc[d].version = 0
    BY <1>2 DEF NoDocs, NoDocument
  <2> QED
    BY <2>1 DEF ApprovedFileEvaluated
<1>3. ASSUME NoVivas PROVE VivaJudgedWhole
  <2>1. \A v \in Vivas : viva[v].status = "NONE" /\ viva[v].video = FALSE /\ viva[v].judged = None /\ viva[v].guide = FALSE
    BY <1>3 DEF NoVivas, NoViva
  <2> QED
    BY <2>1 DEF VivaJudgedWhole
<1> QED
  BY <1>1, <1>2, <1>3

\* What was decided on is what was evaluated, in every behaviour of the components.
THEOREM DecisionsHoldAlways == Spec => []DecisionsHold
<1>1. HumanWorkInv => DecisionsHold
  BY LabInvAgrees, DocInvEvaluated, VivaInvJudged, NothingDecided DEF HumanWorkInv, DecisionsHold
<1> QED
  BY <1>1, HumanWorkInitHolds, HumanWorkNextHolds, PTL DEF Spec

\* The steps that leave alone what a human did.
EditsKept ==
    \A d \in Syllabi : syl[d].edited /\ syl'[d].status \in Immutable \cup {"DRAFT"} =>
        syl'[d].edited \/ raced \/ d \in again
ApprovalsKept ==
    \A d \in Documents : doc[d].status = "APPROVED" =>
        doc'[d].status = "APPROVED" \/ raced \/ d \in again \cup refiled
RatifiedKept ==
    \A v \in Vivas : viva[v].status = "GUIDE_RATIFIED" =>
        viva'[v].status = "GUIDE_RATIFIED" \/ raced \/ v \in again \cup reopened'

\* All do.
LEMMA HumanWorkKept ==
    ASSUME HumanWorkInv, [Next]_curriculum
    PROVE  EditsKept /\ GradesKept /\ ApprovalsKept /\ RatifiedKept
<1>1. EditsKept
  <2>1. CASE component = "syllabus"
    <3>1. VersionsInv /\ [SyllabusNext]_sylVars
      BY <2>1, ComponentStep DEF HumanWorkInv
    <3>2. CASE UNCHANGED sylVars
      BY <3>2 DEF sylVars, EditsKept
    <3> QED
      BY <3>1, <3>2, SyllabusEditsStay DEF EditsKept
  <2>2. CASE component # "syllabus"
    <3>1. \A d \in Syllabi : syl[d].edited = FALSE
      BY <2>2 DEF HumanWorkInv, NoSyllabi, Unused
    <3> QED
      BY <3>1 DEF EditsKept
  <2> QED
    BY <2>1, <2>2
<1>2. GradesKept
  <2>1. CASE component = "lab"
    BY <2>1, ComponentStep, LabNextHolds DEF HumanWorkInv
  <2>2. CASE component # "lab"
    BY <2>2, ComponentStep DEF GradesKept
  <2> QED
    BY <2>1, <2>2
<1>3. ApprovalsKept
  <2>1. CASE component = "research"
    BY <2>1, ComponentStep, DocApprovalStands DEF HumanWorkInv, ApprovalsKept
  <2>2. CASE component # "research"
    BY <2>2, ComponentStep DEF ApprovalsKept
  <2> QED
    BY <2>1, <2>2
<1>4. RatifiedKept
  <2>1. CASE component = "viva"
    BY <2>1, ComponentStep, VivaRatifiedStays DEF HumanWorkInv, RatifiedKept
  <2>2. CASE component # "viva"
    BY <2>2, ComponentStep DEF RatifiedKept
  <2> QED
    BY <2>1, <2>2
<1> QED
  BY <1>1, <1>2, <1>3, <1>4

\* No task undoes what a human did, in every behaviour of the components.
THEOREM HumanWorkStandsAlways == Spec => HumanWorkStands
<1>1. HumanWorkInv /\ [Next]_curriculum => HumanWorkInv'
  BY HumanWorkNextHolds
<1>2. HumanWorkInv /\ [Next]_curriculum => [EditsKept]_sylVars /\ [GradesKept]_labVars
  BY HumanWorkKept
<1>3. HumanWorkInv /\ [Next]_curriculum => [ApprovalsKept]_researchVars /\ [RatifiedKept]_vivaVars
  BY HumanWorkKept
<1> QED
  BY <1>1, <1>2, <1>3, HumanWorkInitHolds, PTL
  DEF Spec, HumanWorkStands, EditsStay, EditsKept, GradesStand, GradesKept, ApprovalStands, ApprovalsKept,
      RatifiedStays, RatifiedKept

----------------------------------------------------------------------------
(* The history that the exceptions are stated of, and the contracts.       *)

\* No step takes back what its history says.
HistoryGrows == (raced => raced') /\ again \subseteq again'

\* What requests, tasks and failures do to the history.
LEMMA BackendGrows ==
    /\ \A r \in Reqs : \A o, d, x : Begin(r, o, d, x) => (raced => raced')
    /\ \A r \in Reqs : End(r) => (raced => raced')
    /\ \A r \in Reqs : \A d, t : EndPublishing(r, d, t) => (raced => raced')
    /\ \A w \in Workers : Finish(w) \/ Retry(w) => again \subseteq again'
    /\ Environment => HistoryGrows
<1>1. Environment => HistoryGrows
  BY DEF HistoryGrows, Environment, Publish, End, Abandon, WorkerCrash, ProcessLost, Redeliver
<1>2. /\ \A r \in Reqs : \A o, d, x : Begin(r, o, d, x) => (raced => raced')
      /\ \A r \in Reqs : \A d, t : EndPublishing(r, d, t) => (raced => raced')
  BY DEF Begin, EndPublishing
<1> QED
  BY <1>1, <1>2 DEF End, Finish, Retry

\* A step of any component.
LEMMA HistoryKeeps ==
    ASSUME [Next]_curriculum
    PROVE  HistoryGrows
<1>1. ASSUME NEW r \in Reqs, SyllabusRequest(r), UNCHANGED queue PROVE HistoryGrows
  <2>1. raced => raced'
    BY <1>1, BackendGrows
    DEF SyllabusRequest, FacultyRequest, DeanRequest, CreateSyllabus, EditSyllabus, DeleteSyllabus,
        ForkSyllabus, DispatchGeneration, SubmitForReview, ApproveSyllabus, RejectSyllabus,
        LockSyllabus, UnlockSyllabus, WriteSyllabus, WriteEdit, WriteDelete, WriteStatus, WriteDispatch
  <2> QED
    BY <1>1, <2>1 DEF queue, HistoryGrows
<1>2. ASSUME NEW r \in Reqs, KitRequest(r), UNCHANGED queue PROVE HistoryGrows
  <2>1. raced => raced'
    BY <1>2, BackendGrows
    DEF KitRequest, KitCheck, CreateKit, EditKit, DeleteKit, DispatchKit, PublishKit, ArchiveKit, ForkKit,
        WriteKit, WriteKitEdit, WriteKitDelete, WriteKitStatus, WriteKitDispatch
  <2> QED
    BY <1>2, <2>1 DEF queue, HistoryGrows
<1>3. ASSUME NEW r \in Reqs, PackageRequest(r), UNCHANGED queue PROVE HistoryGrows
  <2>1. raced => raced'
    BY <1>3, BackendGrows
    DEF PackageRequest, DispatchCuration, WriteCuration, AddItem, RemoveItem, Reading, WriteAdd, WriteRemove,
        WriteBump, DispatchIndexing, WriteIndexing, BumpSyllabus
  <2> QED
    BY <1>3, <2>1 DEF queue, HistoryGrows
<1>4. ASSUME NEW r \in Reqs, LabRequest(r), UNCHANGED queue PROVE HistoryGrows
  <2>1. raced => raced'
    BY <1>4, BackendGrows
    DEF LabRequest, UpdateAssignment, WriteUpdateAssignment, PublishAssignment, WritePublishAssignment,
        CloseAssignment, WriteCloseAssignment, SubmitLab, OpenReview, UpdateScores, Ratify, WriteSubmission,
        WriteReview, WriteScores, WriteRatify
  <2> QED
    BY <1>4, <2>1 DEF queue, HistoryGrows
<1>5. ASSUME NEW r \in Reqs, ResearchRequest(r), UNCHANGED queue PROVE HistoryGrows
  <2>1. raced => raced'
    BY <1>5, BackendGrows
    DEF ResearchRequest, Propose, WriteProposal, Decide, WriteDecision, SubmitDocument, WriteDocument,
        WriteFile, QueueEvaluation, QueueNext, SetFile, ReviewDocument, WriteDocumentReview
  <2> QED
    BY <1>5, <2>1 DEF queue, HistoryGrows
<1>6. ASSUME NEW r \in Reqs, VivaRequest(r), UNCHANGED queue PROVE HistoryGrows
  <2>1. raced => raced'
    BY <1>6, BackendGrows
    DEF VivaRequest, Schedule, Checked, RecordConsent, SubmitResponse, Complete, Conduct, RatifyViva,
        WriteSchedule, WriteConsent, WriteResponse, WriteComplete, WriteConduct, WriteQueued, WriteRatifyViva,
        QueueProcessing
  <2> QED
    BY <1>6, <2>1 DEF queue, HistoryGrows
<1>7. ASSUME NEW w \in Workers, SyllabusTask(w), UNCHANGED raced PROVE HistoryGrows
  BY <1>7, BackendGrows
  DEF HistoryGrows, SyllabusTask, StartGeneration, CommitGeneration, FailGeneration, ResetSyllabus, ResetFails
<1>8. ASSUME NEW w \in Workers, KitTask(w), UNCHANGED raced PROVE HistoryGrows
  BY <1>8, BackendGrows DEF HistoryGrows, KitTask, StartKit, CommitKit, FailKit, ResetKit, ResetKitFails
<1>9. ASSUME NEW w \in Workers, PackageTask(w), UNCHANGED raced PROVE HistoryGrows
  BY <1>9, BackendGrows
  DEF HistoryGrows, PackageTask, StartCuration, StartIndexing, FailCuration, FailIndexing, CommitCuration,
      CommitIndexing, ResetPackage
<1>10. ASSUME NEW w \in Workers, LabTask(w), UNCHANGED raced PROVE HistoryGrows
  <2>1. ASSUME NEW m \in Slots, StartEvaluation(w, m) PROVE again' = again
    BY <2>1 DEF StartEvaluation
  <2>2. CASE CommitEvaluation(w)
    <3>1. UNCHANGED again
      BY <2>2 DEF CommitEvaluation, Finish
    <3> QED
      BY <1>10, <3>1 DEF HistoryGrows
  <2>3. CASE FailEvaluation(w)
    BY <1>10, <2>3 DEF FailEvaluation, HistoryGrows
  <2>4. CASE ResetSubmission(w) \/ ResetSubmissionFails(w)
    BY <1>10, <2>4, BackendGrows DEF ResetSubmission, ResetSubmissionFails, EndRaised, HistoryGrows
  <2> QED
    BY <1>10, <2>1, <2>2, <2>3, <2>4 DEF LabTask, HistoryGrows
<1>11. ASSUME NEW w \in Workers, ResearchTask(w), UNCHANGED raced PROVE HistoryGrows
  BY <1>11, BackendGrows
  DEF HistoryGrows, ResearchTask, StartProposal, StartDocument, CommitProposal, FailProposal, CommitDocument,
      FailDocument, ResetDocument, ResetDocumentFails
<1>12. ASSUME NEW w \in Workers, VivaTask(w), UNCHANGED raced PROVE HistoryGrows
  BY <1>12, BackendGrows DEF HistoryGrows, VivaTask, StartProcessing, CommitProcessing, FailProcessing
<1>13. ASSUME UNCHANGED <<raced, again>> PROVE HistoryGrows
  BY <1>13 DEF HistoryGrows
<1>14. CASE AskNext
  BY <1>13, <1>14 DEF AskNext, backend, queue
<1>15. CASE UploadsNext \/ ExportsNext
  <2>1. ASSUME NEW r \in Reqs,
               \/ WriteAsset(r) \/ DeleteOnRequest(r) \/ WriteExportJob(r)
               \/ \E u \in Keys : CreateAsset(r, u) \/ DeleteAsset(r, u)
               \/ \E format \in Formats : DispatchExport(r, format)
        PROVE  HistoryGrows
    BY <2>1, BackendGrows
    DEF WriteAsset, DeleteOnRequest, WriteExportJob, CreateAsset, DeleteAsset, DispatchExport, queue, HistoryGrows
  <2>2. ASSUME NEW w \in Workers, ExportTask(w), UNCHANGED raced PROVE HistoryGrows
    BY <2>2, BackendGrows
    DEF HistoryGrows, ExportTask, PutExport, RefuseExport, CommitExport, FailExport, OnSuccess, OnRetry, OnFailure
  <2>3. ASSUME NEW w \in Workers, NEW m \in Slots, BeforeStart(w, m) PROVE HistoryGrows
    BY <2>3 DEF HistoryGrows, BeforeStart
  <2>4. ASSUME \/ \E u \in Uploads : GenerateUploadUrl(u) \/ PutUpload(u)
               \/ DocumentChanges \/ Sweep
        PROVE  HistoryGrows
    BY <1>13, <2>4 DEF GenerateUploadUrl, PutUpload, DocumentChanges, Sweep, SweepSelect, SweepCommit, backend, queue
  <2>5. \A u : u \in Uploads \/ u \in ExportKeys => u \in Keys
    BY DEF Keys
  <2> QED
    BY <1>15, <2>1, <2>2, <2>3, <2>4, <2>5, BackendGrows DEF UploadsNext, ExportsNext
<1>16. CASE UNCHANGED curriculum
  BY <1>13, <1>16 DEF curriculum, backend, queue
<1>17. CASE Next
  BY <1>1, <1>2, <1>3, <1>4, <1>5, <1>6, <1>7, <1>8, <1>9, <1>10, <1>11, <1>12, <1>14, <1>15, <1>17, BackendGrows
  DEF Next, SyllabusNext, KitNext, PackageNext, LabNext, ResearchNext, VivaNext
<1> QED
  BY <1>16, <1>17

\* The components that follow DocumentContract keep their invariants.
DocumentsInv ==
    /\ component = "syllabus" => SyllabusInv
    /\ component = "kit" => KitInv
    /\ component = "package" => PackageInv

\* A step is one of theirs or leaves their rows alone.
LEMMA DocumentStep ==
    ASSUME [Next]_curriculum
    PROVE  /\ UNCHANGED component
           /\ component = "syllabus" => [SyllabusNext]_sylVars
           /\ component = "kit" => [KitNext]_kitVars
           /\ component = "package" => [PackageNext]_pkgVars
           /\ component # "syllabus" => UNCHANGED syl
           /\ component # "kit" => UNCHANGED kit
           /\ component # "package" => UNCHANGED pkg
<1>1. CASE UNCHANGED curriculum
  BY <1>1 DEF curriculum, sylVars, kitVars, pkgVars, package
<1>2. CASE Next
  BY <1>2 DEF Next, package
<1> QED
  BY <1>1, <1>2

\* It is an invariant.
LEMMA DocumentsInitHolds ==
    ASSUME Init
    PROVE  DocumentsInv
BY SyllabusInitHolds, KitInitHolds, PackageInitHolds DEF Init, DocumentsInv

LEMMA DocumentsNextHolds ==
    ASSUME DocumentsInv, [Next]_curriculum
    PROVE  DocumentsInv'
BY DocumentStep, SyllabusNextHolds, KitNextHolds, PackageNextHolds DEF DocumentsInv

\* Documents whose rows rest keep their stage, or their promise is void.
LEMMA SyllabiRest ==
    ASSUME UNCHANGED syl, HistoryGrows
    PROVE  SyllabusContract!ContractNext
<1> DEFINE S == [d \in Syllabi |-> SyllabusStage(d)]
<1>1. \A d \in Syllabi : SyllabusStage(d)' \in {SyllabusStage(d), "open"}
  BY DEF HistoryGrows, SyllabusStage, Exists
<1>2. PICK D \in SUBSET Syllabi : D = {d \in Syllabi : SyllabusStage(d)' = "open"}
  OBVIOUS
<1>3. \A d \in Syllabi : SyllabusStage(d)' = IF d \in D THEN "open" ELSE SyllabusStage(d)
  BY <1>1, <1>2
<1>4. S' = [d \in Syllabi |-> IF d \in D THEN "open" ELSE S[d]]
  BY <1>3
<1> QED
  BY <1>4 DEF SyllabusContract!ContractNext, SyllabusContract!Void

\* The same of kits,
LEMMA KitsRest ==
    ASSUME UNCHANGED kit, HistoryGrows
    PROVE  KitContract!ContractNext
<1> DEFINE S == [k \in Kits |-> KitStage(k)]
<1>1. \A k \in Kits : KitStage(k)' \in {KitStage(k), "open"}
  BY DEF HistoryGrows, KitStage, KitExists
<1>2. PICK D \in SUBSET Kits : D = {k \in Kits : KitStage(k)' = "open"}
  OBVIOUS
<1>3. \A k \in Kits : KitStage(k)' = IF k \in D THEN "open" ELSE KitStage(k)
  BY <1>1, <1>2
<1>4. S' = [k \in Kits |-> IF k \in D THEN "open" ELSE S[k]]
  BY <1>3
<1> QED
  BY <1>4 DEF KitContract!ContractNext, KitContract!Void

\* and of packages.
LEMMA PackagesRest ==
    ASSUME UNCHANGED pkg, HistoryGrows
    PROVE  PackageContract!ContractNext
<1> DEFINE S == [p \in Packages |-> PackageStage(p)]
<1>1. \A p \in Packages : PackageStage(p)' \in {PackageStage(p), "open"}
  BY DEF HistoryGrows, PackageStage
<1>2. PICK D \in SUBSET Packages : D = {p \in Packages : PackageStage(p)' = "open"}
  OBVIOUS
<1>3. \A p \in Packages : PackageStage(p)' = IF p \in D THEN "open" ELSE PackageStage(p)
  BY <1>1, <1>2
<1>4. S' = [p \in Packages |-> IF p \in D THEN "open" ELSE S[p]]
  BY <1>3
<1> QED
  BY <1>4 DEF PackageContract!ContractNext, PackageContract!Void

\* Syllabi, kits and packages implement DocumentContract, in every behaviour of the
\* components.
THEOREM KeepContractsAlways == Spec => KeepContracts
<1>1. Init => SyllabusContract!ContractInit /\ KitContract!ContractInit /\ PackageContract!ContractInit
  <2>1. SyllabusInit => SyllabusContract!ContractInit
    BY DEF SyllabusInit, BackendInit, Unused, SyllabusStage, Exists, SyllabusStatus, SyllabusContract!ContractInit
  <2>2. KitInit => KitContract!ContractInit
    BY DEF KitInit, BackendInit, UnusedKit, KitStage, KitExists, CourseKitStatus, KitContract!ContractInit
  <2>3. PackageInit => PackageContract!ContractInit
    BY DEF PackageInit, BackendInit, NoPackage, PackageStage, PackageContract!ContractInit
  <2> QED
    BY <2>1, <2>2, <2>3 DEF Init
<1>2. DocumentsInv /\ [Next]_curriculum
          => [SyllabusContract!ContractNext]_([d \in Syllabi |-> SyllabusStage(d)])
  <2> SUFFICES ASSUME DocumentsInv, [Next]_curriculum
               PROVE  [SyllabusContract!ContractNext]_([d \in Syllabi |-> SyllabusStage(d)])
    OBVIOUS
  <2>1. CASE component = "syllabus"
    <3>1. SyllabusInv /\ [SyllabusNext]_sylVars
      BY <2>1, DocumentStep DEF DocumentsInv
    <3> QED
      BY <3>1, SyllabusStepImplements DEF sylVars, backend, queue, SyllabusStage, Exists
  <2>2. CASE component # "syllabus"
    BY <2>2, DocumentStep, HistoryKeeps, SyllabiRest
  <2> QED
    BY <2>1, <2>2
<1>3. DocumentsInv /\ [Next]_curriculum => [KitContract!ContractNext]_([d \in Kits |-> KitStage(d)])
  <2> SUFFICES ASSUME DocumentsInv, [Next]_curriculum
               PROVE  [KitContract!ContractNext]_([d \in Kits |-> KitStage(d)])
    OBVIOUS
  <2>1. CASE component = "kit"
    <3>1. KitInv /\ [KitNext]_kitVars
      BY <2>1, DocumentStep DEF DocumentsInv
    <3> QED
      BY <3>1, KitStepImplements DEF kitVars, backend, queue, KitStage, KitExists
  <2>2. CASE component # "kit"
    BY <2>2, DocumentStep, HistoryKeeps, KitsRest
  <2> QED
    BY <2>1, <2>2
<1>4. DocumentsInv /\ [Next]_curriculum
          => [PackageContract!ContractNext]_([p \in Packages |-> PackageStage(p)])
  <2> SUFFICES ASSUME DocumentsInv, [Next]_curriculum
               PROVE  [PackageContract!ContractNext]_([p \in Packages |-> PackageStage(p)])
    OBVIOUS
  <2>1. CASE component = "package"
    <3>1. PackageInv /\ [PackageNext]_pkgVars
      BY <2>1, DocumentStep DEF DocumentsInv
    <3> QED
      BY <3>1, PackageStepImplements DEF pkgVars, backend, queue, PackageStage
  <2>2. CASE component # "package"
    BY <2>2, DocumentStep, HistoryKeeps, PackagesRest
  <2> QED
    BY <2>1, <2>2
<1>5. DocumentsInv /\ [Next]_curriculum => DocumentsInv'
  BY DocumentsNextHolds
<1>6. Init => DocumentsInv
  BY DocumentsInitHolds
<1>7. Spec => SyllabusKeepsContract
  <2>1. Init => SyllabusContract!ContractInit
    BY <1>1
  <2> QED
    BY <2>1, <1>2, <1>5, <1>6, PTL DEF Spec, SyllabusKeepsContract, SyllabusContract!ContractSpec
<1>8. Spec => KitKeepsContract
  <2>1. Init => KitContract!ContractInit
    BY <1>1
  <2> QED
    BY <2>1, <1>3, <1>5, <1>6, PTL DEF Spec, KitKeepsContract, KitContract!ContractSpec
<1>9. Spec => PackageKeepsContract
  <2>1. Init => PackageContract!ContractInit
    BY <1>1
  <2> QED
    BY <2>1, <1>4, <1>5, <1>6, PTL DEF Spec, PackageKeepsContract, PackageContract!ContractSpec
<1> QED
  BY <1>7, <1>8, <1>9 DEF KeepContracts

----------------------------------------------------------------------------
(* Rows that are written by different requests and tasks.                   *)

NoKits == kit = [k \in Kits |-> UnusedKit]
NoPackages == pkg = [p \in Packages |-> NoPackage]
NoFiles ==
    /\ job = [j \in ExportJobs |-> NoJob]
    /\ object = [k \in Keys |-> NoObject]
    /\ asset = [k \in Keys |-> "none"]

RowsInv ==
    /\ DocumentsInv
    /\ IF component = "syllabus" THEN VersionsInv ELSE NoSyllabi
    /\ component # "kit" => NoKits
    /\ component # "package" => NoPackages
    /\ IF component \in {"uploads", "exports"} THEN FilesInv ELSE NoFiles

\* It is an invariant.
LEMMA RowsInitHolds ==
    ASSUME Init
    PROVE  RowsInv
<1>1. SyllabusInit /\ KitInit /\ PackageInit /\ ExportsInit
  BY DEF Init
<1>2. NoSyllabi /\ NoKits /\ NoPackages /\ NoFiles
  BY <1>1 DEF SyllabusInit, KitInit, PackageInit, ExportsInit, NoSyllabi, NoKits, NoPackages, NoFiles
<1> QED
  BY <1>1, <1>2, DocumentsInitHolds, VersionsInitHolds, FilesInitHolds DEF RowsInv

LEMMA RowsNextHolds ==
    ASSUME RowsInv, [Next]_curriculum
    PROVE  RowsInv'
<1>1. DocumentsInv'
  BY DocumentsNextHolds DEF RowsInv
<1>2. IF component' = "syllabus" THEN VersionsInv' ELSE NoSyllabi'
  BY DocumentStep, VersionsNextHolds DEF RowsInv, NoSyllabi
<1>3. (component' # "kit" => NoKits') /\ (component' # "package" => NoPackages')
  BY DocumentStep DEF RowsInv, NoKits, NoPackages
<1>4. IF component \in {"uploads", "exports"}
      THEN [FilesNext]_<<files, backend>> ELSE UNCHANGED <<job, object, asset>>
  <2>1. CASE UNCHANGED curriculum
    BY <2>1 DEF curriculum, files
  <2>2. CASE Next
    BY <2>2 DEF Next, FilesNext, files
  <2> QED
    BY <2>1, <2>2
<1>5. IF component' \in {"uploads", "exports"} THEN FilesInv' ELSE NoFiles'
  BY <1>4, DocumentStep, FilesNextHolds DEF RowsInv, NoFiles
<1> QED
  BY <1>1, <1>2, <1>3, <1>5 DEF RowsInv

\* Versions of a syllabus are in order, a unit has one published kit, a package counts its
\* items, and object store, asset rows and jobs agree on a file, in every behaviour of the
\* components.
THEOREM RowsAgreeAlways == Spec => []RowsAgree
<1>1. ASSUME RowsInv PROVE VersionsOrdered
  <2>1. CASE component = "syllabus"
    BY <1>1, <2>1, VersionsInvOrdered DEF RowsInv
  <2>2. CASE component # "syllabus"
    <3>1. \A d \in Syllabi : syl[d].status = "NONE"
      BY <1>1, <2>2 DEF RowsInv, NoSyllabi, Unused
    <3> QED
      BY <3>1 DEF VersionsOrdered, Exists, SyllabusStatus
  <2> QED
    BY <2>1, <2>2
<1>2. ASSUME RowsInv PROVE OnePublishedKit
  <2>1. CASE component = "kit"
    BY <1>1, <1>2, <2>1 DEF RowsInv, DocumentsInv, KitInv, KitHolds, KitsApart, KitGood, OnePublishedKit
  <2>2. CASE component # "kit"
    <3>1. \A k \in Kits : kit[k].status = "NONE"
      BY <1>2, <2>2 DEF RowsInv, NoKits, UnusedKit
    <3> QED
      BY <3>1 DEF OnePublishedKit
  <2> QED
    BY <2>1, <2>2
<1>3. ASSUME RowsInv PROVE ItemCountRight
  <2>1. CASE component = "package"
    BY <1>3, <2>1
    DEF RowsInv, DocumentsInv, PackageInv, PackageSafe, PackageGood, Indexable, AllCounted, Counted, ItemCountRight
  <2>2. CASE component # "package"
    <3>1. \A p \in Packages : pkg[p].items = {} /\ pkg[p].item_count = 0 /\ pkg[p].qdrant_indexed = FALSE
      BY <1>3, <2>2 DEF RowsInv, NoPackages, NoPackage
    <3>2. Cardinality({}) = 0
      BY FS_EmptySet
    <3> QED
      BY <3>1, <3>2 DEF ItemCountRight
  <2> QED
    BY <2>1, <2>2
<1>4. ASSUME RowsInv PROVE FilesAgree
  <2>1. CASE component \in {"uploads", "exports"}
    BY <1>4, <2>1, FilesInvAgree DEF RowsInv
  <2>2. CASE component \notin {"uploads", "exports"}
    <3>1. /\ \A j \in ExportJobs : job[j].status = "NONE"
          /\ \A k \in Keys : object[k].there = FALSE /\ asset[k] = "none"
          /\ \A k \in ExportKeys : k \in Keys
      BY <1>4, <2>2 DEF RowsInv, NoFiles, NoJob, NoObject, Keys
    <3> QED
      BY <3>1 DEF FilesAgree
  <2> QED
    BY <2>1, <2>2
<1>5. RowsInv => RowsAgree
  BY <1>1, <1>2, <1>3, <1>4 DEF RowsAgree
<1> QED
  BY <1>5, RowsInitHolds, RowsNextHolds, PTL DEF Spec

----------------------------------------------------------------------------
(* Lab submissions.                                                        *)

SubStatus == {"NONE", "SUBMITTED", "EVALUATING", "EVALUATED", "REVIEWED", "RATIFIED"}
Given == Scores \cup {None}
SubRow == [student : Students \cup {None}, status : SubStatus, eval : [ai : Given, human : Given], ledger : Given]
AsgRow == [status : {"DRAFT", "PUBLISHED", "CLOSED"}, rubric : 0..MaxRubric, max_marks : 0..MaxRubric]

\* What a request read is what its write takes it for.
LabTypes ==
    /\ QueueTyped(LabOps, {"evaluate_lab_submission"}, Submissions, {"running", "failed", "refused"},
                  Students \cup 0..MaxRubric, {})
    /\ asg \in AsgRow /\ sub \in [Submissions -> SubRow]
    /\ \A r \in Reqs :
          /\ req[r].op = "publish_assignment" => req[r].mem \in 0..MaxRubric
          /\ req[r].op = "submit_lab" => req[r].mem \in Students
          /\ req[r].op = "ratify_lab" => req[r].mem \in Given

\* The writes of a submission, by the columns they set.
LEMMA SubTyped ==
    ASSUME sub \in [Submissions -> SubRow], NEW s, NEW a \in Students \cup {None}, NEW x \in SubStatus,
           NEW h \in Scores, NEW g \in Given,
           \/ sub' = [sub EXCEPT ![s].student = a, ![s].status = x]
           \/ sub' = [sub EXCEPT ![s].status = x]
           \/ sub' = [sub EXCEPT ![s].eval.human = h]
           \/ sub' = [sub EXCEPT ![s].ledger = g, ![s].status = x]
           \/ sub' = [sub EXCEPT ![s].status = x, ![s].eval = [ai |-> h, human |-> None]]
    PROVE  sub' \in [Submissions -> SubRow]
<1>1. CASE s \notin Submissions
  <2>1. sub' = sub
    BY <1>1
  <2> QED
    BY <2>1
<1>2. CASE s \in Submissions
  <2>1. ASSUME NEW row \in SubRow
        PROVE  /\ [row EXCEPT !.student = a, !.status = x] \in SubRow
               /\ [row EXCEPT !.status = x] \in SubRow
               /\ [row EXCEPT !.ledger = g, !.status = x] \in SubRow
    BY DEF SubRow
  <2>2. ASSUME NEW row \in SubRow, NEW e \in [ai : Given, human : Given]
        PROVE  [row EXCEPT !.status = x, !.eval = e] \in SubRow /\ [row EXCEPT !.eval = e] \in SubRow
    BY DEF SubRow
  <2>3. sub[s] \in SubRow /\ sub[s].eval \in [ai : Given, human : Given]
    BY <1>2 DEF SubRow
  <2>4. ASSUME NEW e \in [ai : Given, human : Given]
        PROVE  [e EXCEPT !.human = h] \in [ai : Given, human : Given]
    BY DEF Given
  <2>5. PICK e : e = [sub[s].eval EXCEPT !.human = h]
    OBVIOUS
  <2>6. [ai |-> h, human |-> None] \in [ai : Given, human : Given] /\ e \in [ai : Given, human : Given]
    BY <2>3, <2>4, <2>5 DEF Given
  <2>7. \E row \in SubRow : sub' = [sub EXCEPT ![s] = row]
    <3>1. CASE sub' = [sub EXCEPT ![s].student = a, ![s].status = x]
      BY <1>2, <2>1, <2>3, <3>1
    <3>2. CASE sub' = [sub EXCEPT ![s].status = x]
      BY <1>2, <2>1, <2>3, <3>2
    <3>3. CASE sub' = [sub EXCEPT ![s].eval.human = h]
      <4>1. sub' = [sub EXCEPT ![s] = [sub[s] EXCEPT !.eval = e]]
        BY <1>2, <2>5, <3>3
      <4> QED
        BY <2>2, <2>3, <2>6, <4>1
    <3>4. CASE sub' = [sub EXCEPT ![s].ledger = g, ![s].status = x]
      BY <1>2, <2>1, <2>3, <3>4
    <3>5. CASE sub' = [sub EXCEPT ![s].status = x, ![s].eval = [ai |-> h, human |-> None]]
      BY <1>2, <2>2, <2>3, <2>6, <3>5
    <3> QED
      BY <3>1, <3>2, <3>3, <3>4, <3>5
  <2> QED
    BY <1>2, <2>7
<1> QED
  BY <1>1, <1>2

LEMMA LabTypesInit ==
    ASSUME LabInit
    PROVE  LabTypes
<1>1. asg \in AsgRow
  BY LabAssumption DEF LabInit, AsgRow
<1>2. sub \in [Submissions -> SubRow]
  BY DEF LabInit, NoSubmission, NoEvaluation, SubRow, SubStatus, Given
<1>3. \A r \in Reqs : req[r].op = None
  BY DEF LabInit, BackendInit, NoReq
<1>4. BackendInit
  BY DEF LabInit
<1> QED
  BY <1>1, <1>2, <1>3, <1>4, InitTyped, LabNames DEF LabTypes, LabOps

\* A request that begins has read what its operation says.
LEMMA LabReads ==
    ASSUME LabTypes, NEW r \in Reqs,
           \/ UpdateAssignment(r) \/ PublishAssignment(r) \/ CloseAssignment(r)
           \/ \E st \in Students : SubmitLab(r, st)
           \/ \E s \in Submissions : OpenReview(r, s) \/ UpdateScores(r, s) \/ Ratify(r, s)
    PROVE  /\ UNCHANGED <<asg, sub>>
           /\ \E o \in LabOps, d \in Submissions \cup {None}, x \in (Students \cup 0..MaxRubric) \cup {None} :
                 /\ Begin(r, o, d, x)
                 /\ o = "publish_assignment" => x \in 0..MaxRubric
                 /\ o = "submit_lab" => x \in Students
                 /\ o = "ratify_lab" => x \in Given
<1>1. asg.rubric \in 0..MaxRubric
  BY DEF LabTypes, AsgRow
<1>2. ASSUME NEW s \in Submissions
      PROVE  FinalScore(sub[s].eval) \in Given
  <2>1. sub[s].eval.ai \in Given /\ sub[s].eval.human \in Given
    BY DEF LabTypes, SubRow
  <2> QED
    BY <2>1 DEF FinalScore
<1>3. \A x \in Given : x \in 0..MaxRubric \cup {None}
  BY LabAssumption DEF Given, Scores
<1>4. CASE UpdateAssignment(r) \/ CloseAssignment(r)
  BY <1>4 DEF UpdateAssignment, CloseAssignment, LabOps
<1>5. CASE PublishAssignment(r)
  BY <1>1, <1>5 DEF PublishAssignment, LabOps
<1>6. CASE \E st \in Students : SubmitLab(r, st)
  BY <1>6 DEF SubmitLab, LabOps
<1>7. CASE \E s \in Submissions : OpenReview(r, s) \/ UpdateScores(r, s)
  BY <1>7 DEF OpenReview, UpdateScores, LabOps
<1>8. CASE \E s \in Submissions : Ratify(r, s)
  <2>1. PICK s \in Submissions : Ratify(r, s)
    BY <1>8
  <2>2. PICK x : x = FinalScore(sub[s].eval)
    OBVIOUS
  <2>3. x \in Given /\ x \in (Students \cup 0..MaxRubric) \cup {None}
    BY <1>2, <1>3, <2>2
  <2>4. Begin(r, "ratify_lab", s, x) /\ UNCHANGED <<asg, sub>>
    BY <2>1, <2>2 DEF Ratify
  <2> QED
    BY <2>3, <2>4 DEF LabOps
<1> QED
  BY <1>4, <1>5, <1>6, <1>7, <1>8

LEMMA LabTypesNext ==
    ASSUME LabTypes, LabNext
    PROVE  LabTypes'
<1> DEFINE Is == QueueTyped(LabOps, {"evaluate_lab_submission"}, Submissions, {"running", "failed", "refused"},
                            Students \cup 0..MaxRubric, {})
<1> DEFINE Reads == \A s \in Reqs :
                       \/ req'[s] = req[s] \/ req'[s].op \in {None, "publish"}
                       \/ /\ req'[s].op = "publish_assignment" => req'[s].mem \in 0..MaxRubric
                          /\ req'[s].op = "submit_lab" => req'[s].mem \in Students
                          /\ req'[s].op = "ratify_lab" => req'[s].mem \in Given
<1> DEFINE Rows == asg' \in AsgRow /\ sub' \in [Submissions -> SubRow]
<1>1. Is /\ None \notin LabOps /\ "publish" \notin LabOps
  BY LabNames DEF LabTypes, LabOps
<1>2. asg \in AsgRow /\ sub \in [Submissions -> SubRow]
  BY DEF LabTypes
<1>3. ASSUME NEW r \in Reqs, LabRequest(r), UNCHANGED queue
      PROVE  Is' /\ Reads /\ Rows
  <2>1. CASE \/ UpdateAssignment(r) \/ PublishAssignment(r) \/ CloseAssignment(r)
             \/ \E st \in Students : SubmitLab(r, st)
             \/ \E s \in Submissions : OpenReview(r, s) \/ UpdateScores(r, s) \/ Ratify(r, s)
    <3>1. PICK o \in LabOps, d \in Submissions \cup {None}, x \in (Students \cup 0..MaxRubric) \cup {None} :
                 /\ Begin(r, o, d, x)
                 /\ o = "publish_assignment" => x \in 0..MaxRubric
                 /\ o = "submit_lab" => x \in Students
                 /\ o = "ratify_lab" => x \in Given
      BY <2>1, LabReads
    <3>2. Is'
      BY <1>1, <1>3, <3>1, RequestTyped
    <3>3. Reads
      BY <1>1, <3>1, RequestsOver
    <3>4. Rows
      BY <1>2, <2>1, LabReads
    <3> QED
      BY <3>2, <3>3, <3>4
  <2>2. CASE WriteUpdateAssignment(r) \/ WritePublishAssignment(r) \/ WriteCloseAssignment(r)
    <3>1. End(r) /\ UNCHANGED sub
      BY <2>2 DEF WriteUpdateAssignment, WritePublishAssignment, WriteCloseAssignment
    <3>2. \E n \in 0..MaxRubric :
             \/ asg' = [asg EXCEPT !.rubric = n]
             \/ asg' = [asg EXCEPT !.status = "PUBLISHED", !.max_marks = n]
             \/ asg' = [asg EXCEPT !.status = "CLOSED"]
      <4>1. CASE WriteUpdateAssignment(r)
        <5>1. \A n \in 1..MaxRubric : n \in 0..MaxRubric
          BY LabAssumption
        <5> QED
          BY <4>1, <5>1 DEF WriteUpdateAssignment
      <4>2. CASE WritePublishAssignment(r)
        BY <4>2 DEF LabTypes, WritePublishAssignment
      <4>3. CASE WriteCloseAssignment(r)
        <5>1. 0 \in 0..MaxRubric
          BY LabAssumption
        <5> QED
          BY <4>3, <5>1 DEF WriteCloseAssignment
      <4> QED
        BY <2>2, <4>1, <4>2, <4>3
    <3>3. asg' \in AsgRow
      BY <1>2, <3>2 DEF AsgRow
    <3> QED
      BY <1>1, <1>2, <1>3, <3>1, <3>3, RequestTyped, RequestsOver
  <2>3. CASE WriteReview(r) \/ WriteScores(r) \/ WriteRatify(r)
    <3>1. End(r) /\ UNCHANGED asg
      BY <2>3 DEF WriteReview, WriteScores, WriteRatify
    <3>2. \/ sub' = sub
          \/ sub' = [sub EXCEPT ![req[r].on].status = "REVIEWED"]
          \/ \E h \in Scores : sub' = [sub EXCEPT ![req[r].on].eval.human = h]
          \/ \E g \in Given : sub' = [sub EXCEPT ![req[r].on].ledger = g, ![req[r].on].status = "RATIFIED"]
      BY <2>3 DEF LabTypes, WriteReview, WriteScores, WriteRatify
    <3>3. sub' \in [Submissions -> SubRow]
      <4>1. 0 \in Scores /\ None \in Given /\ {"REVIEWED", "RATIFIED"} \subseteq SubStatus
        BY DEF Scores, Given, SubStatus
      <4> QED
        BY <1>2, <3>2, <4>1, SubTyped
    <3> QED
      BY <1>1, <1>2, <1>3, <3>1, <3>3, RequestTyped, RequestsOver
  <2>4. CASE WriteSubmission(r)
    <3>1. PICK s \in Submissions : /\ sub' = [sub EXCEPT ![s].student = req[r].mem, ![s].status = "EVALUATING"]
                                   /\ EndPublishing(r, s, "evaluate_lab_submission") /\ UNCHANGED asg
      BY <2>4 DEF WriteSubmission, FreshSubmission
    <3>2. req[r].mem \in Students /\ 0 \in Scores /\ None \in Given /\ "EVALUATING" \in SubStatus
      BY <2>4 DEF LabTypes, WriteSubmission, Scores, Given, SubStatus
    <3>3. sub' \in [Submissions -> SubRow]
      BY <1>2, <3>1, <3>2, SubTyped
    <3> QED
      BY <1>1, <1>2, <1>3, <3>1, <3>3, RequestTyped, RequestsOver
  <2> QED
    BY <1>3, <2>1, <2>2, <2>3, <2>4 DEF LabRequest
<1>4. ASSUME NEW w \in Workers, LabTask(w), UNCHANGED <<req, raced>>
      PROVE  Is' /\ Rows
  <2>1. (\E p \in {"running", "failed", "refused"} : In(w, "evaluate_lab_submission", p)) => exec[w] # Idle /\ exec[w].to \in Submissions
    BY <1>1 DEF In, Idle, QueueTyped, OnRows
  <2>2. lost' \in SUBSET Submissions /\ (Fault \/ UNCHANGED faults)
    <3>1. lost \in SUBSET Submissions
      BY <1>1 DEF QueueTyped, BackendTypeOK
    <3> QED
      BY <1>4, <2>1, <3>1
      DEF LabTask, StartEvaluation, CommitEvaluation, FailEvaluation, ResetSubmission, ResetSubmissionFails
  <2>3. \/ \E m \in Slots : Take(w, m, "evaluate_lab_submission", "running", None) /\ UNCHANGED again
        \/ \E p \in {"failed", "refused"} : Goto(w, p, None) /\ exec[w] # Idle /\ UNCHANGED <<msg, again>>
        \/ Finish(w)
        \/ Retry(w) /\ exec[w] # Idle
    BY <1>4, <2>1
    DEF LabTask, StartEvaluation, CommitEvaluation, FailEvaluation, ResetSubmission, ResetSubmissionFails,
        EvaluationRaised, EndRaised
  <2>4. Is'
    BY <1>1, <1>4, <2>2, <2>3, TaskTyped
  <2>5. /\ UNCHANGED asg
        /\ \/ sub' = sub
           \/ \E s : \E x \in {"EVALUATING", "SUBMITTED"} : sub' = [sub EXCEPT ![s].status = x]
           \/ \E s : \E h \in Scores :
                 sub' = [sub EXCEPT ![s].status = "EVALUATED", ![s].eval = [ai |-> h, human |-> None]]
    <3>1. CASE \E m \in Slots : StartEvaluation(w, m)
      BY <3>1 DEF StartEvaluation
    <3>2. CASE CommitEvaluation(w)
      BY <3>2 DEF CommitEvaluation
    <3>3. CASE FailEvaluation(w) \/ ResetSubmission(w) \/ ResetSubmissionFails(w)
      BY <3>3 DEF FailEvaluation, ResetSubmission, ResetSubmissionFails
    <3> QED
      BY <1>4, <3>1, <3>2, <3>3 DEF LabTask
  <2>6. Rows
    <3>1. \A x \in {"EVALUATING", "SUBMITTED", "EVALUATED"} : x \in SubStatus
      BY DEF SubStatus
    <3>2. 0 \in Scores /\ None \in Given
      BY DEF Scores, Given
    <3> QED
      BY <1>2, <2>5, <3>1, <3>2, SubTyped
  <2> QED
    BY <2>4, <2>6
<1>5. ASSUME Environment PROVE Is' /\ Reads
  BY <1>1, <1>5, EnvironmentTyped, RequestsOver
<1>6. Is' /\ Reads /\ Rows
  BY <1>2, <1>3, <1>4, <1>5 DEF LabNext
<1>7. ASSUME NEW s \in Reqs
      PROVE  /\ req'[s].op = "publish_assignment" => req'[s].mem \in 0..MaxRubric
             /\ req'[s].op = "submit_lab" => req'[s].mem \in Students
             /\ req'[s].op = "ratify_lab" => req'[s].mem \in Given
  BY <1>1, <1>6 DEF LabTypes, LabOps
<1> QED
  BY <1>6, <1>7 DEF LabTypes

LEMMA LabTypesCorrect ==
    ASSUME LabTypes
    PROVE  LabTypeOK
  BY DEF LabTypes, LabTypeOK, QueueTyped, SubRow, SubStatus, Given, AsgRow

----------------------------------------------------------------------------
(* Vivas.                                                                  *)

VivaStatus ==
    {"NONE", "SCHEDULED", "IN_PROGRESS", "COMPLETED", "ASR_PROCESSING", "EVALUATED", "GUIDE_RATIFIED"}

VivaColumnsTyped(v) == viva[v].status \in VivaStatus /\ viva[v].judged \in Answers \cup {None}

\* A request that may reopen or queue a session is on one.
VivaTypes ==
    /\ QueueTyped(VivaOps, {"process_viva_session"}, Vivas, {"running"}, {}, Answers)
    /\ \A v \in Vivas : VivaColumnsTyped(v)
    /\ reopened \in SUBSET Vivas
    /\ \A r \in Reqs : req[r].op \in {"consent", "complete", "conduct", "queue_viva"} => req[r].on \in Vivas

LEMMA VivaTypesInit ==
    ASSUME VivaInit
    PROVE  VivaTypes
<1>1. \A v \in Vivas : VivaColumnsTyped(v)
  BY DEF VivaInit, NoViva, VivaColumnsTyped, VivaStatus
<1>2. \A r \in Reqs : req[r].op = None
  BY DEF VivaInit, BackendInit, NoReq
<1> QED
  BY <1>1, <1>2, InitTyped, VivaNames DEF VivaInit, VivaTypes, VivaOps

\* What a step writes into a row.
LEMMA VivaColumnsKeep ==
    ASSUME NEW V, VivaShape(V), VivaTypes, VivaNext, NEW v \in Vivas
    PROVE  VivaColumnsTyped(v)'
<1>1. VivaColumnsTyped(v)
  BY DEF VivaTypes
<1>2. ASSUME viva'[v] = viva[v] PROVE VivaColumnsTyped(v)'
  BY <1>1, <1>2 DEF VivaColumnsTyped
<1>3. ASSUME NEW d \in Vivas, NEW x \in VivaStatus \cup {viva[d].status}, NEW j \in Answers \cup {None, viva[d].judged},
             NEW c, NEW u, NEW a, NEW g, VivaWritten(d, x, c, u, a, j, g)
      PROVE  VivaColumnsTyped(v)'
  <2>1. CASE d = v
    BY <1>1, <1>3, <2>1 DEF VivaWritten, VivaColumnsTyped
  <2>2. CASE d # v
    BY <1>2, <1>3, <2>2 DEF VivaWritten
  <2> QED
    BY <2>1, <2>2
<1>4. {"SCHEDULED", "IN_PROGRESS", "COMPLETED", "ASR_PROCESSING", "EVALUATED", "GUIDE_RATIFIED"} \subseteq VivaStatus
  BY DEF VivaStatus
<1>5. ASSUME NEW r \in Reqs, VivaRequest(r), viva' # viva
      PROVE  VivaColumnsTyped(v)'
  <2>1. CASE WriteSchedule(r)
    <3>1. PICK d \in FreshViva : VivaWritten(d, "SCHEDULED", viva[d].consent, viva[d].video, viva[d].answers, viva[d].judged, viva[d].guide)
      BY <2>1, ScheduleWrites
    <3>2. d \in Vivas
      BY DEF FreshViva
    <3> QED
      BY <1>3, <1>4, <3>1, <3>2
  <2>2. ASSUME NEW d \in Vivas, d = req[r].on,
               \/ WriteConsent(r) \/ WriteResponse(r) \/ WriteComplete(r) \/ WriteConduct(r)
               \/ WriteQueued(r) \/ WriteRatifyViva(r)
        PROVE  VivaColumnsTyped(v)'
    <3>1. \E x \in VivaStatus \cup {viva[d].status} : \E c, u, a, g : VivaWritten(d, x, c, u, a, viva[d].judged, g)
      <4>1. CASE WriteResponse(r)
        BY <2>2, <4>1, VivaWrites
      <4>2. CASE WriteConduct(r)
        BY <1>4, <2>2, <4>2, VivaWrites
      <4> QED
        BY <1>4, <2>2, <4>1, <4>2, VivaWrites
    <3> QED
      BY <1>3, <3>1
  <2>3. CASE \/ WriteConsent(r) \/ WriteResponse(r) \/ WriteComplete(r) \/ WriteConduct(r)
             \/ WriteQueued(r) \/ WriteRatifyViva(r)
    <3>1. req[r].on \in Vivas
      BY <1>5, <2>3, NoVivaWritten
    <3> QED
      BY <2>2, <2>3, <3>1
  <2>4. CASE \/ Schedule(r)
             \/ \E d \in Vivas : RecordConsent(r, d) \/ SubmitResponse(r, d) \/ Complete(r, d)
                                 \/ Conduct(r, d) \/ RatifyViva(r, d)
    BY <1>5, <2>4, VivaChecks
  <2> QED
    BY <1>5, <2>1, <2>3, <2>4 DEF VivaRequest
<1>6. ASSUME NEW w \in Workers, VivaTask(w), viva' # viva
      PROVE  VivaColumnsTyped(v)'
  <2>1. exec[w].mem \in Answers \cup {None}
    BY DEF VivaTypes, QueueTyped, BackendTypeOK
  <2>2. ASSUME NEW m \in Slots, StartProcessing(w, m) PROVE VivaColumnsTyped(v)'
    <3>1. msg[m].to \in Vivas
      BY <1>6, <2>2, NoVivaProcessed
    <3> QED
      BY <1>3, <1>4, <1>6, <2>2, <3>1, VivaTaskWrites
  <2>3. ASSUME CommitProcessing(w) \/ FailProcessing(w) PROVE VivaColumnsTyped(v)'
    <3>1. exec[w].to \in Vivas
      BY <1>6, <2>3, NoVivaProcessed
    <3>2. CASE CommitProcessing(w)
      BY <1>3, <1>4, <2>1, <3>1, <3>2, VivaTaskWrites
    <3>3. CASE FailProcessing(w)
      BY <1>3, <1>4, <1>6, <3>1, <3>3, VivaTaskWrites
    <3> QED
      BY <2>3, <3>2, <3>3
  <2> QED
    BY <1>6, <2>2, <2>3 DEF VivaTask
<1> QED
  BY <1>2, <1>5, <1>6 DEF VivaNext

\* A request that begins is on the session that it will queue.
LEMMA VivaReads ==
    ASSUME NEW r,
           \/ Schedule(r)
           \/ \E v \in Vivas : RecordConsent(r, v) \/ SubmitResponse(r, v) \/ Complete(r, v)
                                \/ Conduct(r, v) \/ RatifyViva(r, v)
    PROVE  \E o \in VivaOps, d \in Vivas \cup {None} :
               Begin(r, o, d, None) /\ UNCHANGED reopened /\ (o # "schedule" => d \in Vivas)
  BY DEF Schedule, RecordConsent, SubmitResponse, Complete, Conduct, RatifyViva, Checked, VivaOps

LEMMA VivaTypesNext ==
    ASSUME VivaInv, VivaTypes, VivaNext
    PROVE  VivaTypes'
<1> DEFINE Is == QueueTyped(VivaOps, {"process_viva_session"}, Vivas, {"running"}, {}, Answers)
<1> DEFINE Reads == \A s \in Reqs :
                       \/ req'[s] = req[s] \/ req'[s].op \in {None, "publish"}
                       \/ req'[s].op \in {"consent", "complete", "conduct", "queue_viva"} => req'[s].on \in Vivas
<1>0. PICK V : VivaShape(V)
  BY DEF VivaInv
<1>1. Is /\ None \notin VivaOps /\ "publish" \notin VivaOps
  BY VivaNames DEF VivaTypes, VivaOps
<1>2. ASSUME NEW r \in Reqs, VivaRequest(r), UNCHANGED queue
      PROVE  Is' /\ Reads /\ (reopened' = reopened \/ \E v \in Vivas : reopened' = reopened \cup {v})
  <2>1. CASE \/ Schedule(r)
             \/ \E v \in Vivas : RecordConsent(r, v) \/ SubmitResponse(r, v) \/ Complete(r, v)
                                  \/ Conduct(r, v) \/ RatifyViva(r, v)
    <3>1. PICK o \in VivaOps, d \in Vivas \cup {None} :
               Begin(r, o, d, None) /\ UNCHANGED reopened /\ (o # "schedule" => d \in Vivas)
      BY <2>1, VivaReads
    <3>2. Is'
      BY <1>1, <1>2, <3>1, RequestTyped
    <3>3. Reads
      BY <1>1, <3>1, RequestsOver
    <3> QED
      BY <3>1, <3>2, <3>3
  <2>2. CASE WriteSchedule(r) \/ WriteConsent(r) \/ WriteResponse(r) \/ WriteRatifyViva(r)
    <3>1. End(r)
      BY <2>2 DEF WriteSchedule, WriteConsent, WriteResponse, WriteRatifyViva
    <3>2. reopened' = reopened \/ \E v \in Vivas : reopened' = reopened \cup {v}
      <4>1. CASE WriteConsent(r)
        <5>1. req[r].on \in Vivas
          BY <4>1 DEF WriteConsent, VivaTypes
        <5> QED
          BY <4>1, <5>1 DEF WriteConsent, Reopen
      <4> QED
        BY <2>2, <4>1 DEF WriteSchedule, WriteResponse, WriteRatifyViva
    <3> QED
      BY <1>1, <1>2, <3>1, <3>2, RequestTyped, RequestsOver
  <2>3. CASE WriteComplete(r) \/ WriteConduct(r)
    <3>1. QueueProcessing(r) /\ req[r].on \in Vivas
      BY <2>3 DEF WriteComplete, WriteConduct, VivaTypes
    <3>2. PICK a : a = [req[r] EXCEPT !.op = "queue_viva"]
      OBVIOUS
    <3>3. req' = [req EXCEPT ![r] = a] /\ UNCHANGED <<raced, faults>>
      BY <1>1, <3>1, <3>2 DEF QueueProcessing, QueueTyped, BackendTypeOK
    <3>4. a \in [op : VivaOps, on : Vivas \cup {None}, mem : {None}, task : {"process_viva_session", None}]
          /\ a.op = "queue_viva" /\ a.on \in Vivas
      BY <1>1, <3>1, <3>2 DEF QueueTyped, BackendTypeOK, VivaOps
    <3>5. Is'
      BY <1>1, <1>2, <3>3, <3>4, RequestTyped
    <3>6. Reads
      BY <1>1, <3>3, <3>4 DEF QueueTyped, BackendTypeOK
    <3>7. reopened' = reopened \/ \E v \in Vivas : reopened' = reopened \cup {v}
      BY <2>3, <3>1 DEF WriteComplete, WriteConduct, Reopen
    <3> QED
      BY <3>5, <3>6, <3>7
  <2>4. CASE WriteQueued(r)
    <3>1. req[r].on \in Vivas /\ EndPublishing(r, req[r].on, "process_viva_session") /\ UNCHANGED reopened
      BY <2>4 DEF WriteQueued, VivaTypes
    <3> QED
      BY <1>1, <1>2, <3>1, RequestTyped, RequestsOver
  <2> QED
    BY <1>2, <2>1, <2>2, <2>3, <2>4 DEF VivaRequest
<1>3. ASSUME NEW w \in Workers, VivaTask(w), UNCHANGED <<req, raced>>
      PROVE  Is' /\ UNCHANGED reopened
  <2>1. In(w, "process_viva_session", "running") => exec[w] # Idle /\ exec[w].to \in Vivas
    BY <1>1 DEF In, Idle, QueueTyped, OnRows
  <2>2. lost' \in SUBSET Vivas /\ (Fault \/ UNCHANGED faults)
    <3>1. lost \in SUBSET Vivas
      BY <1>1 DEF QueueTyped, BackendTypeOK
    <3> QED
      BY <1>3, <2>1, <3>1 DEF VivaTask, StartProcessing, CommitProcessing, FailProcessing
  <2>3. ASSUME NEW m \in Slots, StartProcessing(w, m)
        PROVE  \E a \in Answers : Take(w, m, "process_viva_session", "running", a) /\ UNCHANGED again
    <3>1. msg[m].to \in Vivas
      BY <1>1, <2>3, BackendAssumption DEF StartProcessing, Take, QueueTyped, OnRows
    <3>2. viva[msg[m].to].answers \in Answers
      BY <1>0, <3>1 DEF VivaShape, VivaRow, Answers
    <3> QED
      BY <2>3, <3>2 DEF StartProcessing
  <2>4. \/ \E m \in Slots, a \in Answers : Take(w, m, "process_viva_session", "running", a) /\ UNCHANGED again
        \/ Finish(w)
        \/ Retry(w) /\ exec[w] # Idle
    BY <1>3, <2>1, <2>3 DEF VivaTask, CommitProcessing, FailProcessing
  <2>5. Is'
    BY <1>1, <1>3, <2>2, <2>4, TaskTyped
  <2> QED
    BY <1>3, <2>5 DEF VivaTask, StartProcessing, CommitProcessing, FailProcessing
<1>4. ASSUME Environment PROVE Is' /\ Reads
  BY <1>1, <1>4, EnvironmentTyped, RequestsOver
<1>5. Is' /\ Reads
  BY <1>2, <1>3, <1>4 DEF VivaNext
<1>6. ASSUME NEW s \in Reqs
      PROVE  req'[s].op \in {"consent", "complete", "conduct", "queue_viva"} => req'[s].on \in Vivas
  BY <1>1, <1>5 DEF VivaTypes, VivaOps
<1>7. reopened' \in SUBSET Vivas
  BY <1>2, <1>3 DEF VivaNext, VivaTypes
<1>8. \A v \in Vivas : VivaColumnsTyped(v)'
  BY <1>0, VivaColumnsKeep
<1> QED
  BY <1>5, <1>6, <1>7, <1>8 DEF VivaTypes

LEMMA VivaTypesCorrect ==
    ASSUME VivaInv, VivaTypes
    PROVE  VivaTypeOK
<1>1. PICK V : viva \in [Vivas -> VivaRow(V)]
  BY DEF VivaInv, VivaShape
<1>2. viva \in [Vivas -> [status : VivaStatus, consent : BOOLEAN, video : BOOLEAN,
                          answers : Answers, judged : Answers \cup {None}, guide : BOOLEAN]]
  BY <1>1 DEF VivaTypes, VivaColumnsTyped, VivaRow, Answers
<1> QED
  BY <1>2 DEF VivaTypes, VivaTypeOK, VivaStatus, QueueTyped

----------------------------------------------------------------------------
(* Research documents.                                                     *)

DocStatus == {"NONE", "SUBMITTED", "EVALUATING", "EVALUATED", "APPROVED", "REVISION_REQUESTED"}

DocUsed == {d \in Documents : doc[d].status # "NONE"}

DocTask == "evaluate_research_document"

\* The columns of a document; a version is at most the number of documents there
\* have been, or the next one.
DocColumnsTyped(d) ==
    doc[d].status \in DocStatus /\ doc[d].version \in 0..Cardinality(DocUsed) /\ doc[d].evaluated \in Nat \cup {None}

\* A request or a message that evaluates a document is on one.
DocReqTyped(r) ==
    /\ req[r].op = "submit_document" => req[r].mem \in 1..(Cardinality(DocUsed) + 1)
    /\ req[r].op \in {"set_file", "queue_evaluation"} => req[r].on \in Documents
    /\ req[r].op = "publish" /\ req[r].task = DocTask => req[r].on \in Documents
DocMsgTyped(m) == msg[m].at # "none" /\ msg[m].task = DocTask => msg[m].to \in Documents

ResearchTypes ==
    /\ QueueTyped(ResearchOps, {"evaluate_research_proposal", "evaluate_research_document"}, Papers,
                  {"running", "failed"}, 1..Cardinality(Documents), Nat)
    /\ problem \in [status : {"NONE", "PENDING_REVIEW"} \cup Decisions, scored : BOOLEAN]
    /\ \A d \in Documents : DocColumnsTyped(d)
    /\ refiled \in SUBSET Documents
    /\ \A r \in Reqs : DocReqTyped(r)
    /\ \A m \in Slots : DocMsgTyped(m)

LEMMA ResearchTypesInit ==
    ASSUME ResearchInit
    PROVE  ResearchTypes
<1>1. \A r \in Reqs : req[r].op = None
  BY DEF ResearchInit, BackendInit, NoReq
<1>2. None \notin {"submit_document", "set_file", "queue_evaluation", "publish"}
  BY ResearchNames, BackendAssumption DEF ResearchOps
<1>3. \A r \in Reqs : DocReqTyped(r)
  BY <1>1, <1>2 DEF DocReqTyped
<1>4. \A m \in Slots : DocMsgTyped(m)
  BY DEF ResearchInit, BackendInit, NoMsg, DocMsgTyped
<1>5. DocUsed = {} /\ \A d \in Documents : doc[d] = NoDocument
  BY DEF ResearchInit, DocUsed, NoDocument
<1>6. Cardinality(DocUsed) = 0
  BY <1>5, FS_EmptySet
<1>7. \A d \in Documents : DocColumnsTyped(d)
  BY <1>5, <1>6 DEF DocColumnsTyped, NoDocument, DocStatus
<1> QED
  BY <1>3, <1>4, <1>7, InitTyped DEF ResearchInit, ResearchTypes, Decisions

\* The versions there are, and the next.
LEMMA DocVersionTyped ==
    ASSUME \A d \in Documents : doc[d].version \in 0..Cardinality(DocUsed)
    PROVE  /\ NextDocumentVersion \in 1..(Cardinality(DocUsed) + 1)
           /\ FreshDocument # {} => NextDocumentVersion \in 1..Cardinality(Documents)
<1> DEFINE S == {doc[d].version : d \in Documents} \ {0}
<1>1. DocUsed \in SUBSET Documents
  BY DEF DocUsed
<1>2. Cardinality(DocUsed) \in Nat /\ Cardinality(Documents) \in Nat
      /\ (DocUsed # Documents => Cardinality(DocUsed) + 1 <= Cardinality(Documents))
  BY <1>1, Counting, ResearchAssumption
<1>3. PICK n \in Nat : n = Cardinality(DocUsed)
  BY <1>2
<1>4. S \subseteq 1..n
  BY <1>3
<1>5. IsFiniteSet(1..n) /\ Cardinality(1..n) = n
  BY FS_Interval
<1>6. IsFiniteSet(S) /\ Cardinality(S) <= n
  BY <1>4, <1>5, FS_Subset
<1>7. Cardinality(S) \in Nat
  BY <1>6, FS_CardinalityType
<1>8. NextDocumentVersion = Cardinality(S) + 1
  BY DEF NextDocumentVersion
<1>9. FreshDocument # {} => DocUsed # Documents
  BY DEF FreshDocument, DocUsed
<1> HIDE DEF S
<1> QED
  BY <1>2, <1>3, <1>6, <1>7, <1>8, <1>9

\* What a step writes into a row.
LEMMA DocColumns ==
    ASSUME NEW V, DocShape(V), ResearchTypes, ResearchNext, NEW d \in Documents
    PROVE  /\ doc'[d].status \in DocStatus /\ doc'[d].evaluated \in Nat \cup {None}
           /\ doc[d].status # "NONE" => doc'[d].status # "NONE"
           /\ \/ doc'[d].version = doc[d].version
              \/ \E r \in Reqs : /\ WriteDocument(r) /\ doc[d].status = "NONE" /\ doc'[d].status = "SUBMITTED"
                                 /\ doc'[d].version = req[r].mem
<1> DEFINE Same == /\ doc'[d].status \in DocStatus /\ doc'[d].evaluated \in Nat \cup {None}
                   /\ doc[d].status # "NONE" => doc'[d].status # "NONE"
                   /\ doc'[d].version = doc[d].version
<1>1. doc[d].status \in DocStatus /\ doc[d].evaluated \in Nat \cup {None}
  BY DEF ResearchTypes, DocColumnsTyped
<1>2. ASSUME doc'[d] = doc[d] PROVE Same
  BY <1>1, <1>2
<1>3. ASSUME NEW c \in Documents, NEW x \in (DocStatus \ {"NONE"}) \cup {doc[c].status}, NEW f,
             NEW e \in Nat \cup {None, doc[c].evaluated}, DocWritten(c, x, doc[c].version, f, e)
      PROVE  Same
  <2>1. CASE c = d
    BY <1>1, <1>3, <2>1 DEF DocWritten
  <2>2. CASE c # d
    BY <1>2, <1>3, <2>2 DEF DocWritten
  <2> QED
    BY <2>1, <2>2
<1>4. {"SUBMITTED", "EVALUATING", "EVALUATED", "APPROVED", "REVISION_REQUESTED"} \subseteq DocStatus \ {"NONE"}
  BY DEF DocStatus
<1>5. ASSUME NEW r \in Reqs, WriteFile(r) \/ QueueEvaluation(r) \/ WriteDocumentReview(r), doc' # doc
      PROVE  Same
  <2>1. PICK c \in Documents : c = req[r].on
    BY <1>5, NoDocWritten
  <2>2. CASE WriteFile(r)
    BY <1>3, <2>1, <2>2, DocWrites
  <2>3. CASE QueueEvaluation(r)
    BY <1>3, <1>4, <2>1, <2>3, DocWrites
  <2>4. CASE WriteDocumentReview(r)
    BY <1>3, <1>4, <2>1, <2>4, DocWrites
  <2> QED
    BY <1>5, <2>2, <2>3, <2>4
<1>6. ASSUME NEW r \in Reqs, WriteDocument(r)
      PROVE  Same \/ (/\ doc[d].status = "NONE" /\ doc'[d].status = "SUBMITTED" /\ doc'[d].evaluated = None
                      /\ doc'[d].version = req[r].mem)
  <2>1. PICK c \in FreshDocument, f \in {0, 1} : DocWritten(c, "SUBMITTED", req[r].mem, f, None)
    BY <1>6, DocumentWrites
  <2>2. CASE c = d
    BY <2>1, <2>2 DEF DocWritten, FreshDocument
  <2>3. CASE c # d
    BY <1>2, <2>1, <2>3 DEF DocWritten
  <2> QED
    BY <2>2, <2>3
<1>7. ASSUME NEW w \in Workers, ResearchTask(w), doc' # doc
      PROVE  Same
  <2>1. exec[w].mem \in Nat \cup {None}
    BY DEF ResearchTypes, QueueTyped, BackendTypeOK
  <2>2. ASSUME NEW m \in Slots, StartDocument(w, m) PROVE Same
    <3>1. msg[m].to \in Documents
      BY <1>7, <2>2, NoDocEvaluated
    <3> QED
      BY <1>3, <1>4, <2>2, <3>1, DocTaskWrites
  <2>3. ASSUME CommitDocument(w) \/ ResetDocument(w) PROVE Same
    <3>1. exec[w].to \in Documents
      BY <1>7, <2>3, NoDocEvaluated
    <3>2. CASE CommitDocument(w)
      BY <1>3, <1>4, <2>1, <3>1, <3>2, DocTaskWrites
    <3>3. CASE ResetDocument(w)
      BY <1>3, <1>4, <3>1, <3>3, DocTaskWrites
    <3> QED
      BY <2>3, <3>2, <3>3
  <2> QED
    BY <1>7, <2>2, <2>3
    DEF ResearchTask, StartProposal, CommitProposal, FailProposal, FailDocument, ResetDocumentFails
<1>8. CASE \E r \in Reqs : ResearchRequest(r)
  BY <1>2, <1>4, <1>5, <1>6, <1>8
  DEF ResearchRequest, Propose, WriteProposal, Decide, WriteDecision, SubmitDocument, SetFile, ReviewDocument
<1>9. CASE \E w \in Workers : ResearchTask(w)
  BY <1>2, <1>7, <1>9
<1>10. CASE UNCHANGED doc
  BY <1>2, <1>10
<1> QED
  BY <1>8, <1>9, <1>10 DEF ResearchNext

\* A request that begins has read the next version, or is on a document.
LEMMA DocReads ==
    ASSUME NEW r,
           \/ Propose(r) \/ Decide(r) \/ SubmitDocument(r)
           \/ \E d \in Documents : SetFile(r, d) \/ ReviewDocument(r, d)
    PROVE  \E o \in ResearchOps \ {"queue_evaluation"}, d \in Papers \cup {None} : \E x :
               /\ Begin(r, o, d, x)
               /\ o = "set_file" => d \in Documents
               /\ IF o = "submit_document" THEN x = NextDocumentVersion /\ FreshDocument # {} ELSE x = None
<1>1. CASE Propose(r) \/ Decide(r) \/ SubmitDocument(r)
  BY <1>1 DEF Propose, Decide, SubmitDocument, ResearchOps, Papers
<1>2. CASE \E d \in Documents : SetFile(r, d) \/ ReviewDocument(r, d)
  BY <1>2 DEF SetFile, ReviewDocument, ResearchOps, Papers
<1> QED
  BY <1>1, <1>2

\* What a request publishes.
LEMMA DocPublished ==
    ASSUME ResearchTypes, NEW r \in Reqs, NEW d, NEW t, EndPublishing(r, d, t), t = DocTask => d \in Documents
    PROVE  \A s \in Reqs :
              \/ req'[s] = req[s]
              \/ req'[s].op = "publish" /\ (req'[s].task = DocTask => req'[s].on \in Documents)
<1>1. PICK a : a = [NoReq EXCEPT !.op = "publish", !.on = d, !.task = t]
  OBVIOUS
<1>2. a.op = "publish" /\ a.on = d /\ a.task = t /\ req' = [req EXCEPT ![r] = a]
  BY <1>1 DEF EndPublishing, NoReq
<1> QED
  BY <1>2 DEF ResearchTypes, QueueTyped, BackendTypeOK

\* A request goes on to its evaluation.
LEMMA DocGoesOn ==
    ASSUME ResearchTypes, UNCHANGED queue, NEW r \in Reqs, NEW d \in Documents, QueueNext(r, d), UNCHANGED <<raced, faults>>
    PROVE  /\ QueueTyped(ResearchOps, {"evaluate_research_proposal", "evaluate_research_document"}, Papers,
                         {"running", "failed"}, 1..Cardinality(Documents), Nat)'
           /\ \A s \in Reqs : req'[s] = req[s] \/ (req'[s].op = "queue_evaluation" /\ req'[s].on \in Documents)
<1> DEFINE X == 1..Cardinality(Documents)
<1> DEFINE T == {"evaluate_research_proposal", "evaluate_research_document"}
<1>1. QueueTyped(ResearchOps, T, Papers, {"running", "failed"}, X, Nat)
  BY DEF ResearchTypes
<1>2. req \in [Reqs -> [op : ResearchOps \cup {None, "publish"}, on : Papers \cup {None}, mem : X \cup {None}, task : T \cup {None}]]
  BY <1>1 DEF QueueTyped, BackendTypeOK
<1>3. PICK a : a = [req[r] EXCEPT !.op = "queue_evaluation", !.on = d, !.mem = None]
  OBVIOUS
<1>4. req' = [req EXCEPT ![r] = a]
  BY <1>2, <1>3 DEF QueueNext
<1>5. a \in [op : ResearchOps, on : Papers \cup {None}, mem : X \cup {None}, task : T \cup {None}]
      /\ a.op = "queue_evaluation" /\ a.on = d
  BY <1>2, <1>3 DEF ResearchOps, Papers
<1>6. QueueTyped(ResearchOps, T, Papers, {"running", "failed"}, X, Nat)'
  BY <1>1, <1>4, <1>5, RequestTyped
<1>7. \A s \in Reqs : req'[s] = req[s] \/ (req'[s].op = "queue_evaluation" /\ req'[s].on \in Documents)
  BY <1>2, <1>4, <1>5
<1> QED
  BY <1>6, <1>7

LEMMA ResearchTypesNext ==
    ASSUME DocInv, ResearchTypes, ResearchNext
    PROVE  ResearchTypes'
<1> DEFINE X == 1..Cardinality(Documents)
<1> DEFINE T == {"evaluate_research_proposal", "evaluate_research_document"}
<1> DEFINE Is == QueueTyped(ResearchOps, T, Papers, {"running", "failed"}, X, Nat)
<1> DEFINE Reads == \A s \in Reqs :
                       \/ req'[s] = req[s] \/ req'[s].op = None
                       \/ /\ req'[s].op = "submit_document" => req'[s].mem \in 1..(Cardinality(DocUsed) + 1)
                          /\ req'[s].op \in {"set_file", "queue_evaluation"} => req'[s].on \in Documents
                          /\ req'[s].op = "publish" /\ req'[s].task = DocTask => req'[s].on \in Documents
<1> DEFINE Columns == /\ problem' \in [status : {"NONE", "PENDING_REVIEW"} \cup Decisions, scored : BOOLEAN]
                    /\ refiled' \in SUBSET Documents
<1>0. PICK V : DocShape(V)
  BY DEF DocInv
<1>1. Is /\ None \notin ResearchOps /\ "publish" \notin ResearchOps
  BY ResearchNames DEF ResearchTypes, ResearchOps
<1>2. DocUsed \in SUBSET Documents /\ DocUsed' \in SUBSET Documents /\ DocUsed \subseteq DocUsed'
  BY <1>0, DocColumns DEF DocUsed
<1>3. /\ Cardinality(DocUsed) \in Nat /\ Cardinality(DocUsed') \in Nat
      /\ Cardinality(DocUsed) <= Cardinality(DocUsed')
      /\ DocUsed # DocUsed' => Cardinality(DocUsed) + 1 <= Cardinality(DocUsed')
  BY <1>2, Counting, ResearchAssumption
<1>4. /\ problem \in [status : {"NONE", "PENDING_REVIEW"} \cup Decisions, scored : BOOLEAN]
      /\ refiled \in SUBSET Documents
  BY DEF ResearchTypes
<1>5. Problem \in Papers /\ Documents \subseteq Papers /\ "evaluate_research_proposal" # DocTask
  BY DEF Papers, DocTask
<1>6. ASSUME NEW r \in Reqs, ResearchRequest(r), UNCHANGED queue
      PROVE  Is' /\ Reads /\ Columns
  <2>1. CASE \/ Propose(r) \/ Decide(r) \/ SubmitDocument(r)
             \/ \E d \in Documents : SetFile(r, d) \/ ReviewDocument(r, d)
    <3>1. PICK o \in ResearchOps \ {"queue_evaluation"}, d \in Papers \cup {None} : \E x :
               /\ Begin(r, o, d, x)
               /\ o = "set_file" => d \in Documents
               /\ IF o = "submit_document" THEN x = NextDocumentVersion /\ FreshDocument # {} ELSE x = None
      BY <2>1, DocReads
    <3>2. PICK x :
               /\ Begin(r, o, d, x)
               /\ o = "set_file" => d \in Documents
               /\ IF o = "submit_document" THEN x = NextDocumentVersion /\ FreshDocument # {} ELSE x = None
      BY <3>1
    <3>3. \A d1 \in Documents : doc[d1].version \in 0..Cardinality(DocUsed)
      BY DEF ResearchTypes, DocColumnsTyped
    <3>4. x \in X \cup {None} /\ (o = "submit_document" => x \in 1..(Cardinality(DocUsed) + 1))
      BY <3>2, <3>3, DocVersionTyped
    <3>5. Is'
      BY <1>1, <1>6, <3>2, <3>4, RequestTyped
    <3>6. Reads
      BY <1>1, <3>1, <3>2, <3>4, RequestsOver
    <3>7. UNCHANGED <<problem, refiled>>
      BY <2>1 DEF Propose, Decide, SubmitDocument, SetFile, ReviewDocument
    <3> QED
      BY <1>4, <3>5, <3>6, <3>7
  <2>2. CASE WriteProposal(r)
    <3>1. EndPublishing(r, Problem, "evaluate_research_proposal")
          /\ problem' = [problem EXCEPT !.status = "PENDING_REVIEW"] /\ UNCHANGED refiled
      BY <2>2 DEF WriteProposal
    <3>2. Is'
      BY <1>1, <1>5, <1>6, <3>1, RequestTyped
    <3>3. Reads
      BY <1>1, <1>5, <3>1, DocPublished DEF ResearchOps
    <3> QED
      BY <1>4, <3>1, <3>2, <3>3
  <2>3. CASE WriteDecision(r) \/ WriteDocumentReview(r)
    <3>1. End(r) /\ UNCHANGED refiled
          /\ \/ \E s \in Decisions : problem' = [problem EXCEPT !.status = s]
             \/ UNCHANGED problem
      BY <2>3 DEF WriteDecision, WriteDocumentReview
    <3> QED
      BY <1>1, <1>4, <1>6, <3>1, RequestTyped, RequestsOver
  <2>4. CASE WriteDocument(r)
    <3>1. PICK d \in FreshDocument, f \in {0, 1} :
              /\ DocWritten(d, "SUBMITTED", req[r].mem, f, None)
              /\ \/ f = 0 /\ End(r)
                 \/ f = 1 /\ QueueNext(r, d) /\ UNCHANGED <<raced, faults>>
      BY <1>0, <2>4, DocumentWrites
    <3>2. d \in Documents /\ UNCHANGED <<problem, refiled>>
      BY <2>4 DEF FreshDocument, WriteDocument
    <3>3. CASE End(r)
      BY <1>1, <1>4, <1>6, <3>2, <3>3, RequestTyped, RequestsOver
    <3>4. CASE QueueNext(r, d) /\ UNCHANGED <<raced, faults>>
      BY <1>4, <1>6, <3>2, <3>4, DocGoesOn
    <3> QED
      BY <3>1, <3>3, <3>4
  <2>5. CASE WriteFile(r)
    <3>1. PICK d : d = req[r].on
      OBVIOUS
    <3>2. d \in Documents
      BY <2>5, <3>1 DEF WriteFile, ResearchTypes, DocReqTyped
    <3>3. QueueNext(r, d) /\ UNCHANGED <<problem, raced, faults>> /\ (refiled' = refiled \/ refiled' = refiled \cup {d})
      BY <2>5, <3>1 DEF WriteFile
    <3> QED
      BY <1>4, <1>6, <3>2, <3>3, DocGoesOn
  <2>6. CASE QueueEvaluation(r)
    <3>1. req[r].on \in Documents
      BY <2>6 DEF QueueEvaluation, ResearchTypes, DocReqTyped
    <3>2. EndPublishing(r, req[r].on, "evaluate_research_document") /\ UNCHANGED <<problem, refiled>>
      BY <2>6 DEF QueueEvaluation
    <3>3. Is'
      BY <1>1, <1>5, <1>6, <3>1, <3>2, RequestTyped
    <3>4. Reads
      BY <1>1, <3>1, <3>2, DocPublished DEF ResearchOps
    <3> QED
      BY <1>4, <3>2, <3>3, <3>4
  <2> QED
    BY <1>6, <2>1, <2>2, <2>3, <2>4, <2>5, <2>6 DEF ResearchRequest
<1>7. ASSUME NEW w \in Workers, ResearchTask(w), UNCHANGED <<req, raced>>
      PROVE  /\ Is' /\ Columns
             /\ Finish(w) \/ Retry(w) \/ UNCHANGED msg \/ \E s, t, p, x : Take(w, s, t, p, x)
  <2>1. \A p \in {"running", "failed"} : \A t \in T : In(w, t, p) => exec[w] # Idle /\ exec[w].to \in Papers
    BY <1>1 DEF In, Idle, QueueTyped, OnRows
  <2>2. lost' \in SUBSET Papers /\ (Fault \/ UNCHANGED faults)
    <3>1. lost \in SUBSET Papers
      BY <1>1 DEF QueueTyped, BackendTypeOK
    <3> QED
      BY <1>5, <1>7, <2>1, <3>1
      DEF ResearchTask, StartProposal, CommitProposal, FailProposal, StartDocument, CommitDocument, FailDocument,
          ResetDocument, ResetDocumentFails
  <2>3. exec[w].mem \in Nat \cup {None}
    BY <1>1 DEF QueueTyped, BackendTypeOK
  <2>4. ASSUME NEW m \in Slots, StartDocument(w, m)
        PROVE  \E x \in Nat : Take(w, m, "evaluate_research_document", "running", x) /\ UNCHANGED again
    <3>1. msg[m].to \in Documents
      BY <2>4, BackendAssumption DEF StartDocument, Take, ResearchTypes, DocMsgTyped, DocTask
    <3>2. doc[msg[m].to].file \in Nat
      BY <1>0, <3>1 DEF DocShape, DocRow
    <3> QED
      BY <2>4, <3>2 DEF StartDocument
  <2>5. \/ \E m \in Slots, t \in T, x \in Nat \cup {None} : Take(w, m, t, "running", x) /\ UNCHANGED again
        \/ Goto(w, "failed", exec[w].mem) /\ exec[w] # Idle /\ UNCHANGED <<msg, again>>
        \/ Finish(w)
        \/ Retry(w) /\ exec[w] # Idle
    <3>1. CASE \E m \in Slots : StartProposal(w, m) \/ StartDocument(w, m)
      BY <2>4, <3>1 DEF StartProposal
    <3>2. CASE CommitProposal(w) \/ FailProposal(w)
      BY <2>1, <3>2 DEF CommitProposal, FailProposal
    <3>3. CASE CommitDocument(w) \/ FailDocument(w) \/ ResetDocument(w) \/ ResetDocumentFails(w)
      BY <2>1, <3>3 DEF CommitDocument, FailDocument, ResetDocument, ResetDocumentFails
    <3> QED
      BY <1>7, <3>1, <3>2, <3>3 DEF ResearchTask
  <2>6. Is'
    BY <1>1, <1>7, <2>2, <2>3, <2>5, TaskTyped
  <2>7. Columns
    <3>1. CASE CommitProposal(w)
      BY <1>4, <3>1 DEF CommitProposal
    <3>2. CASE UNCHANGED <<problem, refiled>>
      BY <1>4, <3>2
    <3> QED
      BY <1>7, <3>1, <3>2
      DEF ResearchTask, StartProposal, FailProposal, StartDocument, CommitDocument, FailDocument,
          ResetDocument, ResetDocumentFails
  <2>8. Finish(w) \/ Retry(w) \/ UNCHANGED msg \/ \E s, t, p, x : Take(w, s, t, p, x)
    BY <2>5
  <2> QED
    BY <2>6, <2>7, <2>8
<1>8. ASSUME Environment, UNCHANGED <<problem, doc, refiled>> PROVE Is' /\ Reads /\ Columns
  BY <1>1, <1>4, <1>8, EnvironmentTyped, RequestsOver
<1>9. Is' /\ Reads /\ Columns
  BY <1>6, <1>7, <1>8 DEF ResearchNext
<1>10. ASSUME NEW s \in Reqs PROVE DocReqTyped(s)'
  <2>1. DocReqTyped(s)
    BY DEF ResearchTypes
  <2>2. Cardinality(DocUsed)' = Cardinality(DocUsed')
    OBVIOUS
  <2>3. None \notin {"submit_document", "set_file", "queue_evaluation", "publish"}
    BY <1>1, BackendAssumption DEF ResearchOps
  <2>4. CASE req'[s] = req[s]
    BY <1>3, <2>1, <2>2, <2>4 DEF DocReqTyped
  <2>5. CASE req'[s].op = None
    BY <2>3, <2>5 DEF DocReqTyped
  <2> QED
    BY <1>3, <1>9, <2>2, <2>4, <2>5 DEF DocReqTyped
<1>11. ASSUME NEW m \in Slots PROVE DocMsgTyped(m)'
  <2>1. DocMsgTyped(m) /\ \A r \in Reqs : DocReqTyped(r)
    BY DEF ResearchTypes
  <2>2. CASE UNCHANGED msg
    BY <2>1, <2>2 DEF DocMsgTyped, DocTask
  <2>3. ASSUME \/ \E w \in Workers : Finish(w) \/ Retry(w) \/ UNCHANGED msg \/ \E s, t, p, x : Take(w, s, t, p, x)
               \/ Environment
        PROVE  DocMsgTyped(m)'
    <3>1. \/ msg'[m].at = "none"
          \/ msg[m].at # "none" /\ msg'[m].task = msg[m].task /\ msg'[m].to = msg[m].to
          \/ \E r \in Reqs : req[r].op = "publish" /\ msg'[m].task = req[r].task /\ msg'[m].to = req[r].on
      BY <1>1, <2>3, MessagesCarry
    <3> QED
      BY <2>1, <3>1 DEF DocMsgTyped, DocReqTyped, DocTask
  <2> QED
    BY <1>7, <2>2, <2>3 DEF ResearchNext, queue
<1>12. ASSUME NEW d \in Documents PROVE DocColumnsTyped(d)'
  <2>1. doc[d].version \in 0..Cardinality(DocUsed)
    BY DEF ResearchTypes, DocColumnsTyped
  <2>2. /\ doc'[d].status \in DocStatus /\ doc'[d].evaluated \in Nat \cup {None}
        /\ \/ doc'[d].version = doc[d].version
           \/ \E r \in Reqs : /\ WriteDocument(r) /\ doc[d].status = "NONE" /\ doc'[d].status = "SUBMITTED"
                              /\ doc'[d].version = req[r].mem
    BY <1>0, DocColumns
  <2>3. ASSUME NEW r \in Reqs, WriteDocument(r), doc[d].status = "NONE", doc'[d].status = "SUBMITTED",
               doc'[d].version = req[r].mem
        PROVE  doc'[d].version \in 0..Cardinality(DocUsed')
    <3>1. req[r].mem \in 1..(Cardinality(DocUsed) + 1)
      BY <2>3 DEF ResearchTypes, DocReqTyped, WriteDocument
    <3>2. d \in DocUsed' /\ d \notin DocUsed
      BY <2>3 DEF DocUsed
    <3> QED
      BY <1>3, <2>3, <3>1, <3>2
  <2>4. doc'[d].version \in 0..Cardinality(DocUsed')
    BY <1>3, <2>1, <2>2, <2>3
  <2> QED
    BY <2>2, <2>4 DEF DocColumnsTyped
<1> QED
  BY <1>9, <1>10, <1>11, <1>12 DEF ResearchTypes

LEMMA ResearchTypesCorrect ==
    ASSUME DocInv, ResearchTypes
    PROVE  ResearchTypeOK
<1>1. PICK V : doc \in [Documents -> DocRow(V)]
  BY DEF DocInv, DocShape
<1>2. \A d \in Documents : doc[d].version \in 0..Cardinality(Documents)
  <2>1. DocUsed \in SUBSET Documents
    BY DEF DocUsed
  <2>2. /\ Cardinality(DocUsed) \in Nat /\ Cardinality(Documents) \in Nat
        /\ Cardinality(DocUsed) <= Cardinality(Documents)
    BY <2>1, Counting, ResearchAssumption
  <2> QED
    BY <2>2 DEF ResearchTypes, DocColumnsTyped
<1>3. doc \in [Documents -> [status : DocStatus, version : 0..Cardinality(Documents), file : Nat, evaluated : Nat \cup {None}]]
  BY <1>1, <1>2 DEF ResearchTypes, DocColumnsTyped, DocRow
<1> QED
  BY <1>3 DEF ResearchTypes, ResearchTypeOK, DocStatus, QueueTyped, Papers

----------------------------------------------------------------------------
(* A question to the AI providers.                                         *)

Providers == {"gemini", "groq"}
Failures == Providers \X {"quota", "fault", "empty", "refused"}

\* Lists.
LEMMA Lists ==
    ASSUME NEW S, NEW l \in Seq(S)
    PROVE  /\ <<>> \in Seq(S)
           /\ l # <<>> => Head(l) \in S /\ Tail(l) \in Seq(S)
           /\ \A x \in S : Append(l, x) \in Seq(S)
  BY HeadTailProperties, EmptySeq, AppendProperties

\* The record; its value and what was read are over some set.
AskRows(R) ==
    [feature : Features \cup {None}, left : Seq(Providers), failed : Seq(Failures),
     outcome : {None, "answered", "unasked", "stood in", "raised"},
     by : Providers \cup {None}, raw : R, value : R]

\* Who is to be asked and who has failed are lists.
AskTypes ==
    /\ \E R : ask \in AskRows(R)
    /\ (ask.outcome = "answered") <=> (ask.by # None)
    /\ ask.outcome = None => ask.value = None

LEMMA AskTypesInit ==
    ASSUME AskInit
    PROVE  AskTypes
<1>1. ask \in AskRows({None})
  BY EmptySeq DEF AskInit, NoAsk, AskRows
<1>2. ask.outcome = None /\ ask.by = None /\ ask.value = None /\ None # "answered"
  BY AskNames DEF AskInit, NoAsk
<1> QED
  BY <1>1, <1>2 DEF AskTypes

\* The providers that are left are some of the chain's.
LEMMA RestTyped ==
    ASSUME NEW f, NEW l \in Seq(Providers), l # <<>>, NEW kind, NEW quota
    PROVE  AfterFailure(f, l, kind, quota) \in Seq(Providers)
<1>1. Tail(l) \in Seq(Providers)
  BY Lists
<1>2. Len(l) = 3 => Tail(Tail(l)) \in Seq(Providers)
  <2>1. Len(l) = 3 => Tail(l) # <<>>
    OBVIOUS
  <2> QED
    BY <1>1, <2>1
<1>3. Len(ChatChain) = 3
  BY DEF ChatChain
<1> QED
  BY <1>1, <1>2, <1>3 DEF AfterFailure

\* What the last failure and one before it come to.
LEMMA FailureTyped ==
    ASSUME AskTypes, Waiting, NEW kind \in {"quota", "fault", "empty", "refused"},
           \/ Fails(kind)
           \/ GiveUp(ask.feature, Append(ask.failed, <<Head(ask.left), kind>>))
    PROVE  AskTypes'
<1>1. PICK R : ask \in AskRows(R)
  BY DEF AskTypes
<1>2. ask.left # <<>> /\ ask.outcome = None /\ ask.by = None /\ ask.value = None
  BY AskNames DEF Waiting, AskTypes
<1>3. PICK a \in Seq(Failures) : a = Append(ask.failed, <<Head(ask.left), kind>>)
  <2>1. Head(ask.left) \in Providers
    BY <1>1, <1>2, Lists DEF AskRows
  <2>2. <<Head(ask.left), kind>> \in Failures
    BY <2>1 DEF Failures
  <2>3. ask.failed \in Seq(Failures)
    BY <1>1 DEF AskRows
  <2> QED
    BY <2>2, <2>3, Lists
<1>4. ASSUME NEW x \in AskRows(R), NEW l \in Seq(Providers), NEW v
      PROVE  /\ [x EXCEPT !.failed = a, !.left = l] \in AskRows(R)
             /\ LET y == [x EXCEPT !.failed = a, !.left = l]
                IN y.outcome = x.outcome /\ y.by = x.by /\ y.value = x.value
             /\ [x EXCEPT !.failed = a, !.outcome = "raised"] \in AskRows(R)
             /\ LET y == [x EXCEPT !.failed = a, !.outcome = "raised"]
                IN y.outcome = "raised" /\ y.by = x.by /\ y.value = x.value
             /\ [x EXCEPT !.failed = a, !.outcome = "stood in", !.value = v] \in AskRows(R \cup {v})
             /\ LET y == [x EXCEPT !.failed = a, !.outcome = "stood in", !.value = v]
                IN y.outcome = "stood in" /\ y.by = x.by
  BY DEF AskRows
<1>5. ASSUME NEW l \in Seq(Providers), ask' = [ask EXCEPT !.failed = a, !.left = l]
      PROVE  AskTypes'
  <2>1. ask' \in AskRows(R) /\ ask'.outcome = None /\ ask'.by = None /\ ask'.value = None
    BY <1>1, <1>2, <1>4, <1>5
  <2>2. None # "answered" /\ AskRows(R)' = AskRows(R)
    BY AskNames DEF AskRows, Features
  <2> QED
    BY <2>1, <2>2 DEF AskTypes
<1>6. ASSUME GiveUp(ask.feature, a) PROVE AskTypes'
  <2>1. CASE ask' = [ask EXCEPT !.failed = a, !.outcome = "raised"]
    <3>1. ask' \in AskRows(R) /\ ask'.outcome = "raised" /\ ask'.by = None /\ ask'.value = None
      BY <1>1, <1>2, <1>4, <2>1, EmptySeq
    <3> QED
      BY <3>1 DEF AskTypes
  <2>2. ASSUME NEW v, ask' = [ask EXCEPT !.failed = a, !.outcome = "stood in", !.value = v]
        PROVE  AskTypes'
    <3>1. ask' \in AskRows(R \cup {v}) /\ ask'.outcome = "stood in" /\ ask'.by = None
      BY <1>1, <1>2, <1>4, <2>2, EmptySeq
    <3> QED
      BY <3>1, AskNames DEF AskTypes
  <2> QED
    BY <1>6, <2>1, <2>2 DEF GiveUp
<1>7. CASE Fails(kind)
  <2>1. PICK quota : LET rest == AfterFailure(ask.feature, ask.left, kind, quota) IN
                     IF rest = <<>> THEN GiveUp(ask.feature, a) ELSE ask' = [ask EXCEPT !.failed = a, !.left = rest]
    BY <1>3, <1>7 DEF Fails
  <2>2. PICK rest \in Seq(Providers) : rest = AfterFailure(ask.feature, ask.left, kind, quota)
    BY <1>1, <1>2, RestTyped DEF AskRows
  <2> QED
    BY <1>5, <1>6, <2>1, <2>2
<1> QED
  BY <1>3, <1>6, <1>7

LEMMA AskTypesNext ==
    ASSUME AskTypes, AskNext
    PROVE  AskTypes'
<1>1. ASSUME NEW f \in Features, NEW setting \in Settings, Ask(f, setting)
      PROVE  AskTypes'
  <2>1. PICK l \in Seq(Providers) : l = Chain(f, setting)
    <3>1. <<"gemini">> \in Seq(Providers) /\ <<"groq">> \in Seq(Providers) /\ <<"gemini", "groq">> \in Seq(Providers)
          /\ ProgramChain \in Seq(Providers) /\ ChatChain \in Seq(Providers)
      BY DEF Providers, ProgramChain, ChatChain
    <3>2. setting # "fallback" => <<setting>> \in Seq(Providers)
      BY <3>1 DEF Settings
    <3> QED
      BY <3>1, <3>2 DEF Chain
  <2>2. ask' = [feature |-> f, left |-> l, failed |-> <<>>, outcome |-> None, by |-> None, raw |-> None, value |-> None]
    BY <1>1, <2>1 DEF Ask, NoAsk
  <2>3. <<>> \in Seq(Failures) /\ None # "answered"
    BY AskNames, EmptySeq
  <2>4. ask' \in AskRows({None}) /\ ask'.outcome = None /\ ask'.by = None /\ ask'.value = None
    BY <2>2, <2>3 DEF AskRows
  <2> QED
    BY <2>3, <2>4 DEF AskTypes
<1>2. ASSUME NEW f \in Features, AnswerUnasked(f)
      PROVE  AskTypes'
  <2>1. PICK v : ask' = [NoAsk EXCEPT !.feature = f, !.outcome = "unasked", !.value = v]
    BY <1>2 DEF AnswerUnasked
  <2>2. ask' = [feature |-> f, left |-> <<>>, failed |-> <<>>, outcome |-> "unasked", by |-> None, raw |-> None, value |-> v]
    BY <2>1 DEF NoAsk
  <2>3. <<>> \in Seq(Failures) /\ <<>> \in Seq(Providers) /\ None # "unasked"
    BY AskNames, EmptySeq
  <2>4. ask' \in AskRows({None, v}) /\ ask'.outcome = "unasked" /\ ask'.by = None
    BY <2>2, <2>3 DEF AskRows
  <2> QED
    BY <2>3, <2>4 DEF AskTypes
<1>3. CASE ProviderFails
  BY <1>3, FailureTyped DEF ProviderFails
<1>4. CASE ProviderAnswers
  <2>1. PICK p : p = Head(ask.left)
    OBVIOUS
  <2>2. CASE \/ GiveUp(ask.feature, Append(ask.failed, <<p, "refused">>)) \/ Fails("refused")
    BY <1>4, <2>1, <2>2, FailureTyped DEF ProviderAnswers
  <2>3. ASSUME NEW raw, NEW v,
               ask' = [ask EXCEPT !.left = <<>>, !.failed = <<>>, !.outcome = "answered",
                                  !.by = p, !.raw = raw, !.value = v]
        PROVE  AskTypes'
    <3>1. PICK R : ask \in AskRows(R)
      BY DEF AskTypes
    <3>2. ask.left # <<>> /\ ask.left \in Seq(Providers)
      BY <1>4, <3>1 DEF ProviderAnswers, Waiting, AskRows
    <3>3. p \in Providers /\ p # None
      BY <2>1, <3>2, Lists, AskNames DEF Providers
    <3>4. <<>> \in Seq(Failures) /\ <<>> \in Seq(Providers)
      BY EmptySeq
    <3>5. ASSUME NEW x \in AskRows(R)
          PROVE  /\ [x EXCEPT !.left = <<>>, !.failed = <<>>, !.outcome = "answered",
                               !.by = p, !.raw = raw, !.value = v] \in AskRows({raw, v})
                 /\ LET y == [x EXCEPT !.left = <<>>, !.failed = <<>>, !.outcome = "answered",
                                       !.by = p, !.raw = raw, !.value = v]
                    IN y.outcome = "answered" /\ y.by = p
      BY <3>3, <3>4 DEF AskRows
    <3>6. ask' \in AskRows({raw, v}) /\ ask'.outcome = "answered" /\ ask'.by = p
      BY <2>3, <3>1, <3>5
    <3> QED
      BY <3>3, <3>6, AskNames DEF AskTypes
  <2> QED
    BY <1>4, <2>1, <2>2, <2>3 DEF ProviderAnswers
<1> QED
  BY <1>1, <1>2, <1>3, <1>4 DEF AskNext

LEMMA AskTypesCorrect ==
    ASSUME AskTypes
    PROVE  AskTypeOK
<1>1. PICK R : ask \in AskRows(R)
  BY DEF AskTypes
<1>2. ASSUME NEW S, NEW s \in Seq(S) PROVE Range(s) \subseteq S
  BY <1>2 DEF Range
<1>3. Range(ask.left) \subseteq Providers /\ Range(ask.failed) \subseteq Failures
  BY <1>1, <1>2 DEF AskRows
<1> QED
  BY <1>1, <1>3 DEF AskTypes, AskRows, AskTypeOK, Providers, Failures

----------------------------------------------------------------------------
(* The types of all the components.                                        *)

ComponentNames == {"syllabus", "kit", "package", "lab", "research", "viva", "answers", "uploads", "exports"}

TypesHold ==
    /\ component = "syllabus" => SyllabusTypes
    /\ component = "kit" => KitTypes
    /\ component = "package" => PackageTypes
    /\ component = "lab" => LabTypes
    /\ component = "research" => ResearchTypes
    /\ component = "viva" => VivaTypes
    /\ component = "answers" => AskTypes
    /\ component \in {"uploads", "exports"} => FilesTypes

\* With the invariants of the components, which say what their rows are.
TypesInv ==
    /\ component \in ComponentNames
    /\ HumanWorkInv /\ RowsInv /\ TypesHold

LEMMA TypesInitHolds ==
    ASSUME Init
    PROVE  TypesInv
<1>1. SyllabusInit /\ KitInit /\ PackageInit /\ LabInit /\ ResearchInit /\ VivaInit /\ AskInit /\ ExportsInit
  BY DEF Init
<1>2. SyllabusTypes /\ KitTypes /\ PackageTypes /\ LabTypes
  BY <1>1, SyllabusTypesInit, KitTypesInit, PackageTypesInit, LabTypesInit
<1>3. ResearchTypes /\ VivaTypes /\ AskTypes /\ FilesTypes
  BY <1>1, ResearchTypesInit, VivaTypesInit, AskTypesInit, FilesTypesInit
<1>4. component \in ComponentNames
  BY DEF Init, ComponentNames
<1> QED
  BY <1>2, <1>3, <1>4, HumanWorkInitHolds, RowsInitHolds DEF TypesInv, TypesHold

\* What does not change keeps its types.
LEMMA TypesStutter ==
    ASSUME TypesHold, UNCHANGED curriculum
    PROVE  TypesHold'
<1>1. /\ UNCHANGED <<component, syl, kit, pkg, mixed, asg, sub, problem, doc, refiled, viva, reopened, ask>>
      /\ UNCHANGED files /\ UNCHANGED <<req, raced, msg, exec, again, lost, faults>>
  BY DEF curriculum, package, lab, research, vivas, backend, queue
<1>2. ASSUME NEW O, NEW T, NEW R, NEW P, NEW X, NEW N, QueueTyped(O, T, R, P, X, N)
      PROVE  QueueTyped(O, T, R, P, X, N)'
  BY <1>1, <1>2 DEF QueueTyped, BackendTypeOK, OnRows, Idle
<1>3. component = "syllabus" => SyllabusTypes'
  BY <1>1, <1>2 DEF TypesHold, SyllabusTypes, SyllabusUsed
<1>4. component = "kit" => KitTypes'
  BY <1>1, <1>2 DEF TypesHold, KitTypes, KitUsed
<1>5. component = "package" => PackageTypes'
  BY <1>1, <1>2 DEF TypesHold, PackageTypes
<1>6. component = "lab" => LabTypes'
  BY <1>1, <1>2 DEF TypesHold, LabTypes
<1>7. component = "research" => ResearchTypes'
  BY <1>1, <1>2 DEF TypesHold, ResearchTypes, DocUsed, DocColumnsTyped, DocReqTyped, DocMsgTyped
<1>8. component = "viva" => VivaTypes'
  BY <1>1, <1>2 DEF TypesHold, VivaTypes, VivaColumnsTyped
<1>9. component = "answers" => AskTypes'
  BY <1>1 DEF TypesHold, AskTypes
<1>10. component \in {"uploads", "exports"} => FilesTypes'
  BY <1>1, <1>2 DEF TypesHold, FilesTypes, files
<1> QED
  BY <1>1, <1>3, <1>4, <1>5, <1>6, <1>7, <1>8, <1>9, <1>10 DEF TypesHold

LEMMA TypesNextHolds ==
    ASSUME TypesInv, [Next]_curriculum
    PROVE  TypesInv'
<1>1. UNCHANGED component /\ HumanWorkInv' /\ RowsInv'
  BY ComponentStep, HumanWorkNextHolds, RowsNextHolds DEF TypesInv
<1>2. ASSUME UNCHANGED curriculum PROVE TypesHold'
  BY <1>2, TypesStutter DEF TypesInv
<1>3. ASSUME Next PROVE TypesHold'
  <2>1. component = "syllabus" => SyllabusTypes'
    BY <1>3, SyllabusTypesNext DEF Next, TypesInv, TypesHold, RowsInv, DocumentsInv
  <2>2. component = "kit" => KitTypes'
    BY <1>3, KitTypesNext DEF Next, TypesInv, TypesHold, RowsInv, DocumentsInv
  <2>3. component = "package" => PackageTypes'
    BY <1>3, PackageTypesNext DEF Next, TypesInv, TypesHold, RowsInv, DocumentsInv
  <2>4. component = "lab" => LabTypes'
    BY <1>3, LabTypesNext DEF Next, TypesInv, TypesHold
  <2>5. component = "research" => ResearchTypes'
    BY <1>3, ResearchTypesNext DEF Next, TypesInv, TypesHold, HumanWorkInv
  <2>6. component = "viva" => VivaTypes'
    BY <1>3, VivaTypesNext DEF Next, TypesInv, TypesHold, HumanWorkInv
  <2>7. component = "answers" => AskTypes'
    BY <1>3, AskTypesNext DEF Next, TypesInv, TypesHold
  <2>8. component \in {"uploads", "exports"} => FilesTypes'
    BY <1>3, FilesTypesNext DEF Next, TypesInv, TypesHold, RowsInv, FilesNext
  <2> QED
    BY <1>1, <2>1, <2>2, <2>3, <2>4, <2>5, <2>6, <2>7, <2>8 DEF TypesHold
<1>4. component' \in ComponentNames
  BY <1>1 DEF TypesInv, ComponentNames
<1> QED
  BY <1>1, <1>2, <1>3, <1>4 DEF TypesInv

\* Every component keeps the types of its rows, requests, messages and tasks, in every
\* behaviour: what a request read and a worker noted is what its write takes it for, and a
\* request that publishes, a message and a running task are on a row.
THEOREM TypesAlways == Spec => []TypeOK
<1>1. ASSUME TypesInv PROVE TypeOK
  <2>1. component = "syllabus" => SyllabusTypeOK
    BY <1>1, SyllabusTypesCorrect DEF TypesInv, TypesHold, RowsInv, DocumentsInv
  <2>2. component = "kit" => KitTypeOK
    BY <1>1, KitTypesCorrect DEF TypesInv, TypesHold, RowsInv, DocumentsInv
  <2>3. component = "package" => PackageTypeOK
    BY <1>1, PackageTypesCorrect DEF TypesInv, TypesHold, RowsInv, DocumentsInv
  <2>4. component = "lab" => LabTypeOK
    BY <1>1, LabTypesCorrect DEF TypesInv, TypesHold
  <2>5. component = "research" => ResearchTypeOK
    BY <1>1, ResearchTypesCorrect DEF TypesInv, TypesHold, HumanWorkInv
  <2>6. component = "viva" => VivaTypeOK
    BY <1>1, VivaTypesCorrect DEF TypesInv, TypesHold, HumanWorkInv
  <2>7. component = "answers" => AskTypeOK
    BY <1>1, AskTypesCorrect DEF TypesInv, TypesHold
  <2>8. component \in {"uploads", "exports"} => ExportsTypeOK
    BY <1>1, FilesTypesCorrect DEF TypesInv, TypesHold, RowsInv
  <2>9. component \in ComponentNames
    BY <1>1 DEF TypesInv
  <2> QED
    BY <2>1, <2>2, <2>3, <2>4, <2>5, <2>6, <2>7, <2>8, <2>9 DEF TypeOK, ComponentNames
<1> QED
  BY <1>1, TypesInitHolds, TypesNextHolds, PTL DEF Spec
=============================================================================
