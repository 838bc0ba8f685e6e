-------------------------- MODULE PaperAdminProofs --------------------------
(***************************************************************************)
(* Type correctness of PaperAdmin, the completeness of the marks behind    *)
(* the gates, and the refinement of ScoreLedger, for any set of requests,  *)
(* workers, evaluators and questions and any number of faults.             *)
(***************************************************************************)
EXTENDS PaperAdmin, TLAPS

----------------------------------------------------------------------------
(* Type correctness.                                                       *)

\* The requests the checks begin are well formed.
LEMMA RequestTypes ==
    /\ \A op \in Ops : Asked(op) \in Request
    /\ \A users \in SUBSET Users : [Asked("assign") EXCEPT !.users = users] \in Request
    /\ \A given \in Ledger!Marks :
          /\ [Asked("mark") EXCEPT !.given = given] \in Request
          /\ [Asked("submit") EXCEPT !.given = given] \in Request
<1>1. Ledger!Nothing \in Ledger!Marks
    BY DEF Ledger!Nothing, Ledger!Marks
<1> QED
    BY <1>1 DEF Asked, Request, Ops

\* What a check leaves is well typed.
LEMMA BeginType ==
    ASSUME TypeOK, NEW r \in Reqs, NEW a \in Request, Begin(r, a)
    PROVE  TypeOK'
BY DEF TypeOK, Begin, script, evaluations, broker

\* A request that answers, or moves on to its next part, stays well formed.
LEMMA EndType ==
    ASSUME TypeOK, NEW r \in Reqs,
           End(r) \/ \E op \in Ops : req' = [req EXCEPT ![r] = Asked(op)]
    PROVE  req' \in [Reqs -> Request]
BY RequestTypes DEF TypeOK, End, Ops

\* Marks overlaid by given ones are marks.
LEMMA OverlayType ==
    ASSUME TypeOK, NEW given \in Ledger!Marks
    PROVE  Overlay(given) \in Ledger!Marks
BY DEF TypeOK, Overlay, Ledger!Marks

\* The broker's part of a step: a message more, a message less, a phase.
LEMMA BrokerTypes ==
    ASSUME TypeOK
    PROVE  /\ \A t \in Tasks : Publish(t) => queue' \in [Tasks -> Nat]
           /\ \A w \in Workers, t \in Tasks : Take(w, t) =>
                 /\ queue' \in [Tasks -> Nat]
                 /\ exec' \in [Workers -> [task : Tasks, phase : Phases, text : BOOLEAN]]
           /\ \A w \in Workers, p \in Phases : Goto(w, p) =>
                 exec' \in [Workers -> [task : Tasks, phase : Phases, text : BOOLEAN]]
           /\ \A w \in Workers :
                 [exec EXCEPT ![w] = IdleExec]
                    \in [Workers -> [task : Tasks, phase : Phases, text : BOOLEAN]]
           /\ \A w \in Workers : exec[w].task \in Tasks
<1> USE DEF TypeOK
<1>1. \A t \in Tasks : Publish(t) => queue' \in [Tasks -> Nat]
    BY DEF Publish
<1>2. IdleExec \in [task : Tasks, phase : Phases, text : BOOLEAN]
    BY DEF IdleExec, Tasks, Phases
<1>3. ASSUME NEW w \in Workers, NEW t \in Tasks, Take(w, t)
      PROVE  /\ queue' \in [Tasks -> Nat]
             /\ exec' \in [Workers -> [task : Tasks, phase : Phases, text : BOOLEAN]]
    <2>1. queue[t] - 1 \in Nat
      BY <1>3 DEF Take
    <2>2. [task |-> t, phase |-> "running", text |-> text]
             \in [task : Tasks, phase : Phases, text : BOOLEAN]
      BY DEF Phases
    <2> QED
      BY <1>3, <2>1, <2>2 DEF Take
<1>4. ASSUME NEW w \in Workers, NEW p \in Phases, Goto(w, p)
      PROVE  exec' \in [Workers -> [task : Tasks, phase : Phases, text : BOOLEAN]]
    BY <1>4 DEF Goto
<1> QED
    BY <1>1, <1>2, <1>3, <1>4

\* The steps of requests keep the types.
LEMMA RequestStepType ==
    ASSUME TypeOK, NEW r \in Reqs, CreateScript(r) \/ Check(r) \/ Write(r) \/ Abandon(r)
    PROVE  TypeOK'
<1>1. CASE CreateScript(r)
    BY <1>1, EndType DEF CreateScript, TypeOK, ScriptStatus, Ops, evaluations, broker, history
<1>2. CASE Check(r)
    <2>1. ASSUME NEW users \in SUBSET Users, AssignEvaluatorCheck(r, users)
          PROVE  TypeOK'
      BY <2>1, RequestTypes, BeginType DEF AssignEvaluatorCheck
    <2>2. ASSUME NEW given \in Ledger!Marks, NEW u \in Users,
                 \/ UpdateMarksCheck(r, given) \/ AcceptSuggestionsCheck(r, given)
                 \/ SubmitMarksCheck(r, u, given)
          PROVE  TypeOK'
      BY <2>2, RequestTypes, BeginType
         DEF UpdateMarksCheck, AcceptSuggestionsCheck, SubmitMarksCheck
    <2>3. CASE BoardFinaliseCheck(r) \/ OverrideQualityCheck(r)
      BY <2>3, RequestTypes, BeginType DEF BoardFinaliseCheck, OverrideQualityCheck, Ops
    <2>4. ASSUME NEW given \in Ledger!Marks,
                 UpdateMarksCheck(r, given) \/ AcceptSuggestionsCheck(r, given)
          PROVE  TypeOK'
      BY <2>4, RequestTypes, BeginType DEF UpdateMarksCheck, AcceptSuggestionsCheck
    <2> QED
      BY <1>2, <2>1, <2>2, <2>3, <2>4 DEF Check
<1>3. CASE SetEvalJob(r) \/ OverrideQualityWrite(r)
    BY <1>3, EndType DEF SetEvalJob, OverrideQualityWrite, TypeOK, ScriptStatus, Ops,
                         evaluations, broker, history
<1>4. CASE DispatchScript(r) \/ OverrideQualityDispatch(r)
    BY <1>4, EndType, BrokerTypes DEF DispatchScript, OverrideQualityDispatch, TypeOK, Tasks,
                                      script, evaluations, history
<1>5. CASE AssignEvaluatorWrite(r)
    BY <1>5, EndType DEF AssignEvaluatorWrite, TypeOK, Request, evaluations, broker, history
<1>6. CASE UpdateMarksWrite(r)
    BY <1>6, EndType, OverlayType DEF UpdateMarksWrite, TypeOK, Request, script, broker, history
<1>7. CASE SubmitMarksWrite(r)
    BY <1>7, EndType, OverlayType DEF SubmitMarksWrite, TypeOK, Request, ScriptStatus,
                                      broker, history
<1>8. CASE BoardFinaliseWrite(r)
    <2>1. CASE total = NoMark
      <3>1. final' \in Ledger!Marks \/ final' = final
        BY <1>8, <2>1 DEF BoardFinaliseWrite, TypeOK, Ledger!Marks
      <3> QED
        BY <1>8, <2>1, <3>1, EndType DEF BoardFinaliseWrite, TypeOK, ScriptStatus, broker, history
    <2>2. CASE total # NoMark
      BY <1>8, <2>2, EndType DEF BoardFinaliseWrite, TypeOK, broker, history
    <2> QED
      BY <2>1, <2>2
<1>9. CASE Abandon(r)
    BY <1>9, EndType, PaperAdminAssumption
       DEF Abandon, Fault, TypeOK, script, evaluations, broker
<1> QED
    BY <1>1, <1>2, <1>3, <1>4, <1>5, <1>6, <1>7, <1>8, <1>9 DEF Write

\* The steps of workers keep the types.
LEMMA WorkerStepType ==
    ASSUME TypeOK, NEW w \in Workers,
           \/ Start(w) \/ Work(w)
           \/ WorkerCrash(w) \/ ProcessLost(w) \/ Redeliver(w)
    PROVE  TypeOK'
<1> USE BrokerTypes DEF script, evaluations, broker, history, Tasks, Phases
<1>1. CASE Start(w)
    BY <1>1 DEF Start, QualityStart, OcrStart, ScoreStart, TypeOK, ScriptStatus
<1>2. CASE QualityResult(w)
    BY <1>2 DEF QualityResult, TypeOK, ScriptStatus
<1>3. CASE OcrResult(w)
    BY <1>3 DEF OcrResult, TypeOK, ScriptStatus
<1>4. CASE Chain(w)
    BY <1>4 DEF Chain, TypeOK
<1>5. CASE ScoreResult(w) \/ ScoreNoQuestions(w) \/ ScoreDuplicate(w)
    BY <1>5 DEF ScoreResult, ScoreNoQuestions, ScoreDuplicate, TypeOK, ScriptStatus
<1>f. Fault => faults' \in 0..MaxFaults
    BY PaperAdminAssumption DEF Fault, TypeOK
<1>6. CASE TaskFail(w)
    <2>1. queue' \in [Tasks -> Nat] /\ faults' \in 0..MaxFaults /\ lost' \in BOOLEAN
      BY <1>6, <1>f DEF TaskFail, TypeOK
    <2>2. status' \in ScriptStatus \cup {"NONE"}
      BY <1>6 DEF TaskFail, TypeOK, ScriptStatus
    <2> QED
      BY <1>6, <2>1, <2>2 DEF TaskFail, TypeOK
<1>7. CASE WorkerCrash(w)
    <2>1. queue' \in [Tasks -> Nat] /\ faults' \in 0..MaxFaults
      BY <1>7, <1>f DEF WorkerCrash
    <2>2. stray' \in BOOLEAN
      BY <1>7 DEF WorkerCrash, TypeOK
    <2> QED
      BY <1>7, <2>1, <2>2 DEF WorkerCrash, TypeOK
<1>8. CASE ProcessLost(w)
    BY <1>8, <1>f DEF ProcessLost, TypeOK
<1>9. CASE Redeliver(w)
    <2>1. queue' \in [Tasks -> Nat] /\ faults' \in 0..MaxFaults
      BY <1>9, <1>f DEF Redeliver
    <2> QED
      BY <1>9, <2>1 DEF Redeliver, TypeOK
<1>10. CASE Ack(w)
    BY <1>10 DEF Ack, TypeOK
<1> QED
    BY <1>1, <1>2, <1>3, <1>4, <1>5, <1>6, <1>7, <1>8, <1>9, <1>10 DEF Work

\* The script, its rows, its ledger row, the messages and the pending requests
\* stay within what the code stores: the rows are made together or not at all,
\* and a stored total is the sum of some marks.
THEOREM TypeCorrect == Spec => []TypeOK
<1>1. Init => TypeOK
    <2>1. Ledger!Nothing \in Ledger!Marks
      BY DEF Ledger!Nothing, Ledger!Marks
    <2>2. Init => queue \in [Tasks -> Nat] /\ faults \in 0..MaxFaults
      BY PaperAdminAssumption DEF Init
    <2>3. Init => req \in [Reqs -> Request]
      BY RequestTypes DEF Init, Ops
    <2>4. Init => exec \in [Workers -> [task : Tasks, phase : Phases, text : BOOLEAN]]
      BY DEF Init, IdleExec, Tasks, Phases
    <2> QED
      BY <2>1, <2>2, <2>3, <2>4 DEF Init, TypeOK
<1>2. TypeOK /\ [Next]_vars => TypeOK'
    <2> SUFFICES ASSUME TypeOK, [Next]_vars PROVE TypeOK'
      OBVIOUS
    <2>1. CASE UNCHANGED vars
      BY <2>1 DEF TypeOK, vars, script, evaluations, broker, history
    <2> QED
      BY <2>1, RequestStepType, WorkerStepType DEF Next
<1> QED
    BY <1>1, <1>2, PTL DEF Spec

----------------------------------------------------------------------------
(* The marks behind the gates.  A script reaches MARKS_SUBMITTED with every *)
(* question marked; the rows are made once and their marks are never taken  *)
(* away, so it stays complete in any status, and a Board that read          *)
(* MARKS_SUBMITTED may write its decision at any later time.               *)

GateInv ==
    status \in Gated \/ (\E r \in Reqs : req[r].op = "finalise") => Complete(mark)

\* Marks given never take one away.
LEMMA OverlayComplete ==
    ASSUME TypeOK, Complete(mark), NEW given \in Ledger!Marks
    PROVE  Complete(Overlay(given))
BY DEF TypeOK, Complete, Overlay

\* The steps of requests.
LEMMA GateRequestStep ==
    ASSUME TypeOK, GateInv, NEW r \in Reqs,
           CreateScript(r) \/ Check(r) \/ Write(r) \/ Abandon(r)
    PROVE  GateInv'
<1> USE DEF GateInv, TypeOK, Asked, Gated
<1>1. ASSUME NEW a \in Request, Begin(r, a),
             a.op = "finalise" => status = "MARKS_SUBMITTED"
      PROVE  GateInv'
    BY <1>1 DEF Begin, script, evaluations, Complete
<1>2. CASE Check(r)
    <2>1. ASSUME NEW users \in SUBSET Users, AssignEvaluatorCheck(r, users)
          PROVE  GateInv'
      BY <2>1, <1>1, RequestTypes DEF AssignEvaluatorCheck
    <2>2. ASSUME NEW given \in Ledger!Marks,
                 UpdateMarksCheck(r, given) \/ AcceptSuggestionsCheck(r, given)
          PROVE  GateInv'
      BY <2>2, <1>1, RequestTypes DEF UpdateMarksCheck, AcceptSuggestionsCheck
    <2>3. ASSUME NEW given \in Ledger!Marks, NEW u \in Users, SubmitMarksCheck(r, u, given)
          PROVE  GateInv'
      BY <2>3, <1>1, RequestTypes DEF SubmitMarksCheck
    <2>4. CASE BoardFinaliseCheck(r) \/ OverrideQualityCheck(r)
      BY <2>4, <1>1, RequestTypes DEF BoardFinaliseCheck, OverrideQualityCheck, Ops
    <2> QED
      BY <1>2, <2>1, <2>2, <2>3, <2>4 DEF Check
<1>3. CASE CreateScript(r) \/ SetEvalJob(r) \/ OverrideQualityWrite(r)
    BY <1>3 DEF CreateScript, SetEvalJob, OverrideQualityWrite, evaluations, Complete
<1>4. CASE DispatchScript(r) \/ OverrideQualityDispatch(r) \/ AssignEvaluatorWrite(r)
           \/ Abandon(r)
    BY <1>4 DEF DispatchScript, OverrideQualityDispatch, AssignEvaluatorWrite, Abandon, End,
                script, evaluations, Complete
<1>5. \A s \in Reqs : End(r) /\ req'[s].op = "finalise" => req[s].op = "finalise"
    BY DEF End
<1>6. CASE UpdateMarksWrite(r)
    <2>1. mark' = Overlay(req[r].given) /\ rows' = rows /\ status' = status /\ End(r)
      BY <1>6 DEF UpdateMarksWrite, script
    <2>2. req[r].given \in Ledger!Marks
      BY DEF Request
    <2>3. Complete(mark) => Complete(Overlay(req[r].given))
      BY <2>2, OverlayComplete
    <2>4. Complete(mark) => Complete(mark)'
      BY <2>1, <2>3 DEF Complete
    <2> QED
      BY <2>1, <2>4, <1>5
<1>7. CASE SubmitMarksWrite(r)
    <2>1. rows' = rows /\ End(r)
      BY <1>7 DEF SubmitMarksWrite
    <2>2. \/ Complete(mark')
          \/ mark' = mark /\ status' = status
      BY <1>7 DEF SubmitMarksWrite
    <2> QED
      BY <2>1, <2>2, <1>5 DEF Complete
<1>8. CASE BoardFinaliseWrite(r)
    BY <1>8, <1>5 DEF BoardFinaliseWrite, Complete
<1> QED
    BY <1>2, <1>3, <1>4, <1>6, <1>7, <1>8 DEF Write

\* The steps of workers: none sets a gated status, and the one that makes rows
\* finds none.
LEMMA GateWorkerStep ==
    ASSUME TypeOK, GateInv, NEW w \in Workers,
           \/ Start(w) \/ Work(w)
           \/ WorkerCrash(w) \/ ProcessLost(w) \/ Redeliver(w)
    PROVE  GateInv'
<1>1. /\ mark' = mark /\ req' = req
      /\ status' \in Gated => status' = status
    BY DEF Start, Work, QualityStart, OcrStart, ScoreStart, QualityResult, OcrResult, Chain,
           ScoreResult, ScoreNoQuestions, ScoreDuplicate, TaskFail, Ack,
           WorkerCrash, ProcessLost, Redeliver, script, evaluations, Gated
<1>2. rows' = rows \/ (rows = {} /\ status' \notin Gated)
    BY DEF Start, Work, QualityStart, OcrStart, ScoreStart, QualityResult, OcrResult, Chain,
           ScoreResult, ScoreNoQuestions, ScoreDuplicate, TaskFail, Ack,
           WorkerCrash, ProcessLost, Redeliver, script, evaluations, Gated
<1> QED
    BY <1>1, <1>2 DEF GateInv, Complete

LEMMA GateStep == TypeOK /\ GateInv /\ [Next]_vars => GateInv'
<1> SUFFICES ASSUME TypeOK, GateInv, [Next]_vars PROVE GateInv'
    OBVIOUS
<1>1. CASE UNCHANGED vars
    BY <1>1 DEF GateInv, vars, script, evaluations, Complete
<1> QED
    BY <1>1, GateRequestStep, GateWorkerStep DEF Next

\* GateInv is an invariant.
LEMMA GateAlways == Spec => []GateInv
<1>1. Init => GateInv
    BY DEF Init, GateInv, Gated, Asked
<1> QED
    BY <1>1, GateStep, TypeCorrect, PTL DEF Spec

\* A script the evaluator submitted or the Board finalised has a mark for every
\* question, for any overlap of requests, tasks that run again, and faults.
THEOREM GatedHolds == Spec => []GatedComplete
<1>1. GateInv => GatedComplete
    BY DEF GateInv, GatedComplete
<1> QED
    BY <1>1, GateAlways, PTL

----------------------------------------------------------------------------
(* PaperAdmin implements ScoreLedger.                                      *)

\* A Board decision that is written is the ledger's one Record step.
LEMMA FinaliseRecords ==
    ASSUME TypeOK, GateInv, NEW r \in Reqs, BoardFinaliseWrite(r)
    PROVE  [Ledger!Record]_<<final, total>>
<1>1. CASE total = NoMark
    <2>1. /\ final' = [q \in Questions |-> IF q \in rows THEN mark[q] ELSE NoMark]
          /\ total' = Ledger!SumOf(final')
      BY <1>1 DEF BoardFinaliseWrite
    <2>2. final' \in Ledger!Marks
      BY <2>1 DEF TypeOK, Ledger!Marks
    <2>3. PICK q \in rows : mark[q] # NoMark
      BY DEF BoardFinaliseWrite, GateInv, Complete
    <2>4. final'[q] # NoMark /\ q \in Questions
      BY <2>1, <2>3 DEF TypeOK
    <2>5. final' # Ledger!Nothing
      BY <2>4 DEF Ledger!Nothing
    <2> QED
      BY <1>1, <2>1, <2>2, <2>5 DEF Ledger!Record
<1>2. CASE total # NoMark
    BY <1>2 DEF BoardFinaliseWrite
<1> QED
    BY <1>1, <1>2

\* Nothing else touches the final marks or the ledger.
LEMMA OthersStutter ==
    ASSUME [Next]_vars, \A r \in Reqs : ~BoardFinaliseWrite(r)
    PROVE  UNCHANGED <<final, total>>
<1>1. ASSUME NEW r \in Reqs, CreateScript(r) \/ Check(r) \/ Write(r) \/ Abandon(r)
      PROVE  UNCHANGED <<final, total>>
    BY <1>1 DEF CreateScript, Check, AssignEvaluatorCheck, UpdateMarksCheck,
                AcceptSuggestionsCheck, SubmitMarksCheck, BoardFinaliseCheck,
                OverrideQualityCheck, Begin, Write, SetEvalJob, DispatchScript,
                AssignEvaluatorWrite, OverrideQualityWrite, OverrideQualityDispatch,
                UpdateMarksWrite, SubmitMarksWrite, Abandon, evaluations
<1>2. ASSUME NEW w \in Workers,
             \/ Start(w) \/ Work(w)
             \/ WorkerCrash(w) \/ ProcessLost(w) \/ Redeliver(w)
      PROVE  UNCHANGED <<final, total>>
    BY <1>2 DEF Start, Work, QualityStart, OcrStart, ScoreStart, QualityResult, OcrResult,
                Chain, ScoreResult, ScoreNoQuestions, ScoreDuplicate, TaskFail, Ack,
                WorkerCrash, ProcessLost, Redeliver, evaluations
<1>3. CASE UNCHANGED vars
    BY <1>3 DEF vars, evaluations
<1> QED
    BY <1>1, <1>2, <1>3 DEF Next

\* board_finalise implements ScoreLedger: the ledger row and the final marks are
\* written together, once, for a completely marked script, for any number of
\* requests, workers and faults.
THEOREM Implements == Spec => LedgerOnce
<1>1. Init => Ledger!Init
    BY DEF Init, Ledger!Init
<1>2. TypeOK /\ GateInv /\ [Next]_vars => [Ledger!Record]_<<final, total>>
    BY FinaliseRecords, OthersStutter
<1> QED
    BY <1>1, <1>2, TypeCorrect, GateAlways, PTL DEF Spec, LedgerOnce, Ledger!Spec

----------------------------------------------------------------------------
(* What was submitted stays.  While no two requests have overlapped and no  *)
(* task has run after the script moved on, one thing at a time pushes the   *)
(* script through the pipeline: a request that has still to publish, a      *)
(* message, or a body that runs.  It is there only in a status of the       *)
(* pipeline, so no task writes behind a gate, and the status a request      *)
(* checked is the status it writes upon.                                    *)

Bearers == {"setJob", "dispatch", "dispatchOcr"}

Bearing == \E r \in Reqs : req[r].op \in Bearers

Waiting == \E t \in Tasks : queue[t] > 0

Busy(w) == exec[w].phase \in {"running", "saved"}

Running == \E w \in Workers : Busy(w)

OneRequest == \A r, s \in Reqs : req[r].op # "idle" /\ req[s].op # "idle" => r = s

OnePush ==
    /\ \A t \in Tasks : queue[t] \in {0, 1}
    /\ \A s, t \in Tasks : queue[s] > 0 /\ queue[t] > 0 => s = t
    /\ \A w, v \in Workers : Busy(w) /\ Busy(v) => w = v
    /\ ~(Bearing /\ Waiting) /\ ~(Bearing /\ Running) /\ ~(Waiting /\ Running)

Moving == InPipeline \cup {"FAILED"}

Pushed == Bearing \/ Waiting \/ Running => status \in Moving

ChecksHold ==
    \A r \in Reqs :
       /\ req[r].op # "idle" => status # "NONE"
       /\ req[r].op \in {"mark", "submit"} => status \in Markable
       /\ req[r].op = "finalise" => status = "MARKS_SUBMITTED"
       /\ req[r].op = "override" => status = "QUALITY_FAILED"

Rested == \A w \in Workers : exec[w].phase = "idle" => exec[w] = IdleExec

Orderly == OneRequest /\ OnePush /\ Pushed /\ ChecksHold

Tidy == Rested /\ (~raced /\ ~stray => Orderly)

\* What happened once has happened.
LEMMA HistoryGrows ==
    ASSUME TypeOK, [Next]_vars
    PROVE  (~raced' => ~raced) /\ (~stray' => ~stray)
<1>0. raced \in BOOLEAN /\ stray \in BOOLEAN
    BY DEF TypeOK
<1>1. ASSUME NEW r \in Reqs, Check(r)
      PROVE  (~raced' => ~raced) /\ stray' = stray
    BY <1>0, <1>1 DEF Check, AssignEvaluatorCheck, UpdateMarksCheck,
           AcceptSuggestionsCheck, SubmitMarksCheck, BoardFinaliseCheck,
           OverrideQualityCheck, Begin
<1>2. ASSUME NEW r \in Reqs, OverrideQualityWrite(r)
      PROVE  raced' = raced /\ (~stray' => ~stray)
    BY <1>0, <1>2 DEF OverrideQualityWrite
<1>3. ASSUME NEW r \in Reqs,
             \/ CreateScript(r) \/ Abandon(r)
             \/ SetEvalJob(r) \/ DispatchScript(r) \/ AssignEvaluatorWrite(r)
             \/ OverrideQualityDispatch(r) \/ UpdateMarksWrite(r) \/ SubmitMarksWrite(r)
             \/ BoardFinaliseWrite(r)
      PROVE  UNCHANGED <<raced, stray>>
    BY <1>3 DEF CreateScript, SetEvalJob, DispatchScript, AssignEvaluatorWrite,
                OverrideQualityDispatch, UpdateMarksWrite, SubmitMarksWrite,
                BoardFinaliseWrite, Abandon, history
<1>4. ASSUME NEW w \in Workers, Start(w) \/ Work(w) \/ ProcessLost(w)
      PROVE  UNCHANGED <<raced, stray>>
    BY <1>4 DEF Start, Work, QualityStart, OcrStart, ScoreStart, QualityResult, OcrResult,
                Chain, ScoreResult, ScoreNoQuestions, ScoreDuplicate, TaskFail, Ack,
                ProcessLost, history
<1>5. ASSUME NEW w \in Workers, WorkerCrash(w)
      PROVE  raced' = raced /\ (~stray' => ~stray)
    BY <1>0, <1>5 DEF WorkerCrash
<1>6. ASSUME NEW w \in Workers, Redeliver(w)
      PROVE  raced' = raced /\ stray' = TRUE
    BY <1>6 DEF Redeliver
<1>7. CASE UNCHANGED vars
    BY <1>7 DEF vars, history
<1> QED
    BY <1>1, <1>2, <1>3, <1>4, <1>5, <1>6, <1>7 DEF Next, Write

\* An idle worker has nothing left of its last message.
LEMMA RestedStep ==
    ASSUME TypeOK, Rested, [Next]_vars
    PROVE  Rested'
<1>1. ASSUME NEW r \in Reqs, CreateScript(r) \/ Check(r) \/ Write(r) \/ Abandon(r)
      PROVE  exec' = exec
    BY <1>1 DEF CreateScript, Check, AssignEvaluatorCheck, UpdateMarksCheck,
                AcceptSuggestionsCheck, SubmitMarksCheck, BoardFinaliseCheck,
                OverrideQualityCheck, Begin, Write, SetEvalJob, DispatchScript,
                AssignEvaluatorWrite, OverrideQualityWrite, OverrideQualityDispatch,
                UpdateMarksWrite, SubmitMarksWrite, BoardFinaliseWrite, Abandon, broker
<1>2. ASSUME NEW w \in Workers,
             \/ Start(w) \/ Work(w)
             \/ WorkerCrash(w) \/ ProcessLost(w) \/ Redeliver(w)
      PROVE  \/ exec' = exec
             \/ exec' = [exec EXCEPT ![w] = IdleExec]
             \/ \E p \in {"saved", "over"} : exec' = [exec EXCEPT ![w].phase = p]
             \/ \E t \in Tasks : exec' = [exec EXCEPT ![w] =
                                   [task |-> t, phase |-> "running", text |-> text]]
    BY <1>2 DEF Start, Work, QualityStart, OcrStart, ScoreStart, QualityResult, OcrResult,
                Chain, ScoreResult, ScoreNoQuestions, ScoreDuplicate, TaskFail, Ack, Take,
                Goto, Tasks, WorkerCrash, ProcessLost, Redeliver
<1>3. CASE UNCHANGED vars
    BY <1>3 DEF vars, broker, Rested
<1>4. ASSUME NEW w \in Workers,
             \/ exec' = exec
             \/ exec' = [exec EXCEPT ![w] = IdleExec]
             \/ \E p \in {"saved", "over"} : exec' = [exec EXCEPT ![w].phase = p]
             \/ \E t \in Tasks : exec' = [exec EXCEPT ![w] =
                                   [task |-> t, phase |-> "running", text |-> text]]
      PROVE  Rested'
    BY <1>4 DEF Rested, TypeOK
<1>5. exec' = exec => Rested'
    BY DEF Rested
<1> QED
    BY <1>1, <1>2, <1>3, <1>4, <1>5 DEF Next

\* A check passed: the request asks for what the status allows.
LEMMA CheckOrderly ==
    ASSUME TypeOK, Orderly, NEW r \in Reqs, Check(r), ~raced'
    PROVE  Orderly'
<1>1. ASSUME NEW a \in Request, Begin(r, a),
             a.op \notin Bearers \cup {"idle"}, status # "NONE",
             a.op \in {"mark", "submit"} => status \in Markable,
             a.op = "finalise" => status = "MARKS_SUBMITTED",
             a.op = "override" => status = "QUALITY_FAILED"
      PROVE  Orderly'
    <2>1. /\ req' = [req EXCEPT ![r] = a]
          /\ \A s \in Reqs \ {r} : req[s].op = "idle"
          /\ UNCHANGED <<status, queue, exec>>
      BY <1>1 DEF Begin, script, broker
    <2>2. req'[r] = a /\ \A s \in Reqs \ {r} : req'[s] = req[s]
      BY <2>1 DEF TypeOK
    <2>3. OneRequest' /\ ChecksHold'
      BY <1>1, <2>1, <2>2 DEF OneRequest, ChecksHold
    <2>4. ~Bearing' /\ (Waiting' <=> Waiting) /\ (Running' <=> Running)
      BY <1>1, <2>1, <2>2 DEF Bearing, Waiting, Running, Busy, Bearers
    <2>5. OnePush' /\ Pushed'
      BY <2>1, <2>4 DEF Orderly, OnePush, Pushed, Busy
    <2> QED
      BY <2>3, <2>5 DEF Orderly
<1> USE RequestTypes DEF Asked, Bearers, Markable
<1>2. ASSUME NEW users \in SUBSET Users, AssignEvaluatorCheck(r, users)
      PROVE  Orderly'
    BY <1>1, <1>2 DEF AssignEvaluatorCheck
<1>3. ASSUME NEW given \in Ledger!Marks,
             UpdateMarksCheck(r, given) \/ AcceptSuggestionsCheck(r, given)
      PROVE  Orderly'
    BY <1>1, <1>3 DEF UpdateMarksCheck, AcceptSuggestionsCheck
<1>4. ASSUME NEW given \in Ledger!Marks, NEW u \in Users, SubmitMarksCheck(r, u, given)
      PROVE  Orderly'
    BY <1>1, <1>4 DEF SubmitMarksCheck
<1>5. CASE BoardFinaliseCheck(r) \/ OverrideQualityCheck(r)
    BY <1>1, <1>5 DEF BoardFinaliseCheck, OverrideQualityCheck, Ops
<1> QED
    BY <1>2, <1>3, <1>4, <1>5 DEF Check

\* While one request is on its way, every other one is idle, and the script is
\* there.
LEMMA Lone ==
    ASSUME Orderly, NEW r \in Reqs, req[r].op # "idle"
    PROVE  (\A s \in Reqs \ {r} : req[s].op = "idle") /\ status # "NONE"
BY DEF Orderly, OneRequest, ChecksHold

\* A request that is answered leaves none, and pushes nothing more.
LEMMA EndOrderly ==
    ASSUME TypeOK, Orderly, NEW r \in Reqs, req[r].op # "idle", End(r),
           UNCHANGED <<queue, exec>>,
           status' = status \/ ~(Waiting \/ Running)
    PROVE  Orderly'
<1>1. \A s \in Reqs : req'[s].op = "idle"
    BY Lone DEF End, TypeOK, Asked
<1>2. (Waiting' <=> Waiting) /\ (Running' <=> Running) /\ ~Bearing'
    BY <1>1 DEF Waiting, Running, Busy, Bearing, Bearers
<1>3. OnePush' /\ Pushed'
    BY <1>2 DEF Orderly, OnePush, Pushed, Busy
<1>4. OneRequest' /\ ChecksHold'
    BY <1>1 DEF OneRequest, ChecksHold
<1> QED
    BY <1>3, <1>4 DEF Orderly

\* A request that starts the pipeline, or goes on starting it, is all there is.
LEMMA BearOrderly ==
    ASSUME TypeOK, Orderly, NEW r \in Reqs, NEW op \in Bearers,
           \A s \in Reqs \ {r} : req[s].op = "idle",
           ~Waiting, ~Running,
           req' = [req EXCEPT ![r] = Asked(op)],
           UNCHANGED <<queue, exec>>,
           status' \in InPipeline
    PROVE  Orderly'
<1>1. req'[r].op = op /\ \A s \in Reqs \ {r} : req'[s].op = "idle"
    BY DEF TypeOK, Asked
<1>2. ~Waiting' /\ ~Running'
    BY DEF Waiting, Running, Busy
<1>3. OnePush' /\ Pushed'
    BY <1>2 DEF Orderly, OnePush, Pushed, Busy, Moving
<1>4. OneRequest' /\ ChecksHold'
    BY <1>1 DEF OneRequest, ChecksHold, Bearers, InPipeline
<1> QED
    BY <1>3, <1>4 DEF Orderly

\* A request that publishes hands its push to the message.
LEMMA DispatchOrderly ==
    ASSUME TypeOK, Orderly, NEW r \in Reqs, req[r].op \in Bearers,
           NEW t \in Tasks, Publish(t), End(r), UNCHANGED <<status, exec>>
    PROVE  Orderly'
<1>1. Bearing /\ ~Waiting /\ ~Running /\ status \in Moving
    BY DEF Bearing, Orderly, OnePush, Pushed
<1>2. \A s \in Reqs : req'[s].op = "idle"
    BY Lone DEF End, TypeOK, Asked, Bearers
<1>3. \A s \in Tasks : queue[s] = 0
    BY <1>1 DEF Waiting, TypeOK
<1>4. \A s \in Tasks : queue'[s] = IF s = t THEN 1 ELSE 0
    BY <1>3 DEF Publish, TypeOK
<1>5. ~Bearing' /\ ~Running'
    BY <1>1, <1>2 DEF Bearing, Bearers, Running, Busy
<1>6. OnePush' /\ Pushed'
    BY <1>1, <1>4, <1>5 DEF OnePush, Pushed, Running
<1>7. OneRequest' /\ ChecksHold'
    BY <1>2 DEF OneRequest, ChecksHold
<1> QED
    BY <1>6, <1>7 DEF Orderly


\* The steps of requests.
LEMMA RequestOrderly ==
    ASSUME TypeOK, Orderly, NEW r \in Reqs, ~raced', ~stray',
           CreateScript(r) \/ Check(r) \/ Write(r) \/ Abandon(r)
    PROVE  Orderly'
<1>0. /\ Bearing \/ Waiting \/ Running => status \in Moving
      /\ ~(Bearing /\ Waiting) /\ ~(Bearing /\ Running)
    BY DEF Orderly, OnePush, Pushed
<1>1. CASE CreateScript(r)
    <2>1. status = "NONE" /\ status' \in InPipeline
      BY <1>1 DEF CreateScript, InPipeline
    <2>2. ~Waiting /\ ~Running
      BY <1>0, <2>1 DEF Moving, InPipeline
    <2>3. \A s \in Reqs : req[s].op = "idle"
      BY <2>1 DEF Orderly, ChecksHold
    <2> QED
      BY <1>1, <2>1, <2>2, <2>3, BearOrderly DEF CreateScript, broker, Bearers
<1>2. CASE Check(r)
    BY <1>2, CheckOrderly
<1>3. CASE SetEvalJob(r)
    <2>1. Bearing /\ req[r].op # "idle"
      BY <1>3 DEF SetEvalJob, Bearing, Bearers
    <2>2. \A s \in Reqs \ {r} : req[s].op = "idle"
      BY <2>1, Lone
    <2>3. "dispatch" \in Bearers /\ status' \in InPipeline /\ UNCHANGED <<queue, exec>>
          /\ req' = [req EXCEPT ![r] = Asked("dispatch")]
      BY <1>3 DEF SetEvalJob, Bearers, InPipeline, broker
    <2> QED
      BY <1>0, <2>1, <2>2, <2>3, BearOrderly
<1>4. CASE OverrideQualityWrite(r)
    <2>1. req[r].op # "idle" /\ status = "QUALITY_FAILED"
      BY <1>4 DEF OverrideQualityWrite, Orderly, ChecksHold
    <2>2. ~Waiting /\ ~Running
      BY <1>0, <2>1 DEF Moving, InPipeline
    <2>3. \A s \in Reqs \ {r} : req[s].op = "idle"
      BY <2>1, Lone
    <2>4. "dispatchOcr" \in Bearers /\ status' \in InPipeline /\ UNCHANGED <<queue, exec>>
          /\ req' = [req EXCEPT ![r] = Asked("dispatchOcr")]
      BY <1>4 DEF OverrideQualityWrite, Bearers, InPipeline, broker
    <2> QED
      BY <2>2, <2>3, <2>4, BearOrderly
<1>5. CASE DispatchScript(r) \/ OverrideQualityDispatch(r)
    BY <1>5, DispatchOrderly
       DEF DispatchScript, OverrideQualityDispatch, script, Bearers, Tasks
<1>6. CASE AssignEvaluatorWrite(r) \/ UpdateMarksWrite(r) \/ Abandon(r)
    BY <1>6, EndOrderly
       DEF AssignEvaluatorWrite, UpdateMarksWrite, Abandon, script, broker
<1>7. CASE SubmitMarksWrite(r) \/ BoardFinaliseWrite(r)
    <2>1. status \in Markable \cup Gated
      BY <1>7 DEF SubmitMarksWrite, BoardFinaliseWrite, Orderly, ChecksHold, Gated
    <2>2. ~Waiting /\ ~Running
      BY <1>0, <2>1 DEF Moving, InPipeline, Markable, Gated
    <2> QED
      BY <1>7, <2>2, EndOrderly DEF SubmitMarksWrite, BoardFinaliseWrite, broker
<1> QED
    BY <1>1, <1>2, <1>3, <1>4, <1>5, <1>6, <1>7 DEF Write

----------------------------------------------------------------------------
(* The steps of workers.                                                   *)

\* While a task waits or runs no request waits to mark, decide or override.
LEMMA PushedChecks ==
    ASSUME Orderly, Waiting \/ Running, UNCHANGED req, status' # "NONE"
    PROVE  OneRequest' /\ ChecksHold' /\ ~Bearing /\ ~Bearing' /\ status \in Moving
<1>1. ~Bearing /\ status \in Moving
    BY DEF Orderly, OnePush, Pushed
<1>2. \A r \in Reqs : req[r].op \notin {"mark", "submit", "finalise", "override"}
    BY <1>1 DEF Orderly, ChecksHold, Moving, InPipeline, Markable
<1> QED
    BY <1>1, <1>2 DEF Orderly, OneRequest, ChecksHold, Bearing

\* A worker that takes a message has it, and no other is left.
LEMMA TakeOrderly ==
    ASSUME TypeOK, Orderly, NEW w \in Workers, Start(w)
    PROVE  Orderly'
<1>1. PICK t \in Tasks : Take(w, t)
    BY DEF Start, QualityStart, OcrStart, ScoreStart, Tasks
<1>2. req' = req /\ (status' = status \/ status' = "QUALITY_CHECKING")
    BY DEF Start, QualityStart, OcrStart, ScoreStart, script
<1>3. Waiting /\ ~Running /\ queue[t] = 1 /\ \A s \in Tasks : queue[s] > 0 => s = t
    BY <1>1 DEF Take, Waiting, Orderly, OnePush
<1>4. \A s \in Tasks : queue'[s] = 0
    BY <1>1, <1>3 DEF Take, TypeOK
<1>5. exec'[w].phase = "running" /\ \A v \in Workers \ {w} : exec'[v] = exec[v]
    BY <1>1 DEF Take, TypeOK
<1>6. ~Waiting' /\ \A v \in Workers : Busy(v)' <=> v = w
    BY <1>3, <1>4, <1>5 DEF Waiting, Running, Busy
<1>7. status \in Moving
    BY <1>3 DEF Orderly, Pushed
<1>8. status' # "NONE" /\ status' \in Moving
    BY <1>2, <1>7 DEF Moving, InPipeline
<1>9. OneRequest' /\ ChecksHold' /\ ~Bearing'
    BY <1>2, <1>3, <1>8, PushedChecks
<1>10. OnePush' /\ Pushed'
    BY <1>4, <1>6, <1>8, <1>9 DEF OnePush, Pushed
<1> QED
    BY <1>9, <1>10 DEF Orderly

\* A body that runs is the only push.
LEMMA LoneBody ==
    ASSUME TypeOK, Orderly, NEW w \in Workers, Busy(w)
    PROVE  /\ Running /\ ~Waiting /\ status \in Moving
           /\ \A t \in Tasks : queue[t] = 0
           /\ \A v \in Workers \ {w} : ~Busy(v)
<1>1. Running /\ ~Waiting /\ status \in Moving
    BY DEF Running, Orderly, OnePush, Pushed
<1>2. \A t \in Tasks : queue[t] = 0
    BY <1>1 DEF Waiting, TypeOK
<1> QED
    BY <1>1, <1>2 DEF Orderly, OnePush

\* A body ends its push, keeps it in a status of the pipeline, or hands it to
\* one message.
LEMMA BodyOrderly ==
    ASSUME TypeOK, Orderly, NEW w \in Workers, Busy(w), UNCHANGED req,
           status' # "NONE",
           \A v \in Workers \ {w} : exec'[v] = exec[v],
           \/ ~Busy(w)' /\ queue' = queue
           \/ queue' = queue /\ status' \in Moving
           \/ ~Busy(w)' /\ status' \in Moving /\ \E t \in Tasks : Publish(t)
    PROVE  Orderly'
<1>1. OneRequest' /\ ChecksHold' /\ ~Bearing'
    BY LoneBody, PushedChecks
<1>2. \A v \in Workers \ {w} : ~Busy(v)'
    BY LoneBody DEF Busy
<1>3. CASE queue' = queue
    <2>1. ~Waiting' /\ \A t \in Tasks : queue'[t] = 0
      BY <1>3, LoneBody DEF Waiting
    <2> QED
      BY <1>1, <1>2, <1>3, <2>1 DEF Orderly, OnePush, Pushed, Running
<1>4. CASE ~Busy(w)' /\ status' \in Moving /\ \E t \in Tasks : Publish(t)
    <2>1. PICK t \in Tasks : Publish(t)
      BY <1>4
    <2>2. \A s \in Tasks : queue'[s] = IF s = t THEN 1 ELSE 0
      BY <2>1, LoneBody DEF Publish, TypeOK
    <2>3. ~Running'
      BY <1>2, <1>4 DEF Running
    <2> QED
      BY <1>1, <1>2, <1>4, <2>2, <2>3 DEF Orderly, OnePush, Pushed, Running
<1> QED
    BY <1>3, <1>4

\* The steps of workers.
LEMMA WorkerOrderly ==
    ASSUME TypeOK, Rested, Orderly, NEW w \in Workers, ~stray',
           Start(w) \/ Work(w) \/ WorkerCrash(w) \/ ProcessLost(w) \/ Redeliver(w)
    PROVE  Orderly'
<1>1. CASE Start(w)
    BY <1>1, TakeOrderly
<1>2. CASE Busy(w) /\ ~Start(w)
    <2>0. \A v \in Workers \ {w} : exec'[v] = exec[v]
      BY <1>2 DEF Work, QualityResult, OcrResult, Chain, ScoreResult, ScoreNoQuestions,
                  ScoreDuplicate, TaskFail, Ack, Goto, WorkerCrash, ProcessLost, Redeliver,
                  TypeOK
    <2>1. UNCHANGED req
      BY <1>2 DEF Work, QualityResult, OcrResult, Chain, ScoreResult, ScoreNoQuestions,
                  ScoreDuplicate, TaskFail, Ack, WorkerCrash, ProcessLost, Redeliver
    <2>2. status \in Moving /\ status # "NONE"
      BY <1>2, LoneBody DEF Moving, InPipeline
    <2>3. exec[w].task \in Tasks
      BY BrokerTypes
    <2>4. \A p \in Phases : Goto(w, p) => exec'[w].phase = p
      BY DEF Goto, TypeOK
    <2>5. exec' = [exec EXCEPT ![w] = IdleExec] => exec'[w].phase = "idle"
      BY DEF TypeOK, IdleExec
    <2> USE <1>2, <2>0, <2>1, <2>2, BodyOrderly
    <2>6. CASE QualityResult(w)
      BY <2>4, <2>6 DEF QualityResult, Busy, Phases, Moving, InPipeline
    <2>7. CASE OcrResult(w)
      BY <2>4, <2>7 DEF OcrResult, Busy, Phases, Moving, InPipeline
    <2>8. CASE Chain(w)
      <3>1. \E t \in Tasks : Publish(t)
        BY <2>8 DEF Chain, Tasks
      <3>2. ~Busy(w)' /\ status' = status
        BY <2>4, <2>8 DEF Chain, Busy, Phases, script
      <3> QED
        BY <3>1, <3>2
    <2>9. CASE ScoreResult(w) \/ ScoreNoQuestions(w) \/ ScoreDuplicate(w)
      <3>1. ~Busy(w)' /\ queue' = queue
        BY <2>4, <2>9 DEF ScoreResult, ScoreNoQuestions, ScoreDuplicate, Busy, Phases
      <3>2. status' # "NONE"
        BY <2>9 DEF ScoreResult, ScoreNoQuestions, ScoreDuplicate, script
      <3> QED
        BY <3>1, <3>2
    <2>10. CASE TaskFail(w)
      <3>1. ~Busy(w)'
        BY <2>5, <2>10 DEF TaskFail, Busy
      <3>2. \/ queue' = queue /\ status' # "NONE"
            \/ status' = "FAILED" /\ Publish(exec[w].task)
        BY <2>10 DEF TaskFail
      <3> QED
        BY <2>3, <3>1, <3>2 DEF Moving
    <2>11. CASE Ack(w)
      BY <2>11 DEF Ack, Busy
    <2>12. CASE WorkerCrash(w) \/ ProcessLost(w)
      <3>1. ~Busy(w)' /\ status' = status
        BY <2>5, <2>12 DEF WorkerCrash, ProcessLost, Busy, script
      <3>2. queue' = queue \/ Publish(exec[w].task)
        BY <2>12 DEF WorkerCrash, ProcessLost
      <3> QED
        BY <2>3, <3>1, <3>2
    <2>13. CASE Redeliver(w)
      BY <2>13 DEF Redeliver
    <2> QED
      BY <2>6, <2>7, <2>8, <2>9, <2>10, <2>11, <2>12, <2>13 DEF Work
<1>3. CASE ~Busy(w) /\ ~Start(w)
    <2>1. Ack(w) \/ ProcessLost(w)
      <3>1. ~QualityResult(w) /\ ~OcrResult(w) /\ ~Chain(w) /\ ~ScoreResult(w)
            /\ ~ScoreNoQuestions(w) /\ ~ScoreDuplicate(w) /\ ~TaskFail(w)
        BY <1>3 DEF Busy, QualityResult, OcrResult, Chain, ScoreResult, ScoreNoQuestions,
                    ScoreDuplicate, TaskFail, Runs
      <3>2. ~Redeliver(w)
        BY DEF Redeliver
      <3>3. ~WorkerCrash(w)
        <4>1. exec[w] # IdleExec => exec[w].phase = "over"
          BY <1>3 DEF Rested, Busy, TypeOK, Phases
        <4> QED
          BY <4>1 DEF WorkerCrash
      <3> QED
        BY <1>3, <3>1, <3>2, <3>3 DEF Work
    <2>2. UNCHANGED <<status, queue, req>> /\ exec' = [exec EXCEPT ![w] = IdleExec]
      BY <2>1 DEF Ack, ProcessLost, script
    <2>3. \A v \in Workers : Busy(v)' <=> Busy(v)
      BY <1>3, <2>2 DEF Busy, IdleExec, TypeOK
    <2>4. /\ Running' <=> Running
          /\ Waiting' <=> Waiting
          /\ Bearing' <=> Bearing
      BY <2>2, <2>3 DEF Running, Waiting, Bearing
    <2> QED
      BY <2>2, <2>3, <2>4 DEF Orderly, OneRequest, OnePush, Pushed, ChecksHold
<1> QED
    BY <1>1, <1>2, <1>3

\* Tidy is an invariant.
LEMMA TidyAlways == Spec => []Tidy
<1>1. Init => Tidy
    <2> SUFFICES ASSUME Init PROVE Rested /\ Orderly
      BY DEF Tidy
    <2>1. /\ \A r \in Reqs : req[r].op = "idle"
          /\ \A w \in Workers : exec[w] = IdleExec
          /\ \A t \in Tasks : queue[t] = 0
      BY DEF Init, Asked
    <2>2. ~Bearing /\ ~Waiting /\ ~Running
      BY <2>1 DEF Bearing, Bearers, Waiting, Running, Busy, IdleExec
    <2> QED
      BY <2>1, <2>2 DEF Rested, Orderly, OneRequest, OnePush, Pushed, ChecksHold, Running
<1>2. TypeOK /\ Tidy /\ [Next]_vars => Tidy'
    <2> SUFFICES ASSUME TypeOK, Tidy, [Next]_vars PROVE Tidy'
      OBVIOUS
    <2>1. Rested'
      BY RestedStep DEF Tidy
    <2>2. ASSUME ~raced', ~stray' PROVE Orderly'
      <3>1. Rested /\ Orderly
        BY <2>2, HistoryGrows DEF Tidy
      <3>2. CASE UNCHANGED vars
        <4>1. UNCHANGED <<status, queue, req, exec>>
          BY <3>2 DEF vars, script, broker
        <4> QED
          BY <3>1, <4>1 DEF Orderly, OneRequest, OnePush, Pushed, ChecksHold, Running,
                            Waiting, Bearing, Busy
      <3> QED
        BY <2>2, <3>1, <3>2, RequestOrderly, WorkerOrderly DEF Next
    <2> QED
      BY <2>1, <2>2 DEF Tidy
<1> QED
    BY <1>1, <1>2, TypeCorrect, PTL DEF Spec

\* Only a request that marks or submits writes the evaluator's marks, and it
\* finds the script as its check did: between the gates, and after them, the
\* marks are the ones submitted, unless requests overlapped or a task ran after
\* the script had moved on.
THEOREM MarksStayHolds == Spec => MarksStay
<1>1. TypeOK /\ Tidy /\ [Next]_vars
         => [mark' # mark => status \in Markable \/ raced \/ stray]_vars
    <2> SUFFICES ASSUME TypeOK, Tidy, [Next]_vars, mark' # mark, ~raced, ~stray
                 PROVE  status \in Markable
      OBVIOUS
    <2>1. PICK r \in Reqs : UpdateMarksWrite(r) \/ SubmitMarksWrite(r)
      <3>1. ASSUME NEW r \in Reqs, CreateScript(r) \/ Check(r) \/ Write(r) \/ Abandon(r)
            PROVE  UpdateMarksWrite(r) \/ SubmitMarksWrite(r)
        BY <3>1 DEF CreateScript, Check, AssignEvaluatorCheck, UpdateMarksCheck,
                    AcceptSuggestionsCheck, SubmitMarksCheck, BoardFinaliseCheck,
                    OverrideQualityCheck, Begin, Write, SetEvalJob, DispatchScript,
                    AssignEvaluatorWrite, OverrideQualityWrite, OverrideQualityDispatch,
                    BoardFinaliseWrite, Abandon, evaluations
      <3>2. ASSUME NEW w \in Workers,
                   \/ Start(w) \/ Work(w)
                   \/ WorkerCrash(w) \/ ProcessLost(w) \/ Redeliver(w)
            PROVE  FALSE
        BY <3>2 DEF Start, Work, QualityStart, OcrStart, ScoreStart, QualityResult, OcrResult,
                    Chain, ScoreResult, ScoreNoQuestions, ScoreDuplicate, TaskFail, Ack,
                    WorkerCrash, ProcessLost, Redeliver, evaluations
      <3>3. ~UNCHANGED vars
        BY DEF vars, evaluations
      <3> QED
        BY <3>1, <3>2, <3>3 DEF Next
    <2> QED
      BY <2>1 DEF UpdateMarksWrite, SubmitMarksWrite, Tidy, Orderly, ChecksHold
<1> QED
    BY <1>1, TypeCorrect, TidyAlways, PTL DEF Spec, MarksStay

\* A script behind a gate is moved by the Board's decision alone, unless
\* requests overlapped or a task ran after the script had moved on: no message
\* is left that would take it back into the pipeline, and no request that would.
THEOREM GateStaysHolds == Spec => GateStays
<1>1. TypeOK /\ Tidy /\ [Next]_vars
         => [status' # status /\ status \in Gated =>
                status' = "BOARD_FINALISED" \/ raced \/ stray]_vars
    <2> SUFFICES ASSUME TypeOK, Tidy, [Next]_vars, status' # status, status \in Gated,
                        ~raced, ~stray
                 PROVE  status' = "BOARD_FINALISED"
      OBVIOUS
    <2>0. Orderly
      BY DEF Tidy
    <2>1. status \notin Moving \cup Markable \cup {"NONE", "QUALITY_FAILED"}
      BY DEF Gated, Moving, InPipeline, Markable
    <2>2. ~Bearing /\ ~Waiting /\ ~Running
      BY <2>0, <2>1 DEF Orderly, Pushed
    <2>3. ASSUME NEW r \in Reqs
          PROVE  req[r].op \notin Bearers \cup {"mark", "submit", "override"}
      BY <2>0, <2>1, <2>2 DEF Orderly, ChecksHold, Bearing
    <2>4. ASSUME NEW r \in Reqs, CreateScript(r) \/ Check(r) \/ Write(r) \/ Abandon(r)
          PROVE  status' = "BOARD_FINALISED"
      <3>1. BoardFinaliseWrite(r)
        <4>1. ~CreateScript(r)
          BY <2>1 DEF CreateScript
        <4>2. ~Check(r) /\ ~Abandon(r) /\ ~AssignEvaluatorWrite(r) /\ ~UpdateMarksWrite(r)
          BY DEF Check, AssignEvaluatorCheck, UpdateMarksCheck, AcceptSuggestionsCheck,
                 SubmitMarksCheck, BoardFinaliseCheck, OverrideQualityCheck, Begin,
                 Abandon, AssignEvaluatorWrite, UpdateMarksWrite, script
        <4>3. /\ ~SetEvalJob(r) /\ ~DispatchScript(r) /\ ~OverrideQualityWrite(r)
              /\ ~OverrideQualityDispatch(r) /\ ~SubmitMarksWrite(r)
          BY <2>3 DEF SetEvalJob, DispatchScript, OverrideQualityWrite,
                      OverrideQualityDispatch, SubmitMarksWrite, Bearers
        <4> QED
          BY <2>4, <4>1, <4>2, <4>3 DEF Write
      <3> QED
        BY <3>1 DEF BoardFinaliseWrite
    <2>5. ASSUME NEW w \in Workers,
                 \/ Start(w) \/ Work(w)
                 \/ WorkerCrash(w) \/ ProcessLost(w) \/ Redeliver(w)
          PROVE  FALSE
      <3>1. ~Start(w)
        BY <2>2 DEF Start, QualityStart, OcrStart, ScoreStart, Take, Waiting, Tasks
      <3>2. ~Busy(w)
        BY <2>2 DEF Running
      <3>3. /\ ~QualityResult(w) /\ ~OcrResult(w) /\ ~Chain(w) /\ ~ScoreResult(w)
            /\ ~ScoreNoQuestions(w) /\ ~ScoreDuplicate(w) /\ ~TaskFail(w)
        BY <3>2 DEF Busy, QualityResult, OcrResult, Chain, ScoreResult, ScoreNoQuestions,
                    ScoreDuplicate, TaskFail, Runs
      <3>4. ~Ack(w) /\ ~WorkerCrash(w) /\ ~ProcessLost(w) /\ ~Redeliver(w)
        BY DEF Ack, WorkerCrash, ProcessLost, Redeliver, script
      <3> QED
        BY <2>5, <3>1, <3>3, <3>4 DEF Work
    <2>6. ~UNCHANGED vars
      BY DEF vars, script
    <2> QED
      BY <2>4, <2>5, <2>6 DEF Next
<1> QED
    BY <1>1, TypeCorrect, TidyAlways, PTL DEF Spec, GateStays

\* What was submitted and what was decided on it stay, both together, for any
\* number of requests, workers and faults.
THEOREM SubmittedHolds == Spec => SubmittedStays
BY MarksStayHolds, GateStaysHolds DEF SubmittedStays
=============================================================================
