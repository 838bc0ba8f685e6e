-------------------------- MODULE ExamPaperProofs --------------------------
(***************************************************************************)
(* Type correctness of ExamPaper and its human gates, for any number of    *)
(* requests, workers, questions and users and any bounds.                  *)
(***************************************************************************)
EXTENDS ExamPaper, TLAPS

----------------------------------------------------------------------------
(* Facts about the parts of the handlers.                                  *)

\* A request record with one field set is a request record.
LEMMA RequestTypes ==
    /\ \A op \in Ops : Asked(op) \in Request
    /\ \A op \in Ops, q \in Questions : [Asked(op) EXCEPT !.q = q] \in Request
    /\ \A op \in Ops, ok \in BOOLEAN : [Asked(op) EXCEPT !.ok = ok] \in Request
    /\ \A op \in Ops, u \in Users : [Asked(op) EXCEPT !.u = u] \in Request
    /\ \A op \in Ops, u \in Users, ok \in BOOLEAN :
          [Asked(op) EXCEPT !.u = u, !.ok = ok] \in Request
    /\ \A op \in Ops, at \in 0..MaxTime : [Asked(op) EXCEPT !.at = at] \in Request
<1>1. 0 \in 0..MaxTime
    BY BoundsAssumption
<1>2. ASSUME NEW op \in Ops
      PROVE  Asked(op) \in Request
    BY <1>1 DEF Asked, Request
<1>3. ASSUME NEW op \in Ops, NEW q \in Questions
      PROVE  [Asked(op) EXCEPT !.q = q] \in Request
    BY <1>1 DEF Asked, Request
<1>4. ASSUME NEW op \in Ops, NEW u \in Users, NEW ok \in BOOLEAN
      PROVE  /\ [Asked(op) EXCEPT !.ok = ok] \in Request
             /\ [Asked(op) EXCEPT !.u = u] \in Request
             /\ [Asked(op) EXCEPT !.u = u, !.ok = ok] \in Request
    BY <1>1 DEF Asked, Request
<1>5. ASSUME NEW op \in Ops, NEW ok \in BOOLEAN
      PROVE  [Asked(op) EXCEPT !.ok = ok] \in Request
    BY <1>1 DEF Asked, Request
<1>6. ASSUME NEW op \in Ops, NEW at \in 0..MaxTime
      PROVE  [Asked(op) EXCEPT !.at = at] \in Request
    BY DEF Asked, Request
<1> QED
    BY <1>2, <1>3, <1>4, <1>5, <1>6

\* The messages the handlers publish are messages of the broker.
LEMMA MsgTypes ==
    /\ GenMsg \in Msgs
    /\ \A q \in Questions : RegenMsg(q) \in Msgs
    /\ \A at \in 0..MaxTime : ReleaseMsg(at) \in Msgs
BY DEF Msgs

\* Acknowledging or retrying leaves each message absent, queued or held.
LEMMA BrokerTypes ==
    ASSUME TypeOK, NEW w \in Workers
    PROVE  /\ AckBy(w) \in [Msgs -> {"none", "queued"} \cup Workers]
           /\ RetryBy(w) \in [Msgs -> {"none", "queued"} \cup Workers]
BY DEF TypeOK, AckBy, RetryBy

\* A fault stays within its bound.
LEMMA FaultType ==
    ASSUME TypeOK, Fault
    PROVE  faults' \in 0..MaxFaults
BY BoundsAssumption DEF TypeOK, Fault

\* Done leaves each worker idle or in a task body.
LEMMA DoneType ==
    ASSUME TypeOK, NEW w \in Workers, Done(w)
    PROVE  exec' \in [Workers -> [m : Msgs \cup {NoMsg}, phase : Phases]]
<1>1. IdleExec \in [m : Msgs \cup {NoMsg}, phase : Phases]
    BY DEF IdleExec, Phases
<1> QED
    BY <1>1 DEF TypeOK, Done

\* A request that answers is idle again.
LEMMA EndType ==
    ASSUME TypeOK, NEW r \in Reqs, End(r)
    PROVE  req' \in [Reqs -> Request]
<1>1. Asked("idle") \in Request
    BY RequestTypes DEF Ops
<1> QED
    BY <1>1 DEF TypeOK, End

\* Updating a question row, present or not, leaves every row well formed.
LEMMA NewContent ==
    ASSUME TypeOK, NEW q, NEW v \in 1..MaxVer
    PROVE  [ver EXCEPT ![q] = IF @ = 0 THEN 0 ELSE v] \in [Questions -> 0..MaxVer]
<1>1. v \in 0..MaxVer /\ 0 \in 0..MaxVer
    BY BoundsAssumption
<1>2. CASE q \in Questions
    BY <1>1, <1>2 DEF TypeOK
<1>3. CASE q \notin Questions
    BY <1>3 DEF TypeOK
<1> QED
    BY <1>2, <1>3

\* A request that passed its checks is pending with a well-formed record.
LEMMA BeginType ==
    ASSUME TypeOK, NEW r \in Reqs, NEW a \in Request, Begin(r, a)
    PROVE  TypeOK'
BY DEF TypeOK, Begin, row

----------------------------------------------------------------------------
(* Type correctness.                                                       *)

\* Every step between a check and the answer of a request keeps the types.
LEMMA WriteTypes ==
    ASSUME TypeOK, NEW r \in Reqs, Write(r)
    PROVE  TypeOK'
<1> USE DEF TypeOK, row, history
<1>a. Asked("dispatch") \in Request
    BY RequestTypes DEF Ops
<1>b. [req[r] EXCEPT !.op = "schedule"] \in Request
    BY DEF Ops, Request
<1>1. CASE CreateJob(r)
    BY <1>1, <1>a DEF CreateJob, Status
<1>2. CASE DispatchGeneration(r)
    BY <1>2, EndType, MsgTypes DEF DispatchGeneration
<1>3. CASE QueueUnavailable(r)
    BY <1>3, EndType DEF QueueUnavailable, Status
<1>4. CASE UpdateQuestionWrite(r)
  <2>1. PICK v \in 1..MaxVer :
            ver' = [ver EXCEPT ![req[r].q] = IF @ = 0 THEN 0 ELSE v]
    BY <1>4 DEF UpdateQuestionWrite
  <2> QED
    BY <1>4, <2>1, NewContent, EndType DEF UpdateQuestionWrite
<1>5. CASE DeleteQuestionWrite(r)
  <2>1. 0 \in 0..MaxVer
    BY BoundsAssumption
  <2> QED
    BY <1>5, <2>1, EndType DEF DeleteQuestionWrite
<1>6. CASE SubmitForReviewWrite(r)
    BY <1>6, EndType DEF SubmitForReviewWrite, Status, Gates
<1>7. CASE BoardDecideWrite(r)
  <2>1. bank' \in [Questions -> 0..BankCap]
    BY <1>7 DEF BoardDecideWrite, PromoteFromPaper, BankCap
  <2> QED
    BY <1>7, <2>1, EndType DEF BoardDecideWrite, Status, Gates
<1>8. CASE FacultyApproveWrite(r)
    BY <1>8, EndType DEF FacultyApproveWrite, Status, Gates
<1>9. CASE AssignScrutinizerWrite(r)
    BY <1>9, EndType DEF AssignScrutinizerWrite, Request
<1>10. CASE ScrutinizeWrite(r)
    BY <1>10, EndType DEF ScrutinizeWrite, Status
<1>11. CASE SealWrite(r)
    BY <1>11, <1>b DEF SealWrite, Status, Gates, Request
<1>12. CASE SealSchedule(r)
  <2>1. ReleaseMsg(req[r].at) \in Msgs
    BY MsgTypes DEF Request
  <2> QED
    BY <1>12, <2>1, EndType DEF SealSchedule
<1>13. CASE ForceReleaseWrite(r)
    BY <1>13, EndType DEF ForceReleaseWrite, Status, Gates
<1> QED
    BY <1>1, <1>2, <1>3, <1>4, <1>5, <1>6, <1>7, <1>8, <1>9, <1>10, <1>11,
       <1>12, <1>13 DEF Write

\* Every request is checked into a well-formed pending request.
LEMMA CheckTypes ==
    ASSUME TypeOK, NEW r \in Reqs, Check(r)
    PROVE  TypeOK'
<1> USE RequestTypes, BeginType DEF Ops
<1>1. ASSUME NEW q \in Questions, UpdateQuestionCheck(r, q) \/ DeleteQuestionCheck(r, q)
      PROVE  TypeOK'
    BY <1>1 DEF UpdateQuestionCheck, DeleteQuestionCheck
<1>2. CASE SubmitForReviewCheck(r)
    BY <1>2 DEF SubmitForReviewCheck
<1>3. CASE FacultyApproveCheck(r)
    BY <1>3 DEF FacultyApproveCheck
<1>4. CASE ForceReleaseCheck(r)
    BY <1>4 DEF ForceReleaseCheck
<1>5. ASSUME NEW ok \in BOOLEAN, BoardDecideCheck(r, ok)
      PROVE  TypeOK'
    BY <1>5 DEF BoardDecideCheck
<1>6. ASSUME NEW u \in Users, AssignScrutinizerCheck(r, u)
      PROVE  TypeOK'
    BY <1>6 DEF AssignScrutinizerCheck
<1>7. ASSUME NEW u \in Users, NEW ok \in BOOLEAN, ScrutinizeCheck(r, u, ok)
      PROVE  TypeOK'
    BY <1>7 DEF ScrutinizeCheck
<1>8. ASSUME NEW at \in 0..MaxTime, SealCheck(r, at)
      PROVE  TypeOK'
    BY <1>8 DEF SealCheck
<1> QED
    BY <1>1, <1>2, <1>3, <1>4, <1>5, <1>6, <1>7, <1>8 DEF Check

\* Every step of a worker keeps the types.
LEMMA WorkerTypes ==
    ASSUME TypeOK, NEW w \in Workers, Take(w) \/ Work(w) \/ WorkerCrash(w) \/ ProcessLost(w)
    PROVE  TypeOK'
<1> USE DEF TypeOK, row, history
<1>1. CASE GenerationStart(w)
    BY <1>1, MsgTypes DEF GenerationStart, Status, Phases
<1>2. ASSUME NEW q \in Questions, RegenerationStart(w, q) \/ RegenerationReject(w, q)
      PROVE  TypeOK'
    BY <1>2, MsgTypes DEF RegenerationStart, RegenerationReject, Phases
<1>3. ASSUME NEW at \in 0..MaxTime, ReleaseStart(w, at) \/ ReleaseSkip(w, at)
      PROVE  TypeOK'
    BY <1>3, MsgTypes DEF ReleaseStart, ReleaseSkip, Phases
<1>4. CASE GenerationSave(w)
  <2>1. PICK G \in SUBSET (Questions \ Present) \ {{}} :
            ver' = [q \in Questions |-> IF q \in G THEN 1 ELSE ver[q]]
    BY <1>4 DEF GenerationSave
  <2>2. ver' \in [Questions -> 0..MaxVer]
    BY <2>1, BoundsAssumption
  <2> QED
    BY <1>4, <2>2 DEF GenerationSave, Phases
<1>5. CASE GenerationFinish(w)
    BY <1>5, DoneType, BrokerTypes DEF GenerationFinish, Status
<1>6. CASE GenerationFail(w)
    BY <1>6, DoneType, BrokerTypes, FaultType DEF GenerationFail, Status
<1>7. CASE RegenerationFinish(w)
  <2>1. PICK v \in 1..MaxVer :
            ver' = [ver EXCEPT ![exec[w].m.q] = IF @ = 0 THEN 0 ELSE v]
    BY <1>7 DEF RegenerationFinish
  <2> QED
    BY <1>7, <2>1, NewContent, DoneType, BrokerTypes DEF RegenerationFinish
<1>8. CASE RegenerationFail(w)
    BY <1>8, DoneType, BrokerTypes, FaultType DEF RegenerationFail
<1>9. CASE ReleaseFinish(w)
    BY <1>9, DoneType, BrokerTypes DEF ReleaseFinish, Status
<1>10. CASE ReleaseRetry(w)
    BY <1>10, DoneType, BrokerTypes, FaultType DEF ReleaseRetry
<1>11. CASE WorkerCrash(w)
    BY <1>11, DoneType, FaultType DEF WorkerCrash
<1>12. CASE ProcessLost(w)
    BY <1>12, DoneType, BrokerTypes, FaultType DEF ProcessLost
<1> QED
    BY <1>1, <1>2, <1>3, <1>4, <1>5, <1>6, <1>7, <1>8, <1>9, <1>10, <1>11, <1>12
       DEF Take, Work

\* The type invariant holds in every reachable state: the status, the pending
\* requests, the broker and the workers stay within what the code can store.
THEOREM TypeCorrect == Spec => []TypeOK
<1>1. Init => TypeOK
  <2> SUFFICES ASSUME Init PROVE TypeOK
    OBVIOUS
  <2>1. Asked("idle") \in Request /\ IdleExec \in [m : Msgs \cup {NoMsg}, phase : Phases]
    BY RequestTypes DEF Ops, IdleExec, Phases
  <2>2. 0 \in 0..MaxVer /\ 0 \in 0..MaxTime /\ 0 \in 0..MaxFaults /\ 0 \in 0..BankCap
    BY BoundsAssumption DEF BankCap
  <2>3. /\ status \in Status /\ workflow \in ExamWorkflow
        /\ scrutinizer \in Users \cup {NoUser}
        /\ gates \in SUBSET Gates /\ raced \in BOOLEAN /\ lost \in BOOLEAN
    BY DEF Init, Status
  <2>4. /\ releaseAt \in 0..MaxTime /\ now \in 0..MaxTime /\ faults \in 0..MaxFaults
        /\ ver \in [Questions -> 0..MaxVer] /\ bank \in [Questions -> 0..BankCap]
    BY <2>2 DEF Init
  <2>5. /\ req \in [Reqs -> Request]
        /\ msgs \in [Msgs -> {"none", "queued"} \cup Workers]
        /\ exec \in [Workers -> [m : Msgs \cup {NoMsg}, phase : Phases]]
    BY <2>1 DEF Init
  <2> QED
    BY <2>3, <2>4, <2>5 DEF TypeOK
<1>2. TypeOK /\ [Next]_vars => TypeOK'
  <2> SUFFICES ASSUME TypeOK, [Next]_vars PROVE TypeOK'
    OBVIOUS
  <2>1. ASSUME NEW r \in Reqs, CreatePaper(r)
        PROVE  TypeOK'
    <3>1. Asked("createJob") \in Request
      BY RequestTypes DEF Ops
    <3> QED
      BY <2>1, <3>1 DEF TypeOK, CreatePaper, Status, history
  <2>2. ASSUME NEW r \in Reqs, Abandon(r)
        PROVE  TypeOK'
    BY <2>2, EndType, FaultType DEF TypeOK, Abandon, row, history
  <2>3. ASSUME NEW q \in Questions, RegenerateQuestion(q)
        PROVE  TypeOK'
    BY <2>3, MsgTypes DEF TypeOK, RegenerateQuestion, row, history
  <2>4. ASSUME NEW m \in Msgs, Redeliver(m)
        PROVE  TypeOK'
    BY <2>4, FaultType DEF TypeOK, Redeliver, row
  <2>5. CASE Tick
    BY <2>5, BoundsAssumption DEF TypeOK, Tick, row, history
  <2>6. CASE UNCHANGED vars
    BY <2>6 DEF TypeOK, vars, row, history
  <2> QED
    BY <2>1, <2>2, <2>3, <2>4, <2>5, <2>6, CheckTypes, WriteTypes, WorkerTypes DEF Next
<1> QED
    BY <1>1, <1>2, PTL DEF Spec

----------------------------------------------------------------------------
(* The human gates.  HumanGates is not inductive: a request writes what it *)
(* checked earlier, so the invariant also has to say that every pending    *)
(* request, and a release under way, is still justified when it writes.    *)

GatesInv == HumanGates /\ PendingJustified

\* Operations that record no decision when they write.
Harmless == Ops \ {"submit", "board", "facultyApprove", "seal", "forceRelease"}

\* Statuses that presuppose no decision.
Open == {"NONE", "DRAFT", "GENERATING", "GENERATED", "FAILED", "BOARD_RETURNED"}

\* A step that moves the paper to an open status at most, and starts neither a
\* decision nor a release, keeps the gates.
LEMMA OpenStep ==
    ASSUME GatesInv,
           workflow' = workflow, gates' = gates,
           status' \in Open \cup {status},
           \A r \in Reqs : req'[r].op \in Harmless \cup {req[r].op},
           \A w \in Workers : exec'[w].phase \in (Phases \ {"releasing"}) \cup {exec[w].phase}
    PROVE  GatesInv'
<1>1. Approval' = Approval
    BY DEF Approval
<1>2. HumanGates'
    BY <1>1 DEF GatesInv, HumanGates, Open
<1>3. PendingJustified'
    BY <1>1 DEF GatesInv, PendingJustified, Open, Harmless, Phases
<1> QED
    BY <1>2, <1>3 DEF GatesInv

\* A request that answers leaves no decision pending.
LEMMA EndHarmless ==
    ASSUME TypeOK, NEW r \in Reqs, End(r)
    PROVE  \A s \in Reqs : req'[s].op \in Harmless \cup {req[s].op}
BY DEF End, TypeOK, Asked, Harmless, Ops

\* A worker that ends its task body is not releasing.
LEMMA DoneHarmless ==
    ASSUME TypeOK, NEW w \in Workers, Done(w)
    PROVE  \A v \in Workers :
              exec'[v].phase \in (Phases \ {"releasing"}) \cup {exec[v].phase}
BY DEF Done, TypeOK, IdleExec, Phases

\* A decision enters as pending only when its own check found it justified.
LEMMA CheckGates ==
    ASSUME TypeOK, GatesInv, NEW r \in Reqs, Check(r)
    PROVE  GatesInv'
<1> USE DEF GatesInv, HumanGates, PendingJustified, Approval, TypeOK, Begin, Asked, row
<1>1. ASSUME NEW q \in Questions, UpdateQuestionCheck(r, q) \/ DeleteQuestionCheck(r, q)
      PROVE  GatesInv'
    BY <1>1 DEF UpdateQuestionCheck, DeleteQuestionCheck
<1>2. CASE SubmitForReviewCheck(r)
    BY <1>2 DEF SubmitForReviewCheck
<1>3. CASE FacultyApproveCheck(r)
    BY <1>3 DEF FacultyApproveCheck
<1>4. CASE ForceReleaseCheck(r)
    BY <1>4 DEF ForceReleaseCheck
<1>5. ASSUME NEW ok \in BOOLEAN, BoardDecideCheck(r, ok)
      PROVE  GatesInv'
    BY <1>5 DEF BoardDecideCheck
<1>6. ASSUME NEW u \in Users, AssignScrutinizerCheck(r, u)
      PROVE  GatesInv'
    BY <1>6 DEF AssignScrutinizerCheck
<1>7. ASSUME NEW u \in Users, NEW ok \in BOOLEAN, ScrutinizeCheck(r, u, ok)
      PROVE  GatesInv'
    BY <1>7 DEF ScrutinizeCheck
<1>8. ASSUME NEW at \in 0..MaxTime, SealCheck(r, at)
      PROVE  GatesInv'
    BY <1>8 DEF SealCheck
<1> QED
    BY <1>1, <1>2, <1>3, <1>4, <1>5, <1>6, <1>7, <1>8 DEF Check

\* A decision is written on the strength of its check alone, and that suffices.
LEMMA WriteGates ==
    ASSUME TypeOK, GatesInv, NEW r \in Reqs, Write(r)
    PROVE  GatesInv'
<1> DEFINE Quiet == CreateJob(r) \/ DispatchGeneration(r) \/ QueueUnavailable(r)
                    \/ UpdateQuestionWrite(r) \/ DeleteQuestionWrite(r)
                    \/ AssignScrutinizerWrite(r) \/ ScrutinizeWrite(r)
                    \/ SealSchedule(r)
<1>1. CASE Quiet
  <2>1. status' \in Open \cup {status}
    BY <1>1 DEF CreateJob, DispatchGeneration, QueueUnavailable, UpdateQuestionWrite,
                DeleteQuestionWrite, AssignScrutinizerWrite, ScrutinizeWrite,
                SealSchedule, Open, row
  <2>2. workflow' = workflow /\ gates' = gates /\ exec' = exec
    BY <1>1 DEF CreateJob, DispatchGeneration, QueueUnavailable, UpdateQuestionWrite,
                DeleteQuestionWrite, AssignScrutinizerWrite, ScrutinizeWrite,
                SealSchedule, row, history
  <2>3. End(r) \/ req' = [req EXCEPT ![r] = Asked("dispatch")]
    BY <1>1 DEF CreateJob, DispatchGeneration, QueueUnavailable, UpdateQuestionWrite,
                DeleteQuestionWrite, AssignScrutinizerWrite, ScrutinizeWrite,
                SealSchedule
  <2>4. \A s \in Reqs : req'[s].op \in Harmless \cup {req[s].op}
    BY <2>3, EndHarmless DEF TypeOK, Asked, Harmless, Ops
  <2> QED
    BY <2>1, <2>2, <2>4, OpenStep
<1>2. ASSUME SubmitForReviewWrite(r) \/ BoardDecideWrite(r) \/ FacultyApproveWrite(r)
             \/ SealWrite(r) \/ ForceReleaseWrite(r)
      PROVE  GatesInv'
  <2> USE DEF GatesInv, HumanGates, PendingJustified, Approval, TypeOK, End, Asked
  <2>1. CASE SubmitForReviewWrite(r)
    BY <2>1 DEF SubmitForReviewWrite
  <2>2. CASE BoardDecideWrite(r)
    BY <2>2 DEF BoardDecideWrite
  <2>3. CASE FacultyApproveWrite(r)
    BY <2>3 DEF FacultyApproveWrite
  <2>4. CASE SealWrite(r)
    BY <2>4 DEF SealWrite
  <2>5. CASE ForceReleaseWrite(r)
    BY <2>5 DEF ForceReleaseWrite
  <2> QED
    BY <1>2, <2>1, <2>2, <2>3, <2>4, <2>5
<1> QED
    BY <1>1, <1>2 DEF Write

\* Only a release of a sealed paper makes a worker write a guarded status.
LEMMA WorkerGates ==
    ASSUME TypeOK, GatesInv, NEW w \in Workers, Take(w) \/ Work(w) \/ WorkerCrash(w) \/ ProcessLost(w)
    PROVE  GatesInv'
<1>1. ASSUME NEW at \in 0..MaxTime, ReleaseStart(w, at)
      PROVE  GatesInv'
    BY <1>1 DEF ReleaseStart, GatesInv, HumanGates, PendingJustified, Approval, TypeOK,
                row, history
<1>2. CASE ReleaseFinish(w)
    BY <1>2 DEF ReleaseFinish, Done, IdleExec, GatesInv, HumanGates, PendingJustified,
                Approval, TypeOK, history
<1>3. ASSUME NEW q \in Questions, RegenerationStart(w, q) \/ RegenerationReject(w, q)
      PROVE  GatesInv'
  <2>1. /\ workflow' = workflow /\ gates' = gates /\ status' = status /\ req' = req
        /\ \A v \in Workers :
              exec'[v].phase \in (Phases \ {"releasing"}) \cup {exec[v].phase}
    BY <1>3 DEF RegenerationStart, RegenerationReject, TypeOK, Phases, row, history
  <2> QED
    BY <2>1, OpenStep
<1>4. ASSUME NEW at \in 0..MaxTime, ReleaseSkip(w, at)
      PROVE  GatesInv'
    BY <1>4, OpenStep DEF ReleaseSkip, row, history
<1>5. CASE GenerationStart(w) \/ GenerationSave(w)
  <2>1. /\ workflow' = workflow /\ gates' = gates /\ req' = req
        /\ status' \in Open \cup {status}
        /\ \A v \in Workers :
              exec'[v].phase \in (Phases \ {"releasing"}) \cup {exec[v].phase}
    BY <1>5 DEF GenerationStart, GenerationSave, TypeOK, Phases, Open, row, history
  <2> QED
    BY <2>1, OpenStep
<1>6. CASE \/ GenerationFinish(w) \/ GenerationFail(w) \/ RegenerationFinish(w)
           \/ RegenerationFail(w) \/ ReleaseRetry(w) \/ WorkerCrash(w)
           \/ ProcessLost(w)
  <2>1. /\ workflow' = workflow /\ gates' = gates /\ req' = req
        /\ status' \in Open \cup {status}
        /\ Done(w)
    BY <1>6 DEF GenerationFinish, GenerationFail, RegenerationFinish, RegenerationFail,
                ReleaseRetry, WorkerCrash, ProcessLost, Open, row, history
  <2> QED
    BY <2>1, DoneHarmless, OpenStep
<1> QED
    BY <1>1, <1>2, <1>3, <1>4, <1>5, <1>6 DEF Take, Work

\* The inductive step of the gates: one case per kind of actor.
LEMMA GatesStep == TypeOK /\ GatesInv /\ [Next]_vars => GatesInv'
<1> SUFFICES ASSUME TypeOK, GatesInv, [Next]_vars PROVE GatesInv'
    OBVIOUS
<1>1. ASSUME NEW r \in Reqs, CreatePaper(r)
      PROVE  GatesInv'
  <2>1. /\ workflow' = workflow /\ gates' = gates /\ exec' = exec /\ status' \in Open
        /\ \A s \in Reqs : req'[s].op \in Harmless \cup {req[s].op}
    BY <1>1 DEF CreatePaper, TypeOK, Open, Asked, Harmless, Ops, history
  <2> QED
    BY <2>1, OpenStep
<1>2. ASSUME NEW r \in Reqs, Abandon(r)
      PROVE  GatesInv'
    BY <1>2, EndHarmless, OpenStep DEF Abandon, row, history
<1>3. ASSUME NEW q \in Questions, RegenerateQuestion(q)
      PROVE  GatesInv'
    BY <1>3, OpenStep DEF RegenerateQuestion, row, history
<1>4. ASSUME NEW m \in Msgs, Redeliver(m)
      PROVE  GatesInv'
    BY <1>4, OpenStep DEF Redeliver, row
<1>5. CASE Tick
    BY <1>5, OpenStep DEF Tick, row, history
<1>6. CASE UNCHANGED vars
    BY <1>6, OpenStep DEF vars, row, history
<1> QED
    BY <1>1, <1>2, <1>3, <1>4, <1>5, <1>6, CheckGates, WriteGates, WorkerGates DEF Next

\* For any number of overlapping requests, crashes and redeliveries, a request
\* that passed its check is still justified when it writes, and no paper is
\* under review, approved, sealed or released without the decisions its
\* workflow asks for.
THEOREM GatesHold == Spec => [](HumanGates /\ PendingJustified)
<1>1. Init => GatesInv
  <2> SUFFICES ASSUME Init PROVE GatesInv
    OBVIOUS
  <2> QED
    BY DEF Init, GatesInv, HumanGates, PendingJustified, Asked, IdleExec
<1> QED
    BY <1>1, GatesStep, TypeCorrect, PTL DEF Spec, GatesInv

----------------------------------------------------------------------------
(* What holds as long as requests do not overlap and generation is not     *)
(* redelivered (raced): then what a check found is still so at the write,  *)
(* and the paper moves along its lifecycle.                                *)

\* Requests of ExamService.create, which have not published the task yet.
Starting == {"createJob", "dispatch"}

\* One request at a time has still to write.
Alone == \A r, s \in Reqs : Writing(r) /\ Writing(s) => r = s

\* The status, and the questions, a pending request found.
Fits(op) ==
    /\ op = "createJob" => status = "DRAFT"
    /\ op = "dispatch" => status = "GENERATING"
    /\ op \in {"submit", "facultyApprove"} => status \in Editable /\ Present # {}
    /\ op \in {"edit", "delete"} => status \in Editable
    /\ op \in {"board", "scrutinize"} => status = "SUBMITTED"
    /\ op = "seal" => status = "BOARD_APPROVED"
    /\ op = "forceRelease" => status \in {"SEALED", "RELEASED"}

ChecksHold ==
    /\ status = "NONE" => \A r \in Reqs : ~Writing(r)
    /\ \A r \in Reqs : Fits(req[r].op)

\* Generation is in one place: with the request that creates the paper, in the
\* queue, or with the one worker that holds its message; and the paper has the
\* status that goes with it.
OneGeneration ==
    /\ msgs[GenMsg] = "queued" =>
          /\ status \in {"GENERATING", "FAILED"}
          /\ \A r \in Reqs : req[r].op \notin Starting
    /\ \A w \in Workers :
          /\ exec[w].phase \in {"generating", "saved"} =>
                /\ exec[w].m = GenMsg /\ msgs[GenMsg] = w
                /\ status = "GENERATING"
                /\ \A r \in Reqs : req[r].op \notin Starting
          /\ exec[w].phase \in {"regenerating", "releasing"} => exec[w].m # GenMsg
          /\ exec[w].phase = "releasing" => status \in {"SEALED", "RELEASED"}

Cleared == {"BOARD_APPROVED", "SEALED", "RELEASED"}

\* A paper under review or later has questions, and the board has promoted none
\* before it approves.
Stocked ==
    /\ status \in Cleared \cup {"SUBMITTED"} => Present # {}
    /\ status \notin Cleared \/ workflow = "INTERNAL" => \A q \in Questions : bank[q] = 0
    /\ \A q \in Questions : bank[q] <= 1

Tidy == Alone /\ ChecksHold /\ OneGeneration /\ Stocked

\* A step that leaves every row but the questions alone, loses none of them, and
\* touches no generation, keeps the paper tidy when no request starts.
LEMMA StillTidy ==
    ASSUME TypeOK, Tidy,
           UNCHANGED <<status, workflow, bank>>, Present \subseteq Present',
           \A r \in Reqs : req'[r].op \in {"idle", "schedule", req[r].op},
           msgs'[GenMsg] = msgs[GenMsg],
           \A w \in Workers : exec'[w].phase = "idle" \/ exec'[w] = exec[w]
    PROVE  Tidy'
<1>1. \A r \in Reqs : Writing(r)' => Writing(r) /\ req'[r].op = req[r].op
    BY DEF Writing
<1>2. Alone'
    BY <1>1 DEF Tidy, Alone
<1>3. ChecksHold'
  <2>1. ASSUME NEW r \in Reqs
        PROVE  Fits(req[r].op)'
    <3>1. CASE req'[r].op \in {"idle", "schedule"}
      BY <3>1 DEF Fits
    <3>2. CASE req'[r].op = req[r].op
      BY <3>2 DEF Tidy, ChecksHold, Fits
    <3> QED
      BY <3>1, <3>2
  <2> QED
    BY <1>1, <2>1 DEF Tidy, ChecksHold
<1>4. OneGeneration'
    BY DEF Tidy, OneGeneration, Starting
<1>5. Stocked'
    BY DEF Tidy, Stocked
<1> QED
    BY <1>2, <1>3, <1>4, <1>5 DEF Tidy

\* Checks that pass make the request the only one with something to write.
LEMMA CheckTidy ==
    ASSUME TypeOK, Tidy, NEW r \in Reqs, Check(r), ~raced'
    PROVE  Tidy' /\ status' = status
<1>1. /\ UNCHANGED <<status, workflow, ver, bank, msgs, exec>>
      /\ \A s \in Reqs \ {r} : ~Writing(s)
    BY DEF Check, UpdateQuestionCheck, DeleteQuestionCheck, SubmitForReviewCheck,
           FacultyApproveCheck, ForceReleaseCheck, BoardDecideCheck, AssignScrutinizerCheck,
           ScrutinizeCheck, SealCheck, Begin, row
<1>2. PICK a \in Request : Begin(r, a) /\ a.op \notin Starting /\ Fits(a.op) /\ status # "NONE"
  <2> USE RequestTypes DEF Asked, Starting, Fits, Editable, Ops
  <2>1. ASSUME NEW q \in Questions, UpdateQuestionCheck(r, q)
        PROVE  \E a \in Request : Begin(r, a) /\ a.op \notin Starting /\ Fits(a.op) /\ status # "NONE"
    BY <2>1 DEF UpdateQuestionCheck
  <2>2. ASSUME NEW q \in Questions, DeleteQuestionCheck(r, q)
        PROVE  \E a \in Request : Begin(r, a) /\ a.op \notin Starting /\ Fits(a.op) /\ status # "NONE"
    BY <2>2 DEF DeleteQuestionCheck
  <2>3. CASE SubmitForReviewCheck(r) \/ FacultyApproveCheck(r)
    BY <2>3 DEF SubmitForReviewCheck, FacultyApproveCheck
  <2>4. CASE ForceReleaseCheck(r)
    BY <2>4 DEF ForceReleaseCheck
  <2>5. ASSUME NEW ok \in BOOLEAN, BoardDecideCheck(r, ok)
        PROVE  \E a \in Request : Begin(r, a) /\ a.op \notin Starting /\ Fits(a.op) /\ status # "NONE"
    BY <2>5 DEF BoardDecideCheck
  <2>6. ASSUME NEW u \in Users, AssignScrutinizerCheck(r, u)
        PROVE  \E a \in Request : Begin(r, a) /\ a.op \notin Starting /\ Fits(a.op) /\ status # "NONE"
    BY <2>6 DEF AssignScrutinizerCheck
  <2>7. ASSUME NEW u \in Users, NEW ok \in BOOLEAN, ScrutinizeCheck(r, u, ok)
        PROVE  \E a \in Request : Begin(r, a) /\ a.op \notin Starting /\ Fits(a.op) /\ status # "NONE"
    BY <2>7 DEF ScrutinizeCheck
  <2>8. ASSUME NEW at \in 0..MaxTime, SealCheck(r, at)
        PROVE  \E a \in Request : Begin(r, a) /\ a.op \notin Starting /\ Fits(a.op) /\ status # "NONE"
    BY <2>8 DEF SealCheck
  <2> QED
    BY <2>1, <2>2, <2>3, <2>4, <2>5, <2>6, <2>7, <2>8 DEF Check
<1>3. req' = [req EXCEPT ![r] = a] /\ Present' = Present
    BY <1>1, <1>2 DEF Begin, Present
<1>4. Alone'
    BY <1>1, <1>3 DEF Alone, Writing, TypeOK
<1>5. ChecksHold'
    BY <1>1, <1>2, <1>3 DEF Tidy, ChecksHold, Fits, TypeOK
<1>6. OneGeneration'
    BY <1>1, <1>2, <1>3 DEF Tidy, OneGeneration, TypeOK
<1>7. Stocked'
    BY <1>1, <1>3 DEF Tidy, Stocked
<1> QED
    BY <1>1, <1>4, <1>5, <1>6, <1>7 DEF Tidy

\* A request that writes was the only one, so what it leaves needs to fit the
\* workers only.
LEMMA LoneWrite ==
    ASSUME TypeOK, Tidy, NEW r \in Reqs, Writing(r),
           \A s \in Reqs \ {r} : req'[s] = req[s],
           req'[r].op \in {"idle", "schedule", "dispatch"},
           req'[r].op = "dispatch" => status' = "GENERATING"
    PROVE  /\ Alone'
           /\ status' # "NONE" => ChecksHold'
<1>1. \A s \in Reqs \ {r} : req[s].op \in {"idle", "schedule"}
    BY DEF Tidy, Alone, Writing
<1>2. Alone'
    BY <1>1 DEF Alone, Writing
<1>3. \A s \in Reqs : req'[s].op \in {"idle", "schedule"}
                      \/ (req'[s].op = "dispatch" /\ status' = "GENERATING")
    BY <1>1
<1> QED
    BY <1>2, <1>3 DEF ChecksHold, Fits

\* Every write finds the status its check found, moves the paper along its
\* lifecycle and leaves it tidy.
LEMMA WriteTidy ==
    ASSUME TypeOK, GatesInv, Tidy, NEW r \in Reqs, Write(r)
    PROVE  Tidy' /\ (status' # status => <<status, status'>> \in Lifecycle)
<1>0. Fits(req[r].op) /\ OneGeneration /\ Stocked
    BY DEF Tidy, ChecksHold
<1>1. CASE CreateJob(r)
  <2>1. Writing(r) /\ status = "DRAFT"
    BY <1>0, <1>1 DEF CreateJob, Writing, Fits
  <2>2. /\ \A s \in Reqs \ {r} : req'[s] = req[s]
        /\ req'[r].op = "dispatch" /\ status' = "GENERATING"
        /\ UNCHANGED <<workflow, ver, bank, msgs, exec>>
    BY <1>1 DEF CreateJob, TypeOK, Asked
  <2>3. Alone' /\ ChecksHold'
    BY <2>1, <2>2, LoneWrite
  <2>4. OneGeneration'
    BY <1>0, <2>1, <2>2 DEF OneGeneration
  <2>5. Stocked'
    BY <1>0, <2>1, <2>2 DEF Stocked, Cleared
  <2> QED
    BY <2>1, <2>2, <2>3, <2>4, <2>5 DEF Tidy, Lifecycle
<1>2. CASE DispatchGeneration(r) \/ QueueUnavailable(r)
  <2>1. Writing(r) /\ status = "GENERATING" /\ req[r].op \in Starting
    BY <1>0, <1>2 DEF DispatchGeneration, QueueUnavailable, Writing, Fits, Starting
  <2>2. /\ \A s \in Reqs \ {r} : req'[s] = req[s]
        /\ req'[r].op = "idle"
        /\ UNCHANGED <<workflow, ver, bank, exec>>
        /\ status' \in {"GENERATING", "FAILED"}
    BY <1>2, <2>1 DEF DispatchGeneration, QueueUnavailable, End, TypeOK, Asked, row
  <2>3. Alone' /\ ChecksHold'
    BY <2>1, <2>2, LoneWrite
  <2>4. \A s \in Reqs : req'[s].op \notin Starting
    BY <2>1, <2>2 DEF Tidy, Alone, Writing, Starting
  <2>5. OneGeneration'
    BY <1>0, <2>1, <2>2, <2>4 DEF OneGeneration
  <2>6. Stocked'
    BY <1>0, <2>1, <2>2 DEF Stocked, Cleared
  <2> QED
    BY <2>1, <2>2, <2>3, <2>5, <2>6 DEF Tidy, Lifecycle
<1>3. CASE UpdateQuestionWrite(r) \/ AssignScrutinizerWrite(r) \/ SealSchedule(r)
  <2>1. Present \subseteq Present'
    BY <1>3, BoundsAssumption
       DEF UpdateQuestionWrite, AssignScrutinizerWrite, SealSchedule, Present, TypeOK
  <2>2. UNCHANGED <<status, workflow, bank, exec>> /\ msgs'[GenMsg] = msgs[GenMsg]
    BY <1>3, MsgTypes DEF UpdateQuestionWrite, AssignScrutinizerWrite, SealSchedule, row,
                          TypeOK, GenMsg, ReleaseMsg
  <2>3. \A s \in Reqs : req'[s].op \in {"idle", "schedule", req[s].op}
    BY <1>3 DEF UpdateQuestionWrite, AssignScrutinizerWrite, SealSchedule, End, Asked, TypeOK
  <2> QED
    BY <2>1, <2>2, <2>3, StillTidy
<1>4. CASE \/ DeleteQuestionWrite(r) \/ SubmitForReviewWrite(r) \/ BoardDecideWrite(r)
           \/ FacultyApproveWrite(r) \/ ScrutinizeWrite(r) \/ SealWrite(r)
           \/ ForceReleaseWrite(r)
  <2>1. /\ Writing(r) /\ msgs' = msgs /\ exec' = exec /\ workflow' = workflow
        /\ \A s \in Reqs \ {r} : req'[s] = req[s]
        /\ req'[r].op \in {"idle", "schedule"}
    <3>1. CASE SealWrite(r)
      BY <3>1 DEF SealWrite, Writing, TypeOK, Request
    <3>2. CASE ~SealWrite(r)
      <4>1. Writing(r) /\ msgs' = msgs /\ exec' = exec /\ workflow' = workflow /\ End(r)
        BY <1>4, <3>2 DEF DeleteQuestionWrite, SubmitForReviewWrite, BoardDecideWrite,
                          FacultyApproveWrite, ScrutinizeWrite, ForceReleaseWrite, Writing, row
      <4> QED
        BY <4>1 DEF End, Asked, TypeOK
    <3> QED
      BY <3>1, <3>2
  <2>2. /\ status \in Editable \cup {"SUBMITTED"} \cup Cleared
        /\ status' \in {status, "SUBMITTED", "BOARD_RETURNED"} \cup Cleared
        /\ status = "SEALED" => status' \in {"SEALED", "RELEASED"}
        /\ status = "RELEASED" => status' = "RELEASED"
    BY <1>0, <1>4
       DEF DeleteQuestionWrite, SubmitForReviewWrite, BoardDecideWrite, FacultyApproveWrite,
           ScrutinizeWrite, SealWrite, ForceReleaseWrite, Fits, Editable, Cleared, row
  <2>3. Alone' /\ ChecksHold'
    BY <2>1, <2>2, LoneWrite DEF Editable, Cleared
  <2>4. OneGeneration'
  <3>1. msgs[GenMsg] # "queued" /\ \A w \in Workers : exec[w].phase \notin {"generating", "saved"}
    BY <1>0, <2>2 DEF OneGeneration, Editable, Cleared
  <3> QED
    BY <1>0, <2>1, <2>2, <3>1 DEF OneGeneration
  <2>5. CASE DeleteQuestionWrite(r)
    <3>1. Stocked'
      BY <1>0, <2>1, <2>5 DEF DeleteQuestionWrite, Fits, Editable, Stocked, Cleared, row
    <3> QED
      BY <2>3, <2>4, <2>5, <3>1 DEF DeleteQuestionWrite, Tidy, row
  <2>6. CASE SubmitForReviewWrite(r)
    <3>1. status \in Editable /\ Present # {} /\ workflow # "INTERNAL"
      BY <1>0, <2>6 DEF SubmitForReviewWrite, Fits, GatesInv, PendingJustified
    <3>2. Stocked'
      BY <1>0, <2>1, <2>6, <3>1 DEF SubmitForReviewWrite, Stocked, Cleared, Editable, Present
    <3> QED
      BY <2>3, <2>4, <2>6, <3>1, <3>2 DEF SubmitForReviewWrite, Tidy, Lifecycle
  <2>7. CASE BoardDecideWrite(r)
    <3>1. status = "SUBMITTED" /\ workflow # "INTERNAL" /\ Present # {}
          /\ \A q \in Questions : bank[q] = 0
      BY <1>0, <2>7 DEF BoardDecideWrite, Fits, GatesInv, PendingJustified, Stocked, Cleared
    <3>2. \A q \in Questions : bank'[q] \in {0, 1}
      BY <2>7, <3>1 DEF BoardDecideWrite, PromoteFromPaper, BankCap
    <3>3. status' = "BOARD_APPROVED" \/ (status' = "BOARD_RETURNED" /\ bank' = bank)
      BY <2>7 DEF BoardDecideWrite
    <3>4. Present' = Present
      BY <2>7 DEF BoardDecideWrite, Present
    <3>5. Stocked'
      BY <2>1, <3>1, <3>2, <3>3, <3>4 DEF Stocked, Cleared
    <3> QED
      BY <2>3, <2>4, <3>1, <3>3, <3>5 DEF Tidy, Lifecycle
  <2>8. CASE FacultyApproveWrite(r)
    <3>1. status \in Editable /\ Present # {} /\ workflow = "INTERNAL"
      BY <1>0, <2>8 DEF FacultyApproveWrite, Fits, GatesInv, PendingJustified
    <3>2. Stocked'
      BY <1>0, <2>1, <2>8, <3>1 DEF FacultyApproveWrite, Stocked, Cleared, Present
    <3> QED
      BY <2>3, <2>4, <2>8, <3>1, <3>2 DEF FacultyApproveWrite, Tidy, Lifecycle
  <2>9. CASE ScrutinizeWrite(r)
    <3>1. status = "SUBMITTED" /\ status' \in {"SUBMITTED", "BOARD_RETURNED"}
      BY <1>0, <2>9 DEF ScrutinizeWrite, Fits
    <3>2. Stocked'
      BY <1>0, <2>1, <2>9, <3>1 DEF ScrutinizeWrite, Stocked, Cleared, Present
    <3> QED
      BY <2>3, <2>4, <3>1, <3>2 DEF Tidy, Lifecycle
  <2>10. CASE SealWrite(r) \/ ForceReleaseWrite(r)
    <3>1. /\ status \in Cleared /\ status' \in Cleared
          /\ status' # status => <<status, status'>> \in Lifecycle
      BY <1>0, <2>10 DEF SealWrite, ForceReleaseWrite, Fits, Cleared, Lifecycle
    <3>2. Stocked'
      BY <1>0, <2>1, <2>10, <3>1 DEF SealWrite, ForceReleaseWrite, Stocked, Cleared, Present
    <3> QED
      BY <2>3, <2>4, <3>1, <3>2 DEF Tidy
  <2> QED
    BY <1>4, <2>5, <2>6, <2>7, <2>8, <2>9, <2>10
<1> QED
    BY <1>1, <1>2, <1>3, <1>4 DEF Write

\* While generation is with a worker or in the queue, no request has anything to
\* write that depends on the status.
LEMMA GeneratingAlone ==
    ASSUME TypeOK, Tidy, status \in {"GENERATING", "FAILED"},
           \A r \in Reqs : req[r].op \notin Starting
    PROVE  \A r \in Reqs : req[r].op \in {"idle", "schedule", "assign"}
BY DEF TypeOK, Request, Ops, Tidy, ChecksHold, Fits, Editable, Starting

\* Workers take a message only when it is queued, and find the status that goes
\* with it.
LEMMA TakeTidy ==
    ASSUME TypeOK, Tidy, NEW w \in Workers, Take(w)
    PROVE  Tidy' /\ (status' # status => <<status, status'>> \in Lifecycle)
<1>0. Alone /\ ChecksHold /\ OneGeneration /\ Stocked /\ w # "queued" /\ w # "none"
    BY NamesAssumption DEF Tidy
<1>1. CASE GenerationStart(w)
  <2>1. /\ status \in {"GENERATING", "FAILED"}
        /\ \A r \in Reqs : req[r].op \notin Starting
        /\ \A v \in Workers : exec[v].phase \notin {"generating", "saved", "releasing"}
    BY <1>0, <1>1, NamesAssumption DEF GenerationStart, OneGeneration
  <2>2. /\ status' = "GENERATING" /\ req' = req /\ msgs'[GenMsg] = w
        /\ \A v \in Workers : exec'[v] = IF v = w THEN [m |-> GenMsg, phase |-> "generating"]
                                        ELSE exec[v]
        /\ UNCHANGED <<workflow, ver, bank>>
    BY <1>1, MsgTypes DEF GenerationStart, TypeOK
  <2>3. ChecksHold'
    BY <2>1, <2>2, GeneratingAlone DEF ChecksHold, Fits
  <2>4. OneGeneration'
    BY <1>0, <2>1, <2>2 DEF OneGeneration
  <2>5. Alone' /\ Stocked'
    BY <1>0, <2>1, <2>2 DEF Alone, Writing, Stocked, Cleared, Present
  <2> QED
    BY <2>1, <2>2, <2>3, <2>4, <2>5 DEF Tidy, Lifecycle
<1>2. ASSUME UNCHANGED <<row, ver, bank, req>>, msgs'[GenMsg] = msgs[GenMsg],
             \A v \in Workers \ {w} : exec'[v] = exec[v],
             exec'[w] # exec[w] =>
                /\ exec'[w].m # GenMsg
                /\ \/ exec'[w].phase = "regenerating"
                   \/ exec'[w].phase = "releasing" /\ status = "SEALED"
      PROVE  Tidy' /\ status' = status
  <2>1. ChecksHold' /\ Alone' /\ Stocked' /\ status' = status
    BY <1>0, <1>2 DEF row, ChecksHold, Fits, Alone, Writing, Stocked, Present
  <2>2. OneGeneration'
    BY <1>0, <1>2 DEF row, OneGeneration
  <2> QED
    BY <2>1, <2>2 DEF Tidy
<1>3. ASSUME NEW q \in Questions, RegenerationStart(w, q) \/ RegenerationReject(w, q)
      PROVE  Tidy' /\ status' = status
    BY <1>2, <1>3, MsgTypes
       DEF RegenerationStart, RegenerationReject, TypeOK, RegenMsg, GenMsg
<1>4. ASSUME NEW at \in 0..MaxTime, ReleaseStart(w, at) \/ ReleaseSkip(w, at)
      PROVE  Tidy' /\ status' = status
    BY <1>2, <1>4, MsgTypes DEF ReleaseStart, ReleaseSkip, TypeOK, ReleaseMsg, GenMsg
<1> QED
    BY <1>1, <1>3, <1>4 DEF Take

\* A task body writes the status that goes with it, and ends where it is alone.
LEMMA WorkTidy ==
    ASSUME TypeOK, Tidy, NEW w \in Workers, Work(w) \/ WorkerCrash(w) \/ ProcessLost(w)
    PROVE  Tidy' /\ (status' # status => <<status, status'>> \in Lifecycle)
<1>0. Alone /\ ChecksHold /\ OneGeneration /\ Stocked /\ w # "queued" /\ w # "none"
    BY NamesAssumption DEF Tidy
<1>1. CASE exec[w].phase \in {"generating", "saved"}
  <2>1. /\ exec[w].m = GenMsg /\ msgs[GenMsg] = w /\ status = "GENERATING"
        /\ \A r \in Reqs : req[r].op \notin Starting
        /\ \A v \in Workers \ {w} : exec[v].phase \notin {"generating", "saved"}
        /\ \A v \in Workers : exec[v].phase # "releasing"
    BY <1>0, <1>1 DEF OneGeneration
  <2>2. /\ req' = req /\ UNCHANGED <<workflow, bank>>
        /\ \A v \in Workers \ {w} : exec'[v] = exec[v]
    BY <1>1 DEF Work, GenerationSave, GenerationFinish, GenerationFail, RegenerationFinish,
                RegenerationFail, ReleaseFinish, ReleaseRetry, WorkerCrash, ProcessLost,
                Done, TypeOK, row
  <2>3. ASSUME status' \in {"GENERATING", "GENERATED", "FAILED"}
        PROVE  Alone' /\ ChecksHold' /\ Stocked'
    BY <1>0, <2>1, <2>2, <2>3, GeneratingAlone
       DEF Alone, Writing, ChecksHold, Fits, Stocked, Cleared
  <2>4. CASE GenerationSave(w)
    <3>1. /\ status' = status /\ msgs' = msgs
          /\ exec'[w].m = GenMsg /\ exec'[w].phase = "saved"
      BY <2>1, <2>4 DEF GenerationSave, TypeOK, row
    <3>2. OneGeneration'
      BY <1>0, <2>1, <2>2, <3>1 DEF OneGeneration
    <3> QED
      BY <2>1, <2>3, <3>1, <3>2 DEF Tidy
  <2>5. ASSUME Done(w), msgs'[GenMsg] \in {"none", "queued", msgs[GenMsg]},
               status' \in {"GENERATING", "GENERATED", "FAILED"},
               msgs'[GenMsg] = "queued" => status' # "GENERATED"
        PROVE  Tidy' /\ (status' # status => <<status, status'>> \in Lifecycle)
    <3>1. exec'[w].phase = "idle"
      BY <2>5 DEF Done, TypeOK, IdleExec
    <3>2. OneGeneration'
      BY <1>0, <2>1, <2>2, <2>5, <3>1 DEF OneGeneration
    <3> QED
      BY <2>1, <2>3, <2>5, <3>2 DEF Tidy, Lifecycle
  <2>6. GenMsg \in Msgs
    BY MsgTypes
  <2>7. CASE GenerationFinish(w) \/ GenerationFail(w)
    BY <1>0, <2>1, <2>5, <2>6, <2>7
       DEF GenerationFinish, GenerationFail, AckBy, RetryBy, TypeOK
  <2>8. CASE WorkerCrash(w) \/ ProcessLost(w)
    BY <1>0, <2>1, <2>5, <2>6, <2>8 DEF WorkerCrash, ProcessLost, AckBy, TypeOK, row
  <2> QED
    BY <1>1, <2>4, <2>7, <2>8
       DEF Work, RegenerationFinish, RegenerationFail, ReleaseFinish, ReleaseRetry
<1>2. CASE exec[w].phase \in {"regenerating", "releasing"}
  <2>1. exec[w].m # GenMsg
    BY <1>0, <1>2 DEF OneGeneration
  <2>2. /\ req' = req /\ UNCHANGED <<workflow, bank>> /\ msgs'[GenMsg] = msgs[GenMsg]
        /\ \A v \in Workers : exec'[v].phase = "idle" \/ exec'[v] = exec[v]
    BY <1>2, <2>1, MsgTypes
       DEF Work, GenerationSave, GenerationFinish, GenerationFail, RegenerationFinish,
           RegenerationFail, ReleaseFinish, ReleaseRetry, WorkerCrash, ProcessLost,
           Done, AckBy, RetryBy, IdleExec, TypeOK, row
  <2>3. CASE ReleaseFinish(w)
    <3>1. status \in {"SEALED", "RELEASED"} /\ status' = "RELEASED" /\ ver' = ver
      BY <1>0, <2>3 DEF ReleaseFinish, OneGeneration
    <3>2. msgs[GenMsg] # "queued"
          /\ \A v \in Workers : exec[v].phase \notin {"generating", "saved"}
      BY <1>0, <3>1 DEF OneGeneration
    <3>3. OneGeneration'
      BY <1>0, <2>2, <3>1, <3>2 DEF OneGeneration
    <3>4. ChecksHold'
      BY <1>0, <2>2, <3>1 DEF ChecksHold, Fits, Editable, Present
    <3>5. Alone' /\ Stocked'
      BY <1>0, <2>2, <3>1 DEF Alone, Writing, Stocked, Cleared, Present
    <3> QED
      BY <3>1, <3>3, <3>4, <3>5 DEF Tidy, Lifecycle
  <2>4. CASE ~ReleaseFinish(w)
    <3>1. status' = status /\ Present \subseteq Present'
      BY <1>2, <2>4, BoundsAssumption
         DEF Work, GenerationSave, GenerationFinish, GenerationFail, RegenerationFinish,
             RegenerationFail, ReleaseRetry, WorkerCrash, ProcessLost, Present, TypeOK, row
    <3> QED
      BY <2>2, <3>1, StillTidy
  <2> QED
    BY <2>3, <2>4
<1>3. CASE exec[w].phase = "idle"
  <2>1. WorkerCrash(w) \/ ProcessLost(w)
    BY <1>3 DEF Work, GenerationSave, GenerationFinish, GenerationFail, RegenerationFinish,
                RegenerationFail, ReleaseFinish, ReleaseRetry
  <2>2. /\ UNCHANGED <<row, ver, bank, req>>
        /\ \A v \in Workers : exec'[v].phase = "idle" \/ exec'[v] = exec[v]
        /\ msgs'[GenMsg] \in {msgs[GenMsg], IF msgs[GenMsg] = w THEN "none" ELSE msgs[GenMsg]}
    BY <2>1, MsgTypes DEF WorkerCrash, ProcessLost, Done, AckBy, IdleExec, TypeOK
  <2>3. OneGeneration'
    BY <1>0, <1>3, <2>2 DEF OneGeneration, row
  <2>4. Alone' /\ ChecksHold' /\ Stocked' /\ status' = status
    BY <1>0, <2>2 DEF row, Alone, Writing, ChecksHold, Fits, Present, Stocked
  <2> QED
    BY <2>3, <2>4 DEF Tidy
<1> QED
    BY <1>1, <1>2, <1>3 DEF TypeOK, Phases

\* Creating a paper starts the one generation it has.
LEMMA CreateTidy ==
    ASSUME TypeOK, Tidy, NEW r \in Reqs, CreatePaper(r)
    PROVE  Tidy' /\ <<status, status'>> \in Lifecycle
<1>1. /\ status = "NONE" /\ status' = "DRAFT" /\ UNCHANGED <<workflow, ver, bank, msgs, exec>>
      /\ \A s \in Reqs : req'[s] = IF s = r THEN Asked("createJob") ELSE req[s]
    BY DEF CreatePaper, TypeOK
<1>2. \A s \in Reqs : req[s].op \in {"idle", "schedule"}
    BY <1>1 DEF Tidy, ChecksHold, Writing
<1>3. Alone' /\ ChecksHold'
    BY <1>1, <1>2 DEF Alone, Writing, ChecksHold, Fits, Asked
<1>4. OneGeneration' /\ Stocked'
    BY <1>1 DEF Tidy, OneGeneration, Stocked, Cleared, Present
<1> QED
    BY <1>1, <1>3, <1>4 DEF Tidy, Lifecycle

\* What remains moves no paper; a second delivery of generation is a race.
LEMMA RestTidy ==
    ASSUME TypeOK, Tidy, ~raced',
           \/ \E r \in Reqs : Abandon(r)
           \/ \E q \in Questions : RegenerateQuestion(q)
           \/ \E m \in Msgs : Redeliver(m)
           \/ Tick \/ UNCHANGED vars
    PROVE  Tidy' /\ status' = status
<1>1. UNCHANGED <<row, ver, bank, exec>>
    BY DEF Abandon, RegenerateQuestion, Redeliver, Tick, vars
<1>2. \A r \in Reqs : req'[r].op \in {"idle", "schedule", req[r].op}
    BY DEF Abandon, RegenerateQuestion, Redeliver, Tick, vars, End, Asked, TypeOK
<1>3. msgs'[GenMsg] = msgs[GenMsg]
  <2>1. ASSUME NEW q \in Questions, RegenerateQuestion(q)
        PROVE  msgs'[GenMsg] = msgs[GenMsg]
    BY <2>1, MsgTypes DEF RegenerateQuestion, TypeOK, RegenMsg, GenMsg
  <2>2. ASSUME NEW m \in Msgs, Redeliver(m)
        PROVE  msgs'[GenMsg] = msgs[GenMsg]
    <3>1. m # GenMsg
      BY <2>2 DEF Redeliver
    <3> QED
      BY <2>2, <3>1 DEF Redeliver, TypeOK
  <2> QED
    BY <2>1, <2>2 DEF Abandon, Tick, vars
<1> QED
    BY <1>1, <1>2, <1>3, StillTidy DEF row, Present

\* Overlaps are remembered.
LEMMA RacedGrows ==
    ASSUME TypeOK, [Next]_vars, raced
    PROVE  raced'
<1> USE DEF row, history
<1>0. raced = TRUE
    BY DEF TypeOK
<1>1. ASSUME NEW r \in Reqs, Check(r)
      PROVE  raced'
    BY <1>0, <1>1 DEF Check, UpdateQuestionCheck, DeleteQuestionCheck, SubmitForReviewCheck,
           FacultyApproveCheck, ForceReleaseCheck, BoardDecideCheck, AssignScrutinizerCheck,
           ScrutinizeCheck, SealCheck, Begin
<1>2. ASSUME NEW m \in Msgs, Redeliver(m)
      PROVE  raced'
    BY <1>0, <1>2 DEF Redeliver
<1>3. ASSUME NEW r \in Reqs, CreatePaper(r) \/ Write(r) \/ Abandon(r)
      PROVE  raced' = raced
    BY <1>3 DEF CreatePaper, Write, CreateJob, DispatchGeneration, QueueUnavailable,
                UpdateQuestionWrite, DeleteQuestionWrite, SubmitForReviewWrite,
                BoardDecideWrite, FacultyApproveWrite, AssignScrutinizerWrite,
                ScrutinizeWrite, SealWrite, SealSchedule, ForceReleaseWrite, Abandon
<1>4. ASSUME NEW w \in Workers, Take(w) \/ Work(w) \/ WorkerCrash(w) \/ ProcessLost(w)
      PROVE  raced' = raced
    BY <1>4 DEF Take, GenerationStart, RegenerationStart, RegenerationReject, ReleaseStart,
                ReleaseSkip, Work, GenerationSave, GenerationFinish, GenerationFail,
                RegenerationFinish, RegenerationFail, ReleaseFinish, ReleaseRetry,
                WorkerCrash, ProcessLost
<1>5. ASSUME Tick \/ UNCHANGED vars \/ \E q \in Questions : RegenerateQuestion(q)
      PROVE  raced' = raced
    BY <1>5 DEF Tick, vars, RegenerateQuestion
<1> QED
    BY <1>0, <1>1, <1>2, <1>3, <1>4, <1>5 DEF Next

\* Unless it races, every step keeps the paper tidy and follows the lifecycle.
LEMMA TidyStep ==
    ASSUME TypeOK, GatesInv, Tidy, [Next]_vars
    PROVE  /\ ~raced' => Tidy'
           /\ status' # status => <<status, status'>> \in Lifecycle
<1>1. ASSUME NEW r \in Reqs, Check(r)
      PROVE  status' = status
    BY <1>1 DEF Check, UpdateQuestionCheck, DeleteQuestionCheck, SubmitForReviewCheck,
           FacultyApproveCheck, ForceReleaseCheck, BoardDecideCheck, AssignScrutinizerCheck,
           ScrutinizeCheck, SealCheck, Begin, row
<1>2. ASSUME NEW m \in Msgs, Redeliver(m)
      PROVE  status' = status
    BY <1>2 DEF Redeliver, row
<1>3. ASSUME \/ \E r \in Reqs : Abandon(r)
             \/ \E q \in Questions : RegenerateQuestion(q)
             \/ Tick \/ UNCHANGED vars
      PROVE  status' = status
    BY <1>3 DEF Abandon, RegenerateQuestion, Tick, vars, row
<1> QED
    BY <1>1, <1>2, <1>3, CheckTidy, WriteTidy, TakeTidy, WorkTidy, CreateTidy, RestTidy
       DEF Next

\* All parts of the argument hold in every reachable state.
LEMMA TidyHolds == Spec => [](TypeOK /\ GatesInv /\ (~raced => Tidy))
<1>1. Init => Tidy
  <2> SUFFICES ASSUME Init PROVE Tidy
    OBVIOUS
  <2>1. \A r \in Reqs : req[r].op = "idle"
    BY DEF Init, Asked
  <2>2. Alone /\ ChecksHold
    BY <2>1 DEF Alone, Writing, ChecksHold, Fits
  <2>3. OneGeneration
    BY MsgTypes DEF Init, OneGeneration, IdleExec
  <2>4. Stocked
    BY DEF Init, Stocked, Cleared
  <2> QED
    BY <2>2, <2>3, <2>4 DEF Tidy
<1>2. TypeOK /\ GatesInv /\ (~raced => Tidy) /\ [Next]_vars => (~raced' => Tidy')
    BY TidyStep, RacedGrows
<1>3. Spec => []GatesInv
    BY GatesHold, PTL DEF GatesInv
<1> QED
    BY <1>1, <1>2, <1>3, TypeCorrect, PTL DEF Spec

\* What is checked of a paper stays true of it: every pending request and release
\* stays justified by the decisions written, and without overlapping requests a
\* paper under review keeps its questions and none is promoted to the bank twice.
THEOREM SoundHolds == Spec => []PaperSound
<1>1. TypeOK /\ GatesInv /\ (~raced => Tidy) => PaperSound
  <2> SUFFICES ASSUME TypeOK, GatesInv, ~raced => Tidy PROVE PaperSound
    OBVIOUS
  <2>1. ReviewedHasQuestions
    BY DEF ReviewedHasQuestions, Tidy, Stocked, Cleared
  <2>2. BankedOnce
    BY DEF BankedOnce, Tidy, Stocked, TypeOK
  <2> QED
    BY <2>1, <2>2 DEF PaperSound, GatesInv
<1> QED
    BY <1>1, TidyHolds, PTL

\* Without an overlap the status follows the lifecycle ExamPaperStatus documents,
\* whatever tasks, crashes and retries interleave: nothing leaves RELEASED, and
\* only a release leaves SEALED.
THEOREM LifecycleHolds == Spec => FollowsLifecycle
<1>1. TypeOK /\ GatesInv /\ (~raced => Tidy) /\ [Next]_vars => [LifecycleStep]_vars
    BY TidyStep DEF LifecycleStep
<1> QED
    BY <1>1, TidyHolds, PTL DEF Spec, FollowsLifecycle
=============================================================================
