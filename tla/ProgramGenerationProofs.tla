----------------------- MODULE ProgramGenerationProofs -----------------------
(***************************************************************************)
(* Type correctness of ProgramGeneration, and what its requests, retries,  *)
(* crashes and cleanups never break: a generation that is under way can    *)
(* still end, a job reported done has committed, and an approved program   *)
(* is compliant and stays approved.  For any number of requests, workers   *)
(* and jobs and any bounds.                                                *)
(***************************************************************************)
EXTENDS ProgramGeneration, TLAPS

----------------------------------------------------------------------------
(* The inductive invariant, part one: what holds whatever overlaps.        *)

\* A worker is idle, in no job, or in a phase of some job; and a request about to publish has
\* the job its dispatch created.
Placed ==
    /\ \A w \in Workers :
          exec[w] = IdleExec \/ (exec[w].phase # "idle" /\ exec[w].job \in Jobs)
    /\ \A r \in Reqs : req[r].op = "publish" => req[r].job \in Jobs

\* A job without a row has left no trace anywhere: its id is still free.
Fresh ==
    \A j \in Jobs : job[j] = "NONE" =>
        /\ j # cur /\ j \notin done /\ j \notin selected
        /\ msg[j] = "none"
        /\ \A w \in Workers : exec[w].job # j
        /\ \A r \in Reqs : req[r].job # j

\* A worker past the commit of its task body has its job among those done.
Committed == \A w \in Workers : exec[w].phase = "committed" => exec[w].job \in done

\* While a program is AI_GENERATING the job of its last dispatch exists and has
\* not committed.
Current == status = "AI_GENERATING" => cur \in Jobs /\ cur \notin done

Base == TypeOK /\ Placed /\ Fresh /\ Committed /\ Current

(* Part two: what holds as long as requests do not overlap (raced) and no  *)
(* message is redelivered nor a job cleaned up that was not stuck (stray). *)

Publishes(r, j) == req[r].op = "publish" /\ req[r].job = j
Busy(w) == exec[w].phase \in {"running", "failed", "reverting"}
Active(r) == req[r].op \notin {"idle", "publish"}

\* Something is still to be done for job j.
Pending(j) ==
    \/ \E r \in Reqs : Publishes(r, j)
    \/ msg[j] = "queued"
    \/ \E w \in Workers : exec[w].job = j /\ Busy(w)

\* A job is in one place: with the request about to publish it, in the queue,
\* or with the one worker that holds its message.
OnePlace ==
    /\ \A w \in Workers : exec[w].phase # "idle" => msg[exec[w].job] = w
    /\ \A r \in Reqs, j \in Jobs : Publishes(r, j) => msg[j] = "none"
    /\ \A r, s \in Reqs, j \in Jobs : Publishes(r, j) /\ Publishes(s, j) => r = s

\* One request at a time is between its check and its write.
OneRequest == \A r, s \in Reqs : Active(r) /\ Active(s) => r = s

\* Work is pending only for the last dispatch of a program that generates.
OnlyCurrent == \A j \in Jobs : Pending(j) => j = cur /\ status = "AI_GENERATING"

\* What a request's check found is still so when it writes.
ChecksHold ==
    \A r \in Reqs :
        /\ req[r].op = "dispatch" => status \in {"DRAFT", "GENERATION_FAILED"}
        /\ req[r].op = "approve" => status = "PENDING_APPROVAL" /\ compliant
        /\ req[r].op = "reject" => status = "PENDING_APPROVAL"
        /\ req[r].op = "edit" => status \in {"DRAFT", "PENDING_APPROVAL"}
        /\ req[r].op = "delete" => status = "DRAFT"

\* A program that awaits or has its approval, or is a draft, has its last
\* dispatch behind it; an approved one is compliant.
Settled ==
    /\ status \in {"DRAFT", "PENDING_APPROVAL", "APPROVED"} => cur \in done \cup {NoJob}
    /\ status = "APPROVED" => compliant

Calm == OnePlace /\ OneRequest /\ OnlyCurrent /\ ChecksHold /\ Settled

Orderly ==
    /\ ~stray => OnePlace
    /\ ~raced => OneRequest
    /\ ~raced /\ ~stray => OnlyCurrent /\ ChecksHold /\ Settled

----------------------------------------------------------------------------
(* Type correctness.                                                       *)

\* The parts of a task's step keep their types.
LEMMA PartTypes ==
    ASSUME TypeOK
    PROVE  /\ \A w \in Workers : AckBy(w) \in [Jobs -> {"none", "queued"} \cup Workers]
           /\ \A w \in Workers : Done(w) =>
                 exec' \in [Workers -> [job : Jobs \cup {NoJob}, phase : Phases]]
           /\ \A r \in Reqs : End(r) => req' \in [Reqs -> [op : Ops, job : Jobs \cup {NoJob}]]
           /\ \A j, s : s \in TaskStatus /\ WriteStatus(j, s) =>
                 job' \in [Jobs -> TaskStatus \cup {"NONE"}] /\ faults' \in 0..MaxFaults
           /\ Fault => faults' \in 0..MaxFaults
<1> USE DEF TypeOK
<1>1. Fault => faults' \in 0..MaxFaults
    BY GenerationAssumption DEF Fault
<1>2. \A w \in Workers : AckBy(w) \in [Jobs -> {"none", "queued"} \cup Workers]
    BY DEF AckBy
<1>3. IdleExec \in [job : Jobs \cup {NoJob}, phase : Phases]
    BY DEF IdleExec, Phases
<1>4. \A w \in Workers : Done(w) =>
          exec' \in [Workers -> [job : Jobs \cup {NoJob}, phase : Phases]]
    BY <1>3 DEF Done
<1>5. \A r \in Reqs : End(r) => req' \in [Reqs -> [op : Ops, job : Jobs \cup {NoJob}]]
    BY DEF End, Asked, Ops
<1>6. \A j, s : s \in TaskStatus /\ WriteStatus(j, s) =>
          job' \in [Jobs -> TaskStatus \cup {"NONE"}] /\ faults' \in 0..MaxFaults
    BY <1>1 DEF WriteStatus
<1> QED
    BY <1>1, <1>2, <1>4, <1>5, <1>6

\* The steps of requests keep the types.
LEMMA RequestTypes ==
    ASSUME TypeOK, NEW r \in Reqs, Check(r) \/ Write(r) \/ Abandon(r)
    PROVE  TypeOK'
<1> USE DEF TypeOK, program, queue, history
<1>1. ASSUME NEW op \in Ops, Begin(r, op)
      PROVE  TypeOK'
    BY <1>1 DEF Begin, Asked
<1>2. CASE Check(r)
    BY <1>1, <1>2 DEF Check, DispatchCheck, ApproveCheck, RejectCheck, EditCourseCheck,
                      EditDraftCheck, DeleteCheck, Ops
<1>3. CASE DispatchWrite(r)
  <2>1. CASE End(r) /\ UNCHANGED <<status, job, cur>>
    BY <1>3, <2>1, PartTypes DEF DispatchWrite
  <2>2. CASE /\ status' = "AI_GENERATING"
             /\ \E j \in Jobs :
                   /\ job' = [job EXCEPT ![j] = "PENDING"]
                   /\ req' = [req EXCEPT ![r] = [op |-> "publish", job |-> j]]
                   /\ cur' = j
    BY <1>3, <2>2 DEF DispatchWrite, ProgramStatus, TaskStatus, Live, Ops
  <2> QED
    BY <1>3, <2>1, <2>2 DEF DispatchWrite
<1>4. CASE PublishGeneration(r)
    BY <1>4, PartTypes DEF PublishGeneration
<1>5. CASE ApproveWrite(r) \/ RejectWrite(r) \/ EditWrite(r) \/ DeleteWrite(r)
    BY <1>5, PartTypes DEF ApproveWrite, RejectWrite, EditWrite, DeleteWrite, Put, ProgramStatus
<1>6. CASE Abandon(r)
    BY <1>6, PartTypes DEF Abandon
<1> QED
    BY <1>2, <1>3, <1>4, <1>5, <1>6 DEF Write

\* The steps of workers keep the types.
LEMMA WorkerTypes ==
    ASSUME TypeOK, Placed, NEW w \in Workers,
           \/ Work(w) \/ WorkerCrash(w) \/ ProcessLost(w)
           \/ \E j \in Jobs : BeforeStart(w, j)
    PROVE  TypeOK'
<1> USE DEF TypeOK, program, queue, history
<1>1. ASSUME NEW j \in Jobs, BeforeStart(w, j)
      PROVE  TypeOK'
  <2>1. job' \in [Jobs -> TaskStatus \cup {"NONE"}] /\ faults' \in 0..MaxFaults
    BY <1>1, PartTypes DEF BeforeStart, TaskStatus, Live
  <2>2. exec' \in [Workers -> [job : Jobs \cup {NoJob}, phase : Phases]]
    BY <1>1 DEF BeforeStart, Phases
  <2>3. old' \in [Jobs -> BOOLEAN] /\ msg' \in [Jobs -> {"none", "queued"} \cup Workers]
    BY <1>1 DEF BeforeStart
  <2> QED
    BY <1>1, <2>1, <2>2, <2>3 DEF BeforeStart
<1>2. CASE RunGeneration(w)
    BY <1>2 DEF RunGeneration, Placed, IdleExec, Phases, ProgramStatus
<1>3. CASE GenerationError(w)
    BY <1>3 DEF GenerationError, Phases
<1>4. CASE OnRetry(w)
  <2>1. exec[w].job \in Jobs /\ retries[exec[w].job] + 1 \in 0..MaxRetries
    BY <1>4, GenerationAssumption DEF OnRetry, Placed, IdleExec
  <2> QED
    BY <1>4, <2>1, PartTypes DEF OnRetry
<1>5. CASE OnSuccess(w)
    BY <1>5, PartTypes DEF OnSuccess, TaskStatus
<1>6. CASE OnFailure(w)
  <2>1. job' \in [Jobs -> TaskStatus \cup {"NONE"}] /\ faults' \in 0..MaxFaults
    BY <1>6, PartTypes DEF OnFailure, TaskStatus
  <2>2. exec' \in [Workers -> [job : Jobs \cup {NoJob}, phase : Phases]]
    BY <1>6 DEF OnFailure, Phases
  <2> QED
    BY <1>6, <2>1, <2>2 DEF OnFailure
<1>7. CASE RevertEntityStatus(w)
    BY <1>7, PartTypes DEF RevertEntityStatus, Put, Forget, ProgramStatus
<1>8. CASE WorkerCrash(w) \/ ProcessLost(w)
    BY <1>8, PartTypes DEF WorkerCrash, ProcessLost, Forget
<1> QED
    BY <1>1, <1>2, <1>3, <1>4, <1>5, <1>6, <1>7, <1>8 DEF Work

\* The steps of the cleanup, the clock and the broker keep the types.
LEMMA SystemTypes ==
    ASSUME TypeOK,
           \/ Cleanup \/ CleanupAbort
           \/ \E j \in Jobs : Age(j) \/ Redeliver(j)
    PROVE  TypeOK'
<1> USE DEF TypeOK, program, queue, history
<1>1. CASE CleanupSelect
    BY <1>1 DEF CleanupSelect
<1>2. CASE CleanupCommit
    BY <1>2 DEF CleanupCommit, Put, ProgramStatus, TaskStatus
<1>3. CASE CleanupAbort
    BY <1>3, PartTypes DEF CleanupAbort
<1>4. ASSUME NEW j \in Jobs, Age(j) \/ Redeliver(j)
      PROVE  TypeOK'
    BY <1>4, PartTypes DEF Age, Redeliver
<1> QED
    BY <1>1, <1>2, <1>3, <1>4 DEF Cleanup

----------------------------------------------------------------------------
(* Part one is inductive.                                                  *)

\* The steps of requests keep part one.
LEMMA RequestBase ==
    ASSUME Base, NEW r \in Reqs, Check(r) \/ Write(r) \/ Abandon(r)
    PROVE  (Placed /\ Fresh /\ Committed /\ Current)'
<1> USE DEF program, queue, history
<1>0. NoJob \notin Jobs /\ TypeOK /\ Placed /\ Fresh /\ Committed /\ Current
    BY GenerationAssumption DEF Base
<1>1. ASSUME NEW op \in Ops, Begin(r, op), op # "publish"
      PROVE  (Placed /\ Fresh /\ Committed /\ Current)'
    BY <1>0, <1>1 DEF Begin, Asked, TypeOK, Placed, Fresh, Committed, Current
<1>2. CASE Check(r)
    BY <1>1, <1>2 DEF Check, DispatchCheck, ApproveCheck, RejectCheck, EditCourseCheck,
                      EditDraftCheck, DeleteCheck, Ops
<1>3. ASSUME NEW j \in Jobs, req[r].op = "dispatch", job[j] = "NONE",
             job' = [job EXCEPT ![j] = "PENDING"],
             req' = [req EXCEPT ![r] = [op |-> "publish", job |-> j]],
             cur' = j,
             UNCHANGED <<old, queue, selected, done>>
      PROVE  (Placed /\ Fresh /\ Committed /\ Current)'
  <2>1. j \notin done /\ j \notin selected /\ msg[j] = "none"
    BY <1>0, <1>3 DEF Fresh
  <2>2. Placed'
    BY <1>0, <1>3 DEF Placed, TypeOK
  <2>3. Fresh'
    BY <1>0, <1>3 DEF Fresh, TypeOK
  <2>4. Committed' /\ Current'
    BY <1>0, <1>3, <2>1 DEF Committed, Current
  <2> QED
    BY <2>2, <2>3, <2>4
<1>4. CASE DispatchWrite(r)
  <2>1. CASE End(r) /\ UNCHANGED <<status, job, cur>>
    BY <1>0, <1>4, <2>1
       DEF DispatchWrite, End, Asked, TypeOK, Placed, Fresh, Committed, Current
  <2> QED
    BY <1>3, <1>4, <2>1 DEF DispatchWrite
<1>5. CASE PublishGeneration(r)
  <2>1. req[r].job \in Jobs /\ job[req[r].job] # "NONE"
    BY <1>0, <1>5 DEF PublishGeneration, Placed, Fresh
  <2> QED
    BY <1>0, <1>5, <2>1
       DEF PublishGeneration, End, Asked, TypeOK, Placed, Fresh, Committed, Current
<1>6. CASE ApproveWrite(r) \/ RejectWrite(r) \/ EditWrite(r) \/ DeleteWrite(r)
  <2>1. /\ req' = [req EXCEPT ![r] = Asked("idle")]
        /\ status' = "AI_GENERATING" => status = "AI_GENERATING"
        /\ UNCHANGED <<job, msg, exec, selected, cur, done>>
    BY <1>6 DEF ApproveWrite, RejectWrite, EditWrite, DeleteWrite, Put, End
  <2> QED
    BY <1>0, <2>1 DEF Asked, TypeOK, Placed, Fresh, Committed, Current
<1>7. CASE Abandon(r)
    BY <1>0, <1>7 DEF Abandon, End, Asked, TypeOK, Placed, Fresh, Committed, Current
<1> QED
    BY <1>2, <1>4, <1>5, <1>6, <1>7 DEF Write

\* A worker's step that leaves the program as it is, touches the row and the
\* message of no job but its own, a job that has a row, and leaves the worker in
\* that job or in none, keeps Placed and Fresh.
LEMMA WorkerTouches ==
    ASSUME Base, NEW w \in Workers, NEW j \in Jobs, job[j] # "NONE",
           NEW e \in [job : Jobs \cup {NoJob}, phase : Phases],
           e = IdleExec \/ (e.phase # "idle" /\ e.job = j),
           exec' = [exec EXCEPT ![w] = e],
           \A i \in Jobs \ {j} : job'[i] = job[i] /\ msg'[i] = msg[i],
           job'[j] # "NONE",
           done' \in {done, done \cup {j}},
           UNCHANGED <<req, selected, cur>>
    PROVE  Placed' /\ Fresh'
<1>1. NoJob \notin Jobs /\ TypeOK /\ Placed /\ Fresh
    BY GenerationAssumption DEF Base
<1>2. \A v \in Workers : exec'[v] = IF v = w THEN e ELSE exec[v]
    BY <1>1 DEF TypeOK
<1>3. Placed'
    BY <1>1, <1>2 DEF Placed, IdleExec
<1>4. Fresh'
    BY <1>1, <1>2 DEF Fresh, IdleExec
<1> QED
    BY <1>3, <1>4

\* A worker that is not idle is in a job with a row.
LEMMA WorkerJob ==
    ASSUME Base, NEW w \in Workers, exec[w].phase # "idle"
    PROVE  exec[w].job \in Jobs /\ job[exec[w].job] # "NONE"
BY DEF Base, Placed, Fresh, IdleExec

\* The steps of workers keep part one.
LEMMA WorkerBase ==
    ASSUME Base, NEW w \in Workers,
           \/ Work(w) \/ WorkerCrash(w) \/ ProcessLost(w)
           \/ \E j \in Jobs : BeforeStart(w, j)
    PROVE  (Placed /\ Fresh /\ Committed /\ Current)'
<1> USE DEF program, queue, history
<1>0. NoJob \notin Jobs /\ TypeOK /\ Placed /\ Fresh /\ Committed /\ Current
    BY GenerationAssumption DEF Base
<1>a. IdleExec \in [job : Jobs \cup {NoJob}, phase : Phases]
    BY DEF IdleExec, Phases
<1>1. ASSUME NEW j \in Jobs, BeforeStart(w, j)
      PROVE  (Placed /\ Fresh /\ Committed /\ Current)'
  <2>1. job[j] # "NONE"
    BY <1>0, <1>1 DEF Fresh, BeforeStart
  <2>2. [job |-> j, phase |-> "running"] \in [job : Jobs \cup {NoJob}, phase : Phases]
    BY DEF Phases
  <2>3. /\ \A i \in Jobs \ {j} : job'[i] = job[i] /\ msg'[i] = msg[i]
        /\ job'[j] # "NONE"
    BY <1>0, <1>1, <2>1 DEF BeforeStart, WriteStatus, TypeOK
  <2>4. Placed' /\ Fresh'
    BY <1>1, <2>1, <2>2, <2>3, WorkerTouches DEF BeforeStart
  <2>5. Committed' /\ Current'
    BY <1>0, <1>1 DEF BeforeStart, TypeOK, Committed, Current
  <2> QED
    BY <2>4, <2>5
<1>2. ASSUME exec[w].phase # "idle",
             \/ exec' = [exec EXCEPT ![w].phase = "failed"]
             \/ exec' = [exec EXCEPT ![w].phase = "reverting"]
             \/ exec' = [exec EXCEPT ![w] = IdleExec],
             \A i \in Jobs \ {exec[w].job} : job'[i] = job[i] /\ msg'[i] = msg[i],
             job'[exec[w].job] # "NONE",
             status' = "AI_GENERATING" => status = "AI_GENERATING",
             UNCHANGED <<req, selected, done, cur>>
      PROVE  (Placed /\ Fresh /\ Committed /\ Current)'
  <2>1. exec[w].job \in Jobs /\ job[exec[w].job] # "NONE"
    BY <1>2, WorkerJob
  <2>2. PICK e \in {[exec[w] EXCEPT !.phase = "failed"],
                   [exec[w] EXCEPT !.phase = "reverting"], IdleExec} :
           exec' = [exec EXCEPT ![w] = e]
    BY <1>2
  <2>3. /\ e \in [job : Jobs \cup {NoJob}, phase : Phases]
        /\ e = IdleExec \/ (e.phase # "idle" /\ e.job = exec[w].job)
        /\ e.phase # "committed"
    BY <1>0, <1>2, <1>a, <2>2 DEF TypeOK, IdleExec, Phases
  <2>4. Placed' /\ Fresh'
    BY <1>2, <2>1, <2>2, <2>3, WorkerTouches
  <2>5. Committed'
    BY <1>0, <1>2, <2>2, <2>3 DEF TypeOK, Committed
  <2>6. Current'
    BY <1>0, <1>2 DEF Current
  <2> QED
    BY <2>4, <2>5, <2>6
<1>3. CASE RunGeneration(w)
  <2>1. exec[w].job \in Jobs /\ job[exec[w].job] # "NONE"
    BY <1>3, WorkerJob DEF RunGeneration
  <2>2. /\ [exec[w] EXCEPT !.phase = "committed"] \in [job : Jobs \cup {NoJob}, phase : Phases]
        /\ [exec[w] EXCEPT !.phase = "committed"].job = exec[w].job
        /\ [exec[w] EXCEPT !.phase = "committed"].phase # "idle"
        /\ exec' = [exec EXCEPT ![w] = [exec[w] EXCEPT !.phase = "committed"]]
    BY <1>0, <1>3 DEF RunGeneration, TypeOK, Phases
  <2>3. Placed' /\ Fresh'
    BY <1>3, <2>1, <2>2, WorkerTouches DEF RunGeneration
  <2>4. Committed' /\ Current'
    BY <1>0, <1>3 DEF RunGeneration, TypeOK, Committed, Current
  <2> QED
    BY <2>3, <2>4
<1>b. exec[w].phase # "idle" =>
         /\ job[exec[w].job] # "NONE"
         /\ \A i \in Jobs \ {exec[w].job} : AckBy(w)[i] = msg[i]
         /\ \A s : s # "NONE" /\ WriteStatus(exec[w].job, s) =>
               /\ \A i \in Jobs \ {exec[w].job} : job'[i] = job[i]
               /\ job'[exec[w].job] # "NONE"
    BY <1>0, WorkerJob DEF AckBy, WriteStatus, TypeOK
<1>4. CASE GenerationError(w)
    BY <1>2, <1>4, <1>b DEF GenerationError, Phases
<1>5. CASE OnRetry(w)
    BY <1>0, <1>2, <1>5, <1>b DEF OnRetry, Done, Phases, TypeOK
<1>6. CASE OnSuccess(w)
    BY <1>2, <1>6, <1>b DEF OnSuccess, Done, Phases
<1>7. CASE OnFailure(w)
    BY <1>2, <1>7, <1>b DEF OnFailure, Phases
<1>8. CASE RevertEntityStatus(w)
    BY <1>2, <1>8, <1>b DEF RevertEntityStatus, Put, Done, Phases
<1>9. CASE WorkerCrash(w) \/ ProcessLost(w)
  <2>1. exec[w].phase # "idle"
    BY <1>0, <1>9 DEF WorkerCrash, ProcessLost, Placed
  <2> QED
    BY <1>2, <1>9, <1>b, <2>1 DEF WorkerCrash, ProcessLost, Done, Phases
<1> QED
    BY <1>1, <1>3, <1>4, <1>5, <1>6, <1>7, <1>8, <1>9 DEF Work

\* The steps of the cleanup, the clock and the broker keep part one.
LEMMA SystemBase ==
    ASSUME Base,
           \/ Cleanup \/ CleanupAbort
           \/ \E j \in Jobs : Age(j) \/ Redeliver(j)
    PROVE  (Placed /\ Fresh /\ Committed /\ Current)'
<1> USE DEF program, queue, history
<1>0. TypeOK /\ Placed /\ Fresh /\ Committed /\ Current
    BY DEF Base
<1>1. CASE CleanupSelect
    BY <1>0, <1>1 DEF CleanupSelect, Live, Placed, Fresh, Committed, Current
<1>2. CASE CleanupCommit
  <2>1. \A j \in Jobs : job'[j] = "NONE" => job[j] = "NONE"
    BY <1>0, <1>2 DEF CleanupCommit, TypeOK
  <2>2. /\ status' = "AI_GENERATING" => status = "AI_GENERATING"
        /\ selected' = {}
        /\ UNCHANGED <<msg, exec, req, cur, done>>
    BY <1>2 DEF CleanupCommit, Put
  <2> QED
    BY <1>0, <2>1, <2>2 DEF Placed, Fresh, Committed, Current
<1>3. CASE CleanupAbort
    BY <1>0, <1>3 DEF CleanupAbort, Placed, Fresh, Committed, Current
<1>4. ASSUME NEW j \in Jobs, Age(j)
      PROVE  (Placed /\ Fresh /\ Committed /\ Current)'
    BY <1>0, <1>4 DEF Age, Live, Placed, Fresh, Committed, Current
<1>5. ASSUME NEW j \in Jobs, Redeliver(j)
      PROVE  (Placed /\ Fresh /\ Committed /\ Current)'
  <2>1. msg[j] # "none"
    BY <1>5, GenerationAssumption DEF Redeliver
  <2> QED
    BY <1>0, <1>5, <2>1 DEF Redeliver, TypeOK, Placed, Fresh, Committed, Current
<1> QED
    BY <1>1, <1>2, <1>3, <1>4, <1>5 DEF Cleanup

\* Part one holds in the initial states.
LEMMA BaseInit == Init => Base
<1> SUFFICES ASSUME Init PROVE Base
    OBVIOUS
<1>1. TypeOK
  <2>1. 0 \in 0..MaxRetries /\ 0 \in 0..MaxFaults
    BY GenerationAssumption
  <2>2. exec \in [Workers -> [job : Jobs \cup {NoJob}, phase : Phases]]
    BY DEF Init, IdleExec, Phases
  <2>3. req \in [Reqs -> [op : Ops, job : Jobs \cup {NoJob}]]
    BY DEF Init, Asked, Ops
  <2> QED
    BY <2>1, <2>2, <2>3 DEF Init, TypeOK, ProgramStatus
<1>2. Placed /\ Committed /\ Current
    BY DEF Init, Placed, Committed, Current, IdleExec, Asked
<1>3. Fresh
    BY GenerationAssumption DEF Init, Fresh, IdleExec, Asked
<1> QED
    BY <1>1, <1>2, <1>3 DEF Base

\* Part one is kept by every step.
LEMMA BaseStep == Base /\ [Next]_vars => Base'
<1> SUFFICES ASSUME Base, [Next]_vars PROVE Base'
    OBVIOUS
<1>0. TypeOK /\ Placed
    BY DEF Base
<1>1. ASSUME NEW r \in Reqs, Check(r) \/ Write(r) \/ Abandon(r)
      PROVE  Base'
    BY <1>0, <1>1, RequestTypes, RequestBase DEF Base
<1>2. ASSUME NEW w \in Workers,
             \/ Work(w) \/ WorkerCrash(w) \/ ProcessLost(w)
             \/ \E j \in Jobs : BeforeStart(w, j)
      PROVE  Base'
    BY <1>0, <1>2, WorkerTypes, WorkerBase DEF Base
<1>3. ASSUME \/ Cleanup \/ CleanupAbort
             \/ \E j \in Jobs : Age(j) \/ Redeliver(j)
      PROVE  Base'
    BY <1>0, <1>3, SystemTypes, SystemBase DEF Base
<1>4. CASE UNCHANGED vars
    BY <1>4 DEF vars, program, queue, history, Base, TypeOK, Placed, Fresh, Committed, Current
<1> QED
    BY <1>1, <1>2, <1>3, <1>4 DEF Next

\* Part one is an invariant.
LEMMA BaseHolds == Spec => []Base
BY BaseInit, BaseStep, PTL DEF Spec

\* Every reachable state is well typed: retries stay within max_retries, and a
\* message is in the broker or with a worker, whatever crashes or is redelivered.
THEOREM TypeCorrect == Spec => []TypeOK
<1>1. Base => TypeOK
    BY DEF Base
<1> QED
    BY <1>1, BaseHolds, PTL

----------------------------------------------------------------------------
(* Jobs reported done.                                                     *)

\* What is recorded of the past stays recorded: a committed job stays committed,
\* an overlap, a stray task or a lost generation is not forgotten.
LEMMA HistoryGrows ==
    ASSUME TypeOK, [Next]_vars
    PROVE  done \subseteq done' /\ (raced => raced') /\ (stray => stray') /\ (lost => lost')
<1> DEFINE Grows ==
        done \subseteq done' /\ (raced => raced') /\ (stray => stray') /\ (lost => lost')
<1> USE DEF program, queue, history
<1>0. raced \in BOOLEAN /\ stray \in BOOLEAN /\ lost \in BOOLEAN
    BY DEF TypeOK
<1>1. ASSUME NEW r \in Reqs, Check(r) \/ Write(r) \/ Abandon(r)
      PROVE  Grows
    BY <1>0, <1>1
       DEF Check, Write, Begin, DispatchCheck, ApproveCheck, RejectCheck, EditCourseCheck,
                EditDraftCheck, DeleteCheck, DispatchWrite, PublishGeneration, ApproveWrite,
                RejectWrite, EditWrite, DeleteWrite, Abandon
<1>2. ASSUME NEW w \in Workers, Work(w) \/ WorkerCrash(w) \/ ProcessLost(w)
      PROVE  Grows
    BY <1>0, <1>2 DEF Work, RunGeneration, GenerationError, OnRetry, OnSuccess, OnFailure,
                RevertEntityStatus, Forget, WorkerCrash, ProcessLost
<1>3. ASSUME NEW w \in Workers, NEW j \in Jobs, BeforeStart(w, j)
      PROVE  Grows
    BY <1>3 DEF BeforeStart
<1>4. ASSUME NEW j \in Jobs, Age(j) \/ Redeliver(j)
      PROVE  Grows
  <2>1. UNCHANGED <<done, raced, lost>> /\ (stray' = stray \/ stray' = TRUE)
    BY <1>4 DEF Age, Redeliver
  <2> QED
    BY <1>0, <2>1, Zenon
<1>5. CASE Cleanup \/ CleanupAbort
    BY <1>0, <1>5 DEF Cleanup, CleanupSelect, CleanupCommit, CleanupAbort
<1>6. CASE UNCHANGED vars
    BY <1>6 DEF vars
<1> QED
    BY <1>1, <1>2, <1>3, <1>4, <1>5, <1>6 DEF Next

\* A job row becomes SUCCESS only in on_success, after the commit.
LEMMA SuccessStep ==
    Base /\ SuccessMeansCommitted /\ [Next]_vars => SuccessMeansCommitted'
<1> SUFFICES ASSUME Base, SuccessMeansCommitted, [Next]_vars,
                    NEW j \in Jobs, job'[j] = "SUCCESS"
             PROVE  j \in done'
    BY DEF SuccessMeansCommitted
<1> USE DEF program, queue, history
<1>0. TypeOK /\ Committed
    BY DEF Base
<1>1. done \subseteq done'
    BY <1>0, HistoryGrows
<1>2. CASE job[j] = "SUCCESS"
    BY <1>1, <1>2 DEF SuccessMeansCommitted
<1>3. CASE job[j] # "SUCCESS"
  <2>1. PICK w \in Workers : OnSuccess(w)
    <3>1. ASSUME NEW r \in Reqs, Check(r) \/ Abandon(r)
          PROVE  job' = job
      BY <3>1 DEF Check, Begin, DispatchCheck, ApproveCheck, RejectCheck, EditCourseCheck,
                  EditDraftCheck, DeleteCheck, Abandon
    <3>2. ASSUME NEW r \in Reqs, Write(r)
          PROVE  job'[j] \in {job[j], "PENDING"}
      BY <3>2, <1>0 DEF Write, DispatchWrite, PublishGeneration, ApproveWrite, RejectWrite,
                        EditWrite, DeleteWrite, TypeOK
    <3>3. ASSUME NEW w \in Workers, NEW i \in Jobs, BeforeStart(w, i)
          PROVE  job'[j] \in {job[j], "RUNNING"}
      BY <3>3, <1>0 DEF BeforeStart, WriteStatus, TypeOK
    <3>4. ASSUME NEW w \in Workers, OnFailure(w)
          PROVE  job'[j] \in {job[j], "FAILED"}
      BY <3>4, <1>0 DEF OnFailure, WriteStatus, TypeOK
    <3>5. ASSUME NEW w \in Workers,
                 \/ RunGeneration(w) \/ GenerationError(w) \/ OnRetry(w)
                 \/ RevertEntityStatus(w) \/ WorkerCrash(w) \/ ProcessLost(w)
          PROVE  job' = job
      BY <3>5 DEF RunGeneration, GenerationError, OnRetry, RevertEntityStatus, WorkerCrash,
                  ProcessLost
    <3>6. ASSUME NEW i \in Jobs, Age(i) \/ Redeliver(i)
          PROVE  job' = job
      BY <3>6 DEF Age, Redeliver
    <3>7. ASSUME Cleanup \/ CleanupAbort
          PROVE  job'[j] \in {job[j], "FAILED"}
      BY <3>7 DEF Cleanup, CleanupSelect, CleanupCommit, CleanupAbort
    <3> QED
      BY <1>3, <3>1, <3>2, <3>3, <3>4, <3>5, <3>6, <3>7 DEF Next, Work, vars
  <2>2. exec[w].phase = "committed" /\ exec[w].job = j
    BY <1>0, <1>3, <2>1 DEF OnSuccess, WriteStatus, TypeOK
  <2> QED
    BY <1>0, <1>1, <2>2 DEF Committed
<1> QED
    BY <1>2, <1>3

\* on_success never reports a job whose body has not committed, whatever retries,
\* redeliveries and cleanups happened to it (VidyaTask.on_success).
THEOREM SuccessHolds == Spec => []SuccessMeansCommitted
<1>1. Init => SuccessMeansCommitted
    BY DEF Init, SuccessMeansCommitted
<1> QED
    BY <1>1, SuccessStep, BaseHolds, PTL DEF Spec

----------------------------------------------------------------------------
(* A generation that is under way can end.                                 *)

\* One of the three ways out is open: the cleanup will find the job, its message
\* is in the broker, or a worker is about to revert the program.
WayOut ==
    \/ job[cur] \in Live
    \/ msg[cur] # "none"
    \/ \E w \in Workers : exec[w] = [job |-> cur, phase |-> "reverting"]

\* A dispatch opens a way out, and no other request closes one.
LEMMA RequestLeavesWay ==
    ASSUME Base, Recoverable, status' = "AI_GENERATING", ~lost,
           NEW r \in Reqs, Check(r) \/ Write(r) \/ Abandon(r)
    PROVE  WayOut'
<1> USE DEF program, queue, history
<1>0. TypeOK /\ Current
    BY DEF Base
<1>1. ASSUME status = "AI_GENERATING"
      PROVE  cur \in Jobs /\ WayOut
    BY <1>0, <1>1 DEF Current, Recoverable, WayOut
<1>2. CASE Check(r) \/ Abandon(r)
    BY <1>1, <1>2 DEF WayOut, Check, Begin, DispatchCheck, ApproveCheck, RejectCheck,
                      EditCourseCheck, EditDraftCheck, DeleteCheck, Abandon
<1>3. CASE DispatchWrite(r)
    BY <1>0, <1>1, <1>3 DEF DispatchWrite, WayOut, TypeOK, Live
<1>4. CASE PublishGeneration(r)
    BY <1>0, <1>1, <1>4 DEF PublishGeneration, WayOut, TypeOK
<1>5. CASE ApproveWrite(r) \/ RejectWrite(r) \/ EditWrite(r) \/ DeleteWrite(r)
    BY <1>1, <1>5 DEF ApproveWrite, RejectWrite, EditWrite, DeleteWrite, Put, WayOut
<1> QED
    BY <1>2, <1>3, <1>4, <1>5 DEF Write

\* A worker closes a way out only behind the program's back when it forgets the
\* job (lost), or when the program no longer generates.
LEMMA WorkerLeavesWay ==
    ASSUME Base, Recoverable, status' = "AI_GENERATING", ~lost, ~lost',
           NEW w \in Workers,
           \/ Work(w) \/ WorkerCrash(w) \/ ProcessLost(w)
           \/ \E j \in Jobs : BeforeStart(w, j)
    PROVE  WayOut'
<1> USE DEF program, queue, history
<1>0. TypeOK /\ Placed /\ Committed /\ Current
    BY DEF Base
<1>1. /\ cur' = cur
      /\ status = "AI_GENERATING"
    BY DEF Work, BeforeStart, RunGeneration, GenerationError, OnRetry, OnSuccess, OnFailure,
           RevertEntityStatus, Put, WorkerCrash, ProcessLost
<1>2. cur \in Jobs /\ cur \notin done /\ WayOut
    BY <1>0, <1>1 DEF Current, Recoverable, WayOut
<1>3. \A v \in Workers \ {w} : exec'[v] = exec[v]
    BY <1>0 DEF TypeOK, Done, Work, BeforeStart, RunGeneration, GenerationError, OnRetry,
                OnSuccess, OnFailure, RevertEntityStatus, WorkerCrash, ProcessLost
<1>4. ASSUME NEW j \in Jobs, BeforeStart(w, j)
      PROVE  WayOut'
  <2>1. w # "none"
    BY GenerationAssumption
  <2>2. CASE j = cur
    BY <1>0, <1>1, <1>4, <2>1, <2>2 DEF BeforeStart, WayOut, TypeOK
  <2>3. CASE j # cur
    <3>1. job'[cur] = job[cur] /\ msg'[cur] = msg[cur]
      BY <1>0, <1>2, <1>4, <2>3 DEF BeforeStart, WriteStatus, TypeOK
    <3>2. exec[w] # [job |-> cur, phase |-> "reverting"]
      BY <1>4 DEF BeforeStart, IdleExec
    <3> QED
      BY <1>1, <1>2, <1>3, <3>1, <3>2 DEF WayOut
  <2> QED
    BY <2>2, <2>3
<1>5. ASSUME Work(w) \/ WorkerCrash(w) \/ ProcessLost(w)
      PROVE  WayOut'
  <2>1. CASE exec[w].job # cur
    <3>1. job'[cur] = job[cur] /\ (msg[cur] # "none" => msg'[cur] # "none")
      BY <1>0, <1>2, <1>5, <2>1
         DEF TypeOK, Work, RunGeneration, GenerationError, OnRetry, OnSuccess, OnFailure,
             RevertEntityStatus, WorkerCrash, ProcessLost, AckBy, WriteStatus
    <3>2. exec[w] # [job |-> cur, phase |-> "reverting"]
      BY <2>1
    <3> QED
      BY <1>1, <1>2, <1>3, <3>1, <3>2 DEF WayOut
  <2>2. CASE exec[w].job = cur
    <3>1. CASE RunGeneration(w)
      BY <3>1 DEF RunGeneration
    <3>2. CASE GenerationError(w)
      BY <1>1, <1>2, <1>3, <3>2 DEF GenerationError, WayOut
    <3>3. CASE OnRetry(w)
      BY <1>0, <1>1, <1>2, <2>2, <3>3 DEF OnRetry, TypeOK, WayOut
    <3>4. CASE OnSuccess(w)
      BY <1>0, <1>2, <2>2, <3>4 DEF OnSuccess, Committed
    <3>5. CASE OnFailure(w)
      <4>1. exec'[w] = [job |-> cur, phase |-> "reverting"]
        BY <1>0, <2>2, <3>5 DEF OnFailure, TypeOK
      <4> QED
        BY <1>1, <4>1 DEF WayOut
    <3>6. CASE RevertEntityStatus(w)
      <4>1. job' = job /\ (job[cur] \in Live \/ msg'[cur] # "none")
        BY <2>2, <3>6 DEF RevertEntityStatus, Put, Forget
      <4> QED
        BY <1>1, <4>1 DEF WayOut
    <3>7. CASE WorkerCrash(w) \/ ProcessLost(w)
      <4>1. job' = job /\ (job[cur] \in Live \/ msg'[cur] # "none")
        BY <2>2, <3>7 DEF WorkerCrash, ProcessLost, Forget
      <4> QED
        BY <1>1, <4>1 DEF WayOut
    <3> QED
      BY <1>5, <3>1, <3>2, <3>3, <3>4, <3>5, <3>6, <3>7 DEF Work
  <2> QED
    BY <2>1, <2>2
<1> QED
    BY <1>4, <1>5

\* The cleanup ends the generation; the clock and the broker close no way out.
LEMMA SystemLeavesWay ==
    ASSUME Base, Recoverable, status' = "AI_GENERATING", ~lost,
           \/ Cleanup \/ CleanupAbort
           \/ \E j \in Jobs : Age(j) \/ Redeliver(j)
    PROVE  WayOut'
<1> USE DEF program, queue, history
<1>0. TypeOK /\ Current
    BY DEF Base
<1>1. status = "AI_GENERATING" /\ ~CleanupCommit
    BY DEF Cleanup, CleanupSelect, CleanupCommit, Put, CleanupAbort, Age, Redeliver
<1>2. cur \in Jobs /\ WayOut
    BY <1>0, <1>1 DEF Current, Recoverable, WayOut
<1>3. CASE CleanupSelect \/ CleanupAbort
    BY <1>2, <1>3 DEF CleanupSelect, CleanupAbort, WayOut
<1>4. ASSUME NEW j \in Jobs, Age(j)
      PROVE  WayOut'
    BY <1>2, <1>4 DEF Age, WayOut
<1>5. ASSUME NEW j \in Jobs, Redeliver(j)
      PROVE  WayOut'
    BY <1>0, <1>2, <1>5 DEF Redeliver, WayOut, TypeOK
<1> QED
    BY <1>1, <1>3, <1>4, <1>5 DEF Cleanup

\* A program that is AI_GENERATING can always still leave that state, unless an
\* error or a kill fell between on_failure's two writes: the cleanup will find
\* the job of its last dispatch, or the message is with the broker, or a worker
\* is about to revert the program.
THEOREM RecoverableHolds == Spec => []Recoverable
<1>1. Init => Recoverable
    BY DEF Init, Recoverable
<1>2. Base /\ Recoverable /\ [Next]_vars => Recoverable'
  <2> SUFFICES ASSUME Base, Recoverable, [Next]_vars, (status = "AI_GENERATING" /\ ~lost)'
               PROVE  WayOut'
      BY DEF Recoverable, WayOut
  <2>1. ~lost
    BY HistoryGrows DEF Base
  <2>2. CASE UNCHANGED vars
    BY <2>1, <2>2 DEF vars, program, queue, history, Recoverable, WayOut
  <2> QED
    BY <2>1, <2>2, RequestLeavesWay, WorkerLeavesWay, SystemLeavesWay DEF Next
<1> QED
    BY <1>1, <1>2, BaseHolds, PTL DEF Spec

----------------------------------------------------------------------------
(* Part two is inductive.                                                  *)

\* The end of a worker's task body, or a phase of it, leaves every job in one
\* place: no other worker and no request has its job.
LEMMA WorkerKeepsPlace ==
    ASSUME Base, OnePlace, NEW w \in Workers, exec[w].phase # "idle",
           UNCHANGED req,
           \/ msg' = msg /\ \E p \in Phases : exec' = [exec EXCEPT ![w].phase = p]
           \/ /\ Done(w)
              /\ \A i \in Jobs \ {exec[w].job} : msg'[i] = msg[i]
    PROVE  OnePlace'
<1>1. TypeOK /\ Placed /\ "none" # w
    BY GenerationAssumption DEF Base
<1>2. exec[w].job \in Jobs /\ msg[exec[w].job] = w
    BY WorkerJob DEF OnePlace
<1>3. \A v \in Workers \ {w} : exec'[v] = exec[v] /\
          (exec[v].phase # "idle" => exec[v].job \in Jobs \ {exec[w].job})
    BY <1>1, <1>2 DEF TypeOK, Placed, OnePlace, IdleExec, Done
<1>4. \A r \in Reqs : ~Publishes(r, exec[w].job)
    BY <1>1, <1>2 DEF OnePlace
<1>5. CASE msg' = msg /\ \E p \in Phases : exec' = [exec EXCEPT ![w].phase = p]
    BY <1>1, <1>2, <1>5 DEF OnePlace, Publishes, TypeOK
<1>6. CASE Done(w) /\ \A i \in Jobs \ {exec[w].job} : msg'[i] = msg[i]
  <2>1. exec'[w].phase = "idle"
    BY <1>1, <1>6 DEF Done, IdleExec, TypeOK
  <2>2. \A v \in Workers : exec'[v].phase # "idle" => msg'[exec'[v].job] = v
    BY <1>3, <1>6, <2>1 DEF OnePlace
  <2>3. \A r \in Reqs, j \in Jobs : Publishes(r, j)' => Publishes(r, j) /\ msg'[j] = "none"
    BY <1>4, <1>6 DEF OnePlace, Publishes
  <2> QED
    BY <2>2, <2>3 DEF OnePlace
<1> QED
    BY <1>5, <1>6

\* Only a redelivery brings a job to a second place.
LEMMA OnePlaceStep ==
    ASSUME Base, OnePlace, [Next]_vars, ~stray'
    PROVE  OnePlace'
<1> USE DEF program, queue, history
<1>0. TypeOK /\ Placed /\ Fresh /\ NoJob \notin Jobs
      /\ \A w \in Workers : w # "none" /\ w # "queued"
    BY GenerationAssumption DEF Base
<1>1. ASSUME NEW r \in Reqs, msg' = msg, exec' = exec,
             NEW op \in Ops \ {"publish"}, req' = [req EXCEPT ![r] = Asked(op)]
      PROVE  OnePlace'
    BY <1>0, <1>1 DEF OnePlace, Publishes, Asked, TypeOK
<1>2. ASSUME NEW r \in Reqs, Check(r) \/ Abandon(r)
      PROVE  OnePlace'
    BY <1>1, <1>2 DEF Check, Begin, DispatchCheck, ApproveCheck, RejectCheck, EditCourseCheck,
                      EditDraftCheck, DeleteCheck, Abandon, End, Ops
<1>3. ASSUME NEW r \in Reqs, DispatchWrite(r)
      PROVE  OnePlace'
  <2>1. CASE End(r)
    BY <1>1, <1>3, <2>1 DEF DispatchWrite, End, Ops
  <2>2. ASSUME NEW j \in Jobs, job[j] = "NONE",
               req' = [req EXCEPT ![r] = [op |-> "publish", job |-> j]]
        PROVE  OnePlace'
    <3>1. msg' = msg /\ exec' = exec
      BY <1>3 DEF DispatchWrite
    <3>2. msg[j] = "none" /\ \A s \in Reqs : req[s].job # j
      BY <1>0, <2>2 DEF Fresh
    <3> QED
      BY <1>0, <2>2, <3>1, <3>2 DEF OnePlace, Publishes, TypeOK
  <2> QED
    BY <1>3, <2>1, <2>2 DEF DispatchWrite
<1>4. ASSUME NEW r \in Reqs, PublishGeneration(r)
      PROVE  OnePlace'
  <2>1. req[r].job \in Jobs /\ msg[req[r].job] = "none"
    BY <1>0, <1>4 DEF PublishGeneration, Placed, OnePlace, Publishes
  <2>2. /\ exec' = exec
        /\ \A i \in Jobs \ {req[r].job} : msg'[i] = msg[i]
        /\ \A s \in Reqs, j \in Jobs :
              Publishes(s, j)' => Publishes(s, j) /\ s # r /\ j # req[r].job
    BY <1>0, <1>4, <2>1
       DEF PublishGeneration, End, Asked, OnePlace, Publishes, TypeOK
  <2>3. \A w \in Workers : exec[w].phase # "idle" => exec[w].job \in Jobs \ {req[r].job}
    BY <1>0, <2>1 DEF OnePlace, Placed, IdleExec
  <2> QED
    BY <2>2, <2>3 DEF OnePlace
<1>5. ASSUME NEW r \in Reqs, ApproveWrite(r) \/ RejectWrite(r) \/ EditWrite(r) \/ DeleteWrite(r)
      PROVE  OnePlace'
    BY <1>1, <1>5 DEF ApproveWrite, RejectWrite, EditWrite, DeleteWrite, End, Ops
<1>6. ASSUME NEW w \in Workers, NEW j \in Jobs, BeforeStart(w, j)
      PROVE  OnePlace'
  <2>1. \A v \in Workers \ {w} : exec'[v] = exec[v] /\
            (exec[v].phase # "idle" => exec[v].job \in Jobs \ {j})
    BY <1>0, <1>6 DEF BeforeStart, TypeOK, Placed, OnePlace, IdleExec
  <2>2. /\ exec'[w].job = j /\ msg'[j] = w /\ req' = req
        /\ \A i \in Jobs \ {j} : msg'[i] = msg[i]
        /\ \A r \in Reqs : ~Publishes(r, j)
    BY <1>0, <1>6 DEF BeforeStart, TypeOK, OnePlace
  <2> QED
    BY <2>1, <2>2 DEF OnePlace, Publishes
<1>7. ASSUME NEW w \in Workers, Work(w) \/ WorkerCrash(w) \/ ProcessLost(w)
      PROVE  OnePlace'
  <2>1. exec[w].phase # "idle" /\ exec[w].job \in Jobs
    BY <1>0, <1>7 DEF Placed, IdleExec, Work, RunGeneration, GenerationError, OnRetry,
                      OnSuccess, OnFailure, RevertEntityStatus, WorkerCrash, ProcessLost
  <2>2. CASE RunGeneration(w) \/ GenerationError(w) \/ OnFailure(w)
    <3>1. msg' = msg /\ req' = req
      BY <2>2 DEF RunGeneration, GenerationError, OnFailure
    <3>2. \E p \in Phases : exec' = [exec EXCEPT ![w].phase = p]
      BY <2>2 DEF RunGeneration, GenerationError, OnFailure, Phases
    <3> QED
      BY <2>1, <3>1, <3>2, WorkerKeepsPlace
  <2>3. CASE \/ OnRetry(w) \/ OnSuccess(w) \/ RevertEntityStatus(w)
             \/ WorkerCrash(w) \/ ProcessLost(w)
    <3>1. /\ Done(w) /\ req' = req
          /\ \A i \in Jobs \ {exec[w].job} : msg'[i] = msg[i]
      BY <1>0, <2>1, <2>3 DEF OnRetry, OnSuccess, RevertEntityStatus, WorkerCrash,
                              ProcessLost, AckBy, TypeOK
    <3> QED
      BY <2>1, <3>1, WorkerKeepsPlace
  <2> QED
    BY <1>7, <2>2, <2>3 DEF Work
<1>8. CASE \/ Cleanup \/ CleanupAbort \/ UNCHANGED vars
           \/ \E j \in Jobs : Age(j)
  <2>1. msg' = msg /\ exec' = exec /\ req' = req
    BY <1>8 DEF Cleanup, CleanupSelect, CleanupCommit, CleanupAbort, Age, vars
  <2> QED
    BY <2>1 DEF OnePlace, Publishes
<1>9. ASSUME NEW j \in Jobs, Redeliver(j)
      PROVE  OnePlace'
    BY <1>9 DEF Redeliver
<1> QED
    BY <1>2, <1>3, <1>4, <1>5, <1>6, <1>7, <1>8, <1>9 DEF Next, Write

\* A second request between check and write is recorded as an overlap.
LEMMA OneRequestStep ==
    ASSUME Base, OneRequest, [Next]_vars, ~raced'
    PROVE  OneRequest'
<1> USE DEF program, queue, history
<1>0. TypeOK
    BY DEF Base
<1>1. ASSUME NEW r \in Reqs, NEW op \in Ops, Begin(r, op)
      PROVE  OneRequest'
    BY <1>0, <1>1 DEF Begin, Asked, OneRequest, Active, TypeOK
<1>2. ASSUME NEW r \in Reqs, Check(r)
      PROVE  OneRequest'
    BY <1>1, <1>2 DEF Check, DispatchCheck, ApproveCheck, RejectCheck, EditCourseCheck,
                      EditDraftCheck, DeleteCheck, Ops
<1>3. ASSUME \A s \in Reqs : Active(s)' => Active(s)
      PROVE  OneRequest'
    BY <1>3 DEF OneRequest
<1>4. ASSUME NEW r \in Reqs, Write(r) \/ Abandon(r)
      PROVE  \A s \in Reqs : Active(s)' => Active(s)
    BY <1>0, <1>4 DEF Write, DispatchWrite, PublishGeneration, ApproveWrite, RejectWrite,
                      EditWrite, DeleteWrite, Abandon, End, Asked, Active, TypeOK
<1>5. ASSUME \/ UNCHANGED vars
             \/ \E w \in Workers : Work(w) \/ WorkerCrash(w) \/ ProcessLost(w)
             \/ \E w \in Workers, j \in Jobs : BeforeStart(w, j)
             \/ \E j \in Jobs : Age(j) \/ Redeliver(j)
             \/ Cleanup \/ CleanupAbort
      PROVE  req' = req
    BY <1>5 DEF vars, Work, RunGeneration, GenerationError, OnRetry, OnSuccess, OnFailure,
                RevertEntityStatus, WorkerCrash, ProcessLost, BeforeStart, Age, Redeliver,
                Cleanup, CleanupSelect, CleanupCommit, CleanupAbort
<1>6. req' = req => \A s \in Reqs : Active(s)' => Active(s)
    BY DEF Active
<1> QED
    BY <1>2, <1>3, <1>4, <1>5, <1>6 DEF Next

\* While no program generates, nothing is pending; while one does, no request is
\* between its check and its write.
LEMMA CalmExcludes ==
    ASSUME TypeOK, Calm
    PROVE  /\ status # "AI_GENERATING" => \A j \in Jobs : ~Pending(j)
           /\ status = "AI_GENERATING" => \A r \in Reqs : ~Active(r)
BY DEF TypeOK, Calm, OnlyCurrent, ChecksHold, Active, Ops

\* Nothing new is pending when the requests to publish, the queued messages and
\* the busy workers become no more.
LEMMA PendingShrinks ==
    ASSUME NEW j \in Jobs,
           \A r \in Reqs : Publishes(r, j)' => Publishes(r, j),
           msg'[j] = "queued" => msg[j] = "queued",
           \A w \in Workers : (exec[w].job = j /\ Busy(w))' => exec[w].job = j /\ Busy(w)
    PROVE  Pending(j)' => Pending(j)
BY DEF Pending

\* Checks and lost requests leave what the others found.
LEMMA CheckCalm ==
    ASSUME Base, Calm, NEW r \in Reqs, Check(r) \/ Abandon(r)
    PROVE  (OnlyCurrent /\ ChecksHold /\ Settled)'
<1> USE DEF program, queue, history
<1>0. TypeOK
    BY DEF Base
<1>1. UNCHANGED <<status, compliant, msg, exec, cur, done>>
    BY DEF Check, Begin, DispatchCheck, ApproveCheck, RejectCheck, EditCourseCheck,
           EditDraftCheck, DeleteCheck, Abandon
<1>2. PICK op \in Ops \ {"publish"} : req' = [req EXCEPT ![r] = Asked(op)]
    BY DEF Check, Begin, DispatchCheck, ApproveCheck, RejectCheck, EditCourseCheck,
           EditDraftCheck, DeleteCheck, Abandon, End, Ops
<1>3. OnlyCurrent'
  <2>1. \A j \in Jobs : Pending(j)' => Pending(j)
    BY <1>0, <1>1, <1>2, PendingShrinks DEF Publishes, Asked, TypeOK, Busy
  <2> QED
    BY <1>1, <2>1 DEF OnlyCurrent, Calm
<1>4. ChecksHold'
    BY <1>0, <1>1 DEF ChecksHold, Calm, Check, Begin, DispatchCheck, ApproveCheck, RejectCheck,
                      EditCourseCheck, EditDraftCheck, DeleteCheck, Abandon, End, Asked, TypeOK
<1>5. Settled'
    BY <1>1 DEF Settled, Calm
<1> QED
    BY <1>3, <1>4, <1>5

\* A write finds the program as its check did, and is the only one under way.
LEMMA WriteCalm ==
    ASSUME Base, Calm, NEW r \in Reqs, Write(r)
    PROVE  (OnlyCurrent /\ ChecksHold /\ Settled)'
<1> USE DEF program, queue, history
<1>0. TypeOK /\ OnlyCurrent /\ ChecksHold /\ Settled /\ OneRequest
    BY DEF Base, Calm
<1>1. ASSUME Active(r)
      PROVE  /\ \A s \in Reqs \ {r} : req[s].op \in {"idle", "publish"}
             /\ \A j \in Jobs : ~Pending(j)
    BY <1>0, <1>1, CalmExcludes DEF OneRequest, Active
<1>2. ASSUME Active(r), req'[r].op \in {"idle", "publish"},
             \A s \in Reqs \ {r} : req'[s] = req[s]
      PROVE  ChecksHold'
    BY <1>1, <1>2 DEF ChecksHold
<1>3. CASE DispatchWrite(r)
  <2>1. Active(r) /\ status # "GONE"
    BY <1>0, <1>3 DEF DispatchWrite, Active, ChecksHold
  <2>2. PICK j \in Jobs : /\ req' = [req EXCEPT ![r] = [op |-> "publish", job |-> j]]
                          /\ cur' = j
    BY <1>3, <2>1 DEF DispatchWrite
  <2>3. status' = "AI_GENERATING" /\ UNCHANGED <<msg, exec>>
    BY <1>3, <2>1 DEF DispatchWrite
  <2>4. \A i \in Jobs \ {j} : Pending(i)' => Pending(i)
    BY <1>0, <2>2, <2>3, PendingShrinks DEF Publishes, TypeOK, Busy
  <2>5. OnlyCurrent'
    BY <1>1, <2>1, <2>2, <2>3, <2>4 DEF OnlyCurrent
  <2>6. ChecksHold'
    BY <1>0, <1>2, <2>1, <2>2 DEF TypeOK
  <2>7. Settled'
    BY <2>3 DEF Settled
  <2> QED
    BY <2>5, <2>6, <2>7
<1>4. CASE PublishGeneration(r)
  <2>1. UNCHANGED <<status, compliant, exec, cur, done>>
    BY <1>4 DEF PublishGeneration
  <2>2. \A s \in Reqs : req'[s] = IF s = r THEN Asked("idle") ELSE req[s]
    BY <1>0, <1>4 DEF PublishGeneration, End, TypeOK
  <2>3. \A j \in Jobs : Pending(j)' => Pending(j)
    <3>1. ASSUME NEW j \in Jobs, j = req[r].job
          PROVE  Pending(j)
      BY <1>4, <3>1 DEF PublishGeneration, Pending, Publishes
    <3>2. ASSUME NEW j \in Jobs, j # req[r].job
          PROVE  Pending(j)' => Pending(j)
      <4>1. msg'[j] = msg[j]
        BY <1>0, <1>4, <3>2 DEF PublishGeneration, TypeOK
      <4> QED
        BY <2>1, <2>2, <4>1, PendingShrinks DEF Publishes, Asked, Busy
    <3> QED
      BY <3>1, <3>2
  <2>4. OnlyCurrent'
    BY <1>0, <2>1, <2>3 DEF OnlyCurrent
  <2>5. ChecksHold' /\ Settled'
    BY <1>0, <2>1, <2>2 DEF ChecksHold, Settled, Asked
  <2> QED
    BY <2>4, <2>5
<1>5. CASE ApproveWrite(r) \/ RejectWrite(r) \/ EditWrite(r) \/ DeleteWrite(r)
  <2>1. Active(r)
    BY <1>5 DEF ApproveWrite, RejectWrite, EditWrite, DeleteWrite, Active
  <2>2. req' = [req EXCEPT ![r] = Asked("idle")] /\ UNCHANGED <<msg, exec, cur, done>>
    BY <1>5 DEF ApproveWrite, RejectWrite, EditWrite, DeleteWrite, End
  <2>3. \A j \in Jobs : ~Pending(j)'
    BY <1>0, <1>1, <2>1, <2>2, PendingShrinks DEF Publishes, Asked, TypeOK, Busy
  <2>4. OnlyCurrent'
    BY <2>3 DEF OnlyCurrent
  <2>5. ChecksHold'
    BY <1>0, <1>2, <2>1, <2>2 DEF TypeOK, Asked
  <2>6. CASE ApproveWrite(r)
    BY <1>0, <2>4, <2>5, <2>6 DEF ApproveWrite, Put, ChecksHold, Settled
  <2>7. CASE RejectWrite(r)
    BY <1>0, <2>4, <2>5, <2>7 DEF RejectWrite, Put, ChecksHold, Settled
  <2>8. CASE EditWrite(r)
    BY <1>0, <2>4, <2>5, <2>8 DEF EditWrite, ChecksHold, Settled
  <2>9. CASE DeleteWrite(r)
    BY <2>4, <2>5, <2>9 DEF DeleteWrite, Settled
  <2> QED
    BY <1>5, <2>6, <2>7, <2>8, <2>9
<1> QED
    BY <1>3, <1>4, <1>5 DEF Write

\* A busy worker works for the last dispatch of a program that generates, and no
\* other place has its job.
LEMMA BusyWorker ==
    ASSUME Base, Calm, NEW w \in Workers, Busy(w)
    PROVE  /\ exec[w].job = cur /\ cur \in Jobs /\ status = "AI_GENERATING"
           /\ msg[cur] = w
           /\ \A r \in Reqs : ~Publishes(r, cur)
           /\ \A v \in Workers : exec[v].job = cur /\ Busy(v) => v = w
<1>1. w # "none" /\ exec[w].phase # "idle"
    BY GenerationAssumption DEF Busy
<1>2. exec[w].job \in Jobs
    BY <1>1, WorkerJob
<1>3. exec[w].job = cur /\ status = "AI_GENERATING"
    BY <1>2 DEF Calm, OnlyCurrent, Pending
<1>4. msg[cur] = w
    BY <1>1, <1>3 DEF Calm, OnePlace
<1>5. \A v \in Workers : exec[v].job = cur /\ Busy(v) => v = w
    BY <1>4 DEF Calm, OnePlace, Busy
<1> QED
    BY <1>1, <1>2, <1>3, <1>4, <1>5 DEF Calm, OnePlace

\* A worker's step moves the program only from AI_GENERATING, and leaves nothing
\* pending behind it.
LEMMA WorkerCalm ==
    ASSUME Base, Calm, NEW w \in Workers,
           \/ Work(w) \/ WorkerCrash(w) \/ ProcessLost(w)
           \/ \E j \in Jobs : BeforeStart(w, j)
    PROVE  (OnlyCurrent /\ ChecksHold /\ Settled)'
<1> USE DEF program, queue, history
<1>0. TypeOK /\ Placed /\ OnlyCurrent /\ ChecksHold /\ Settled
      /\ w # "none" /\ w # "queued"
    BY GenerationAssumption DEF Base, Calm
<1>1. UNCHANGED <<req, cur>>
    BY DEF Work, BeforeStart, RunGeneration, GenerationError, OnRetry, OnSuccess, OnFailure,
           RevertEntityStatus, WorkerCrash, ProcessLost
<1>2. \A v \in Workers \ {w} : exec'[v] = exec[v]
    BY <1>0 DEF TypeOK, Done, Work, BeforeStart, RunGeneration, GenerationError, OnRetry,
                OnSuccess, OnFailure, RevertEntityStatus, WorkerCrash, ProcessLost
<1>3. ASSUME UNCHANGED <<status, compliant, done>>,
             \A j \in Jobs : Pending(j)' => Pending(j)
      PROVE  (OnlyCurrent /\ ChecksHold /\ Settled)'
    BY <1>0, <1>1, <1>3 DEF OnlyCurrent, ChecksHold, Settled
<1>4. ASSUME NEW j \in Jobs, BeforeStart(w, j)
      PROVE  (OnlyCurrent /\ ChecksHold /\ Settled)'
  <2>1. Pending(j)
    BY <1>4 DEF BeforeStart, Pending
  <2>2. \A i \in Jobs \ {j} : Pending(i)' => Pending(i)
    <3>1. ASSUME NEW i \in Jobs \ {j}
          PROVE  msg'[i] = msg[i] /\ exec'[w].job # i
      BY <1>0, <1>4 DEF BeforeStart, TypeOK
    <3> QED
      BY <1>1, <1>2, <3>1, PendingShrinks DEF Publishes, Busy
  <2> QED
    BY <1>3, <1>4, <2>1, <2>2 DEF BeforeStart
<1>5. ASSUME Busy(w), ~Busy(w)', \/ msg' = msg
                              \/ msg' = AckBy(w)
      PROVE  \A j \in Jobs : ~Pending(j)'
  <2>1. ASSUME NEW j \in Jobs, j # cur
        PROVE  ~Pending(j)
    BY <1>0, <2>1 DEF OnlyCurrent
  <2>2. ASSUME NEW j \in Jobs
        PROVE  msg'[j] = "queued" => msg[j] = "queued"
    BY <1>0, <1>5 DEF AckBy, TypeOK
  <2>3. ASSUME NEW j \in Jobs
        PROVE  Pending(j)' => Pending(j)
    BY <1>1, <1>2, <1>5, <2>2, PendingShrinks DEF Publishes, Busy
  <2>4. ASSUME NEW j \in Jobs, j = cur
        PROVE  ~Pending(j)'
    <3>1. msg'[j] # "queued"
      BY <1>0, <1>5, <2>2, <2>4, BusyWorker
    <3> QED
      BY <1>1, <1>2, <1>5, <2>4, <3>1, BusyWorker DEF Pending, Publishes, Busy
  <2> QED
    BY <2>1, <2>3, <2>4
<1>6. CASE RunGeneration(w)
  <2>1. Busy(w) /\ ~Busy(w)' /\ msg' = msg /\ status' = "PENDING_APPROVAL"
        /\ done' = done \cup {exec[w].job}
    BY <1>0, <1>6 DEF RunGeneration, Busy, TypeOK
  <2>2. OnlyCurrent'
    BY <1>5, <2>1 DEF OnlyCurrent
  <2>3. \A r \in Reqs : ~Active(r)
    BY <1>0, <2>1, BusyWorker, CalmExcludes
  <2>4. ChecksHold'
    BY <1>1, <2>3 DEF ChecksHold, Active
  <2>5. Settled'
    BY <1>1, <2>1, BusyWorker DEF Settled
  <2> QED
    BY <2>2, <2>4, <2>5
<1>7. CASE GenerationError(w) \/ OnFailure(w)
  <2>1. Busy(w) /\ exec'[w].job = exec[w].job /\ msg' = msg
        /\ UNCHANGED <<status, compliant, done>>
    BY <1>0, <1>7 DEF GenerationError, OnFailure, Busy, TypeOK
  <2>2. \A j \in Jobs : Pending(j)' => Pending(j)
    BY <1>1, <1>2, <2>1, PendingShrinks DEF Publishes, Busy
  <2> QED
    BY <1>3, <2>1, <2>2
<1>8. CASE OnRetry(w)
  <2>1. Busy(w) /\ UNCHANGED <<status, compliant, done>> /\ ~Busy(w)'
        /\ \A i \in Jobs \ {exec[w].job} : msg'[i] = msg[i]
    BY <1>0, <1>8 DEF OnRetry, Busy, Done, IdleExec, TypeOK
  <2>2. ASSUME NEW j \in Jobs
        PROVE  Pending(j)' => Pending(j)
    <3>1. CASE j = exec[w].job
      BY <2>1, <3>1 DEF Pending
    <3>2. CASE j # exec[w].job
      BY <1>1, <1>2, <2>1, <3>2, PendingShrinks DEF Publishes, Busy
    <3> QED
      BY <3>1, <3>2
  <2> QED
    BY <1>3, <2>1, <2>2
<1>9. ASSUME ~Busy(w)', msg' = msg \/ msg' = AckBy(w)
      PROVE  \A j \in Jobs : Pending(j)' => Pending(j)
  <2>1. ASSUME NEW j \in Jobs
        PROVE  msg'[j] = "queued" => msg[j] = "queued"
    BY <1>0, <1>9 DEF AckBy, TypeOK
  <2> QED
    BY <1>1, <1>2, <1>9, <2>1, PendingShrinks DEF Publishes, Busy
<1>10. CASE OnSuccess(w) \/ WorkerCrash(w) \/ ProcessLost(w)
  <2>1. ~Busy(w)' /\ (msg' = msg \/ msg' = AckBy(w)) /\ UNCHANGED <<status, compliant, done>>
    BY <1>0, <1>10 DEF OnSuccess, WorkerCrash, ProcessLost, Done, IdleExec, Busy, TypeOK
  <2> QED
    BY <1>3, <1>9, <2>1
<1>11. CASE RevertEntityStatus(w)
  <2>1. Busy(w) /\ ~Busy(w)' /\ msg' = AckBy(w) /\ UNCHANGED <<compliant, done>>
    BY <1>0, <1>11 DEF RevertEntityStatus, Done, IdleExec, Busy, TypeOK
  <2>2. CASE status' = status
    BY <1>3, <1>9, <2>1, <2>2
  <2>3. CASE status' = "GENERATION_FAILED"
    <3>1. OnlyCurrent'
      BY <1>5, <2>1 DEF OnlyCurrent
    <3>2. \A r \in Reqs : ~Active(r)
      BY <1>0, <2>1, BusyWorker, CalmExcludes
    <3> QED
      BY <1>1, <2>3, <3>1, <3>2 DEF ChecksHold, Active, Settled
  <2> QED
    BY <1>11, <2>2, <2>3 DEF RevertEntityStatus, Put
<1> QED
    BY <1>4, <1>6, <1>7, <1>8, <1>10, <1>11 DEF Work

\* A cleanup that takes only stuck jobs fails the generation of a program that
\* generates, or one that has failed already.
LEMMA StuckCleanup ==
    ASSUME Base, Calm, CleanupCommit, ~stray'
    PROVE  /\ cur \in Jobs /\ cur \notin done
           /\ status \notin {"DRAFT", "PENDING_APPROVAL", "APPROVED"}
           /\ \A j \in Jobs : ~Pending(j)
<1>1. PICK j \in selected : ~NotStuck(j)
    BY DEF CleanupCommit
<1>2. /\ j = cur /\ cur \in Jobs /\ cur \notin done /\ msg[cur] = "none"
      /\ \A r \in Reqs : req[r].job # cur
    BY <1>1 DEF NotStuck, Base, TypeOK
<1>3. NoJob # cur
    BY <1>2, GenerationAssumption
<1>4. status \notin {"DRAFT", "PENDING_APPROVAL", "APPROVED"}
    BY <1>2, <1>3 DEF Calm, Settled
<1>5. \A w \in Workers : ~(exec[w].job = cur /\ Busy(w))
    BY <1>2, GenerationAssumption DEF Calm, OnePlace, Busy
<1>6. ~Pending(cur)
    BY <1>2, <1>5 DEF Pending, Publishes
<1> QED
    BY <1>2, <1>4, <1>6 DEF Calm, OnlyCurrent

\* The cleanup, the clock and the broker, when nothing strays.
LEMMA SystemCalm ==
    ASSUME Base, Calm, ~stray',
           \/ Cleanup \/ CleanupAbort
           \/ \E j \in Jobs : Age(j) \/ Redeliver(j)
    PROVE  (OnlyCurrent /\ ChecksHold /\ Settled)'
<1> USE DEF program, queue, history
<1>0. TypeOK /\ OnlyCurrent /\ ChecksHold /\ Settled
    BY DEF Base, Calm
<1>1. ASSUME \/ CleanupSelect \/ CleanupAbort
             \/ \E j \in Jobs : Age(j)
      PROVE  (OnlyCurrent /\ ChecksHold /\ Settled)'
  <2>1. UNCHANGED <<status, compliant, msg, exec, req, cur, done>>
    BY <1>1 DEF CleanupSelect, CleanupAbort, Age
  <2> QED
    BY <1>0, <2>1 DEF OnlyCurrent, Pending, Publishes, Busy, ChecksHold, Settled
<1>2. CASE CleanupCommit
  <2>1. UNCHANGED <<compliant, msg, exec, req, cur, done>>
    BY <1>2 DEF CleanupCommit
  <2>2. \A j \in Jobs : ~Pending(j)'
    BY <1>2, <2>1, StuckCleanup DEF Pending, Publishes, Busy
  <2>3. status' = "GENERATION_FAILED" \/ (status' = "GONE" /\ status = "GONE")
    BY <1>2 DEF CleanupCommit, Put
  <2>4. \A r \in Reqs : Active(r) => req[r].op = "dispatch" /\ status = "GENERATION_FAILED"
    BY <1>0, <1>2, StuckCleanup DEF ChecksHold, Active, TypeOK, Ops
  <2>5. ChecksHold'
    BY <2>1, <2>3, <2>4 DEF ChecksHold, Active
  <2> QED
    BY <2>2, <2>3, <2>5 DEF OnlyCurrent, Settled
<1>3. ASSUME NEW j \in Jobs, Redeliver(j)
      PROVE  FALSE
    BY <1>3 DEF Redeliver
<1> QED
    BY <1>1, <1>2, <1>3 DEF Cleanup

\* Part two is kept by every step.
LEMMA OrderlyStep == Base /\ Orderly /\ [Next]_vars => Orderly'
<1> SUFFICES ASSUME Base, Orderly, [Next]_vars PROVE Orderly'
    OBVIOUS
<1>1. (raced => raced') /\ (stray => stray')
    BY HistoryGrows DEF Base
<1>2. ASSUME ~stray' PROVE OnePlace'
    BY <1>1, <1>2, OnePlaceStep DEF Orderly
<1>3. ASSUME ~raced' PROVE OneRequest'
    BY <1>1, <1>3, OneRequestStep DEF Orderly
<1>4. ASSUME ~raced', ~stray' PROVE (OnlyCurrent /\ ChecksHold /\ Settled)'
  <2>1. Calm
    BY <1>1, <1>4 DEF Orderly, Calm
  <2>2. CASE UNCHANGED vars
    BY <2>1, <2>2 DEF vars, program, queue, history, Calm, OnlyCurrent, Pending, Publishes,
                      Busy, ChecksHold, Settled
  <2> QED
    BY <1>4, <2>1, <2>2, CheckCalm, WriteCalm, WorkerCalm, SystemCalm DEF Next
<1> QED
    BY <1>2, <1>3, <1>4 DEF Orderly

\* Both parts are invariants.
LEMMA InvariantHolds == Spec => [](Base /\ Orderly)
<1>1. Init => Orderly
    BY GenerationAssumption
       DEF Init, Orderly, OnePlace, OneRequest, OnlyCurrent, ChecksHold, Settled, Pending,
           Publishes, Busy, Active, Asked, IdleExec
<1> QED
    BY <1>1, BaseInit, BaseStep, OrderlyStep, PTL DEF Spec

----------------------------------------------------------------------------
(* Approval.                                                               *)

\* Approve's check is not undone before or after its write: without overlapping
\* requests or a stray task, an approved program passes the compliance check.
THEOREM CompliantHolds == Spec => []ApprovedIsCompliant
<1>1. Base /\ Orderly => ApprovedIsCompliant
    BY DEF Orderly, Settled, ApprovedIsCompliant
<1> QED
    BY <1>1, InvariantHolds, PTL

\* No step demotes an approved program without an overlap or a stray task.
LEMMA ApprovedStep ==
    ASSUME Base, Orderly, [Next]_vars, status = "APPROVED", ~raced, ~stray'
    PROVE  status' = status
<1> USE DEF program, queue, history
<1>1. Calm
    BY HistoryGrows DEF Orderly, Calm, Base
<1>2. \A w \in Workers : ~Busy(w)
    BY <1>1, BusyWorker
<1>3. ASSUME NEW r \in Reqs, Check(r) \/ Write(r) \/ Abandon(r)
      PROVE  status' = status
    BY <1>1, <1>3
       DEF Calm, ChecksHold, Check, Begin, DispatchCheck, ApproveCheck, RejectCheck,
           EditCourseCheck, EditDraftCheck, DeleteCheck, Write, DispatchWrite,
           PublishGeneration, ApproveWrite, RejectWrite, EditWrite, DeleteWrite, Abandon
<1>4. ASSUME NEW w \in Workers,
             \/ Work(w) \/ WorkerCrash(w) \/ ProcessLost(w)
             \/ \E j \in Jobs : BeforeStart(w, j)
      PROVE  status' = status
    BY <1>2, <1>4 DEF Busy, Work, RunGeneration, GenerationError, OnRetry, OnSuccess,
                      OnFailure, RevertEntityStatus, WorkerCrash, ProcessLost, BeforeStart
<1>5. CASE Cleanup
    BY <1>1, <1>5, StuckCleanup DEF Cleanup, CleanupSelect
<1>6. ASSUME \/ CleanupAbort \/ UNCHANGED vars
             \/ \E j \in Jobs : Age(j) \/ Redeliver(j)
      PROVE  status' = status
    BY <1>6 DEF CleanupAbort, Age, Redeliver, vars
<1> QED
    BY <1>3, <1>4, <1>5, <1>6 DEF Next

\* Retries, crashes and lost requests alone never demote an approved program:
\* that takes overlapping requests, a redelivered message, or a cleanup of a job
\* that was not stuck.
THEOREM ApprovedHolds == Spec => ApprovedStays
<1>1. Base /\ Orderly /\ [Next]_vars
          => [status = "APPROVED" /\ status' # status => raced \/ stray']_vars
    BY ApprovedStep
<1> QED
    BY <1>1, InvariantHolds, PTL DEF Spec, ApprovedStays
=============================================================================
