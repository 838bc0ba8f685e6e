------------------------------- MODULE Syllabus -------------------------------
(***************************************************************************)
(* M02: the versions of one course's syllabus, the requests of faculty and *)
(* Dean on them and the generate_syllabus task.  Outcomes, mappings and    *)
(* units are abstracted to whether they pass the compliance check (full)   *)
(* and whether the faculty edited them since the last generation (edited). *)
(***************************************************************************)
EXTENDS Backend, FiniteSetsExt

CONSTANT Syllabi   \* bound: ids 1..n; they are given out in order and never reused

VARIABLE syl       \* the rows

sylVars == <<syl, backend>>

SyllabusStatus ==
    {"DRAFT", "AI_GENERATING", "PENDING_REVIEW", "DEAN_APPROVED", "DEAN_LOCKED"}

Immutable == {"PENDING_REVIEW", "DEAN_APPROVED", "DEAN_LOCKED"}

SyllabusOps == {"create", "edit", "delete", "dispatch", "submit", "approve",
                "reject", "lock", "unlock", "fork"}

ASSUME SyllabiAssumption ==
    /\ Syllabi \subseteq Nat \ {0} /\ IsFiniteSet(Syllabi)
    /\ None \notin Syllabi /\ None \notin SyllabusOps

Unused == [status |-> "NONE", ver |-> 0, from |-> 0, full |-> FALSE, edited |-> FALSE]

SyllabusTypeOK ==
    /\ syl \in [Syllabi -> [status : SyllabusStatus \cup {"NONE", "GONE"},
                            ver : 0..Cardinality(Syllabi), from : {0} \cup Syllabi,
                            full : BOOLEAN, edited : BOOLEAN]]
    /\ BackendTypeOK(SyllabusOps, {"generate_syllabus"}, Syllabi, {"running", "failed"},
                     1..Cardinality(Syllabi), {"locked"})

SyllabusInit ==
    /\ syl = [d \in Syllabi |-> Unused]
    /\ BackendInit

----------------------------------------------------------------------------
Exists(d) == syl[d].status \in SyllabusStatus

\* Mutant: off by one.
NextVersionMutant == 2 + Max({0} \cup {syl[d].ver : d \in {e \in Syllabi : Exists(e)}})

\* coalesce(max(version), 0) + 1
NextVersion == 1 + Max({0} \cup {syl[d].ver : d \in {e \in Syllabi : Exists(e)}})

\* The id of the next row (bound: there may be none left).
FreshSyllabus == {d \in Syllabi : syl[d].status = "NONE"
                      /\ \A e \in Syllabi : e < d => syl[e].status # "NONE"}

\* A generation that found a DRAFT holds the row's lock until it ends: an
\* UPDATE or DELETE of the row waits for it, one of its outcomes or units does not.
RowLocked(d) ==
    \E w \in Workers :
        exec[w].to = d /\ In(w, "generate_syllabus", "running") /\ exec[w].mem = "locked"

SetStatus(d, s) == syl' = [syl EXCEPT ![d].status = s]

----------------------------------------------------------------------------
(* What the requests check.                                                *)

CreateSyllabus(r) == FreshSyllabus # {} /\ Begin(r, "create", None, NextVersion)

EditSyllabus(r, d) == syl[d].status = "DRAFT" /\ Begin(r, "edit", d, None)

DeleteSyllabus(r, d) == syl[d].status = "DRAFT" /\ Begin(r, "delete", d, None)

DispatchGeneration(r, d) == syl[d].status = "DRAFT" /\ Begin(r, "dispatch", d, None)

\* Mutant: submission requires no compliance.
SubmitMutant(r, d) == syl[d].status = "DRAFT" /\ Begin(r, "submit", d, None)

SubmitForReview(r, d) ==
    syl[d].status = "DRAFT" /\ syl[d].full /\ Begin(r, "submit", d, None)

ApproveSyllabus(r, d) == syl[d].status = "PENDING_REVIEW" /\ Begin(r, "approve", d, None)

RejectSyllabus(r, d) ==
    /\ syl[d].status = "PENDING_REVIEW"
    /\ FreshSyllabus # {}
    /\ Begin(r, "reject", d, NextVersion)

LockSyllabus(r, d) == syl[d].status = "DEAN_APPROVED" /\ Begin(r, "lock", d, None)

UnlockSyllabus(r, d) == syl[d].status = "DEAN_LOCKED" /\ Begin(r, "unlock", d, None)

ForkSyllabus(r, d) ==
    /\ Exists(d) /\ syl[d].status # "AI_GENERATING"
    /\ FreshSyllabus # {}
    /\ Begin(r, "fork", d, NextVersion)

----------------------------------------------------------------------------
(* What they write.                                                        *)

\* A new row with the version the check read, empty or a copy of its source; a
\* source that is gone meanwhile is NOT_FOUND.
WriteSyllabus(r) ==
    LET from == req[r].on IN
    /\ req[r].op \in {"create", "reject", "fork"}
    /\ IF from # None /\ ~Exists(from) THEN UNCHANGED syl
       ELSE \E d \in FreshSyllabus :
              syl' = [syl EXCEPT ![d] =
                        [status |-> "DRAFT", ver |-> req[r].mem,
                         from |-> IF from = None THEN 0 ELSE from,
                         full |-> from # None /\ syl[from].full,
                         edited |-> from # None /\ syl[from].edited]]
    /\ End(r)

\* Outcomes, mappings and units: rows of their own, which the lock does not cover.
WriteEdit(r) ==
    LET d == req[r].on IN
    /\ req[r].op = "edit"
    /\ IF Exists(d)
       THEN \E full \in BOOLEAN :
                syl' = [syl EXCEPT ![d].full = full, ![d].edited = TRUE]
       ELSE UNCHANGED syl
    /\ End(r)

\* A version that others were forked from cannot be deleted (foreign key).
WriteDelete(r) ==
    LET d == req[r].on IN
    /\ req[r].op = "delete"
    /\ ~RowLocked(d)
    /\ IF Exists(d) /\ \A e \in Syllabi : Exists(e) => syl[e].from # d
       THEN SetStatus(d, "GONE") ELSE UNCHANGED syl
    /\ End(r)

Moved == [submit |-> "PENDING_REVIEW", approve |-> "DEAN_APPROVED",
          lock |-> "DEAN_LOCKED", unlock |-> "DEAN_APPROVED"]

\* UPDATE ... WHERE id: no condition on the status that was checked.
WriteStatus(r) ==
    LET d == req[r].on IN
    /\ req[r].op \in DOMAIN Moved
    /\ ~RowLocked(d)
    /\ IF Exists(d) THEN SetStatus(d, Moved[req[r].op]) ELSE UNCHANGED syl
    /\ End(r)

\* The job row and AI_GENERATING are committed; the message comes after.
WriteDispatch(r) ==
    LET d == req[r].on IN
    /\ req[r].op = "dispatch"
    /\ ~RowLocked(d)
    /\ IF Exists(d)
       THEN syl' = [syl EXCEPT ![d].status = "AI_GENERATING", ![d].edited = FALSE]
       ELSE UNCHANGED syl
    /\ EndPublishing(r, d, "generate_syllabus")

FacultyRequest(r) ==
    \/ CreateSyllabus(r)
    \/ \E d \in Syllabi : \/ EditSyllabus(r, d) \/ DeleteSyllabus(r, d) \/ ForkSyllabus(r, d)
                          \/ DispatchGeneration(r, d) \/ SubmitForReview(r, d)

DeanRequest(r) ==
    \E d \in Syllabi : \/ ApproveSyllabus(r, d) \/ RejectSyllabus(r, d)
                       \/ LockSyllabus(r, d) \/ UnlockSyllabus(r, d)

SyllabusRequest(r) ==
    \/ (FacultyRequest(r) \/ DeanRequest(r)) /\ UNCHANGED syl
    \/ WriteSyllabus(r) \/ WriteEdit(r) \/ WriteDelete(r) \/ WriteStatus(r) \/ WriteDispatch(r)

----------------------------------------------------------------------------
(* generate_syllabus: one transaction, and the except branch.              *)

\* The guard refuses a reviewed or missing row; a DRAFT is set to AI_GENERATING
\* inside the transaction, which no one else sees.
StartGeneration(w, m) ==
    LET d == msg[m].to IN
    /\ ~RowLocked(d)
    /\ Take(w, m, "generate_syllabus",
            IF syl[d].status \in {"DRAFT", "AI_GENERATING"} THEN "running" ELSE "failed",
            IF syl[d].status = "DRAFT" THEN "locked" ELSE None)
    /\ UNCHANGED <<syl, again, lost, faults>>

\* The outcomes and units are replaced and the status is DRAFT, whatever it was.
CommitGeneration(w) ==
    LET d == exec[w].to IN
    /\ In(w, "generate_syllabus", "running")
    /\ Exists(d)
    /\ exec[w].mem = "locked" \/ ~RowLocked(d)
    /\ \E full \in BOOLEAN :
          syl' = [syl EXCEPT ![d].status = "DRAFT", ![d].full = full, ![d].edited = FALSE]
    /\ Finish(w)
    /\ UNCHANGED <<lost, faults>>

\* The model or a statement fails, or the row the outcomes refer to is gone: the
\* transaction is rolled back.
FailGeneration(w) ==
    /\ In(w, "generate_syllabus", "running")
    /\ IF Exists(exec[w].to) THEN Fault ELSE UNCHANGED faults
    /\ Goto(w, "failed", None)
    /\ UNCHANGED <<syl, msg, again, lost>>

\* The except branch resets the row to DRAFT, whatever its status, and raises.
ResetSyllabus(w) ==
    LET d == exec[w].to IN
    /\ In(w, "generate_syllabus", "failed")
    /\ ~RowLocked(d)
    /\ IF Exists(d) THEN SetStatus(d, "DRAFT") ELSE UNCHANGED syl
    /\ Retry(w) \/ Finish(w)
    /\ UNCHANGED <<lost, faults>>

\* The outage that failed the generation fails the reset too; that error is
\* logged and swallowed.
ResetFails(w) ==
    /\ In(w, "generate_syllabus", "failed")
    /\ \/ Retry(w) /\ UNCHANGED lost
       \/ Finish(w) /\ lost' = lost \cup {exec[w].to}
    /\ UNCHANGED <<syl, faults>>

SyllabusTask(w) ==
    \/ \E m \in Slots : StartGeneration(w, m)
    \/ CommitGeneration(w) \/ FailGeneration(w) \/ ResetSyllabus(w) \/ ResetFails(w)

----------------------------------------------------------------------------
SyllabusNext ==
    \/ \E r \in Reqs : SyllabusRequest(r) /\ UNCHANGED queue
    \/ \E w \in Workers : SyllabusTask(w) /\ UNCHANGED <<req, raced>>
    \/ Environment /\ UNCHANGED syl

\* Workers keep working, and take a message that stays in the queue.
SyllabusFairness ==
    /\ \A w \in Workers : WF_sylVars(SyllabusTask(w) /\ UNCHANGED <<req, raced>>)
    /\ \A m \in Slots :
          SF_sylVars(\E w \in Workers : StartGeneration(w, m) /\ UNCHANGED <<req, raced>>)

SyllabusSpec == SyllabusInit /\ [][SyllabusNext]_sylVars /\ EnvironmentFairness /\ SyllabusFairness
----------------------------------------------------------------------------
(* Properties.                                                             *)

\* The stage of a syllabus for the abstract contract; a repeated delivery or
\* two overlapping requests void it.
SyllabusStage(d) ==
    IF raced \/ d \in again THEN "open"
    ELSE CASE ~Exists(d) -> "absent"
         [] syl[d].status = "DRAFT" -> "draft"
         [] syl[d].status = "AI_GENERATING" -> "generating"
         [] OTHER -> "released"

SyllabusContract == INSTANCE DocumentContract
    WITH Docs <- Syllabi, stage <- [d \in Syllabi |-> SyllabusStage(d)]

\* Refinement: unless requests overlapped or its message was repeated, a
\* syllabus follows DocumentContract: AI_GENERATING comes only from a DRAFT and
\* ends in one, and after the submission it is never a draft again, however
\* the generation, the workers and the requests fail.
SyllabusKeepsContract == SyllabusContract!ContractSpec

\* A version in review, approved or locked still has the outcomes and units its
\* compliance check counted, unless requests overlapped or its generation was
\* repeated: neither an edit nor the task's replacement reaches it.
ReviewedIsCompliant ==
    \A d \in Syllabi : syl[d].status \in Immutable => syl[d].full \/ raced \/ d \in again

\* The live versions of the course have different numbers as long as no two
\* requests overlapped (no unique constraint guards them), whatever is deleted
\* in between, and a fork is always newer than its source, even then.
VersionsOrdered ==
    \A d, e \in Syllabi : Exists(d) /\ Exists(e) =>
        /\ d # e /\ ~raced => syl[d].ver # syl[e].ver
        /\ syl[e].from = d => syl[d].ver < syl[e].ver

\* What the faculty edited since the last dispatch is replaced only by a
\* repeated generation, or after an overlap.
EditsStay ==
    [][\A d \in Syllabi : syl[d].edited /\ syl'[d].status \in Immutable \cup {"DRAFT"} =>
            syl'[d].edited \/ raced \/ d \in again]_sylVars
=============================================================================
