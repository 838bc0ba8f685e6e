------------------------------ MODULE CourseKit ------------------------------
(***************************************************************************)
(* M03: the course kits of one unit of an approved syllabus, the requests  *)
(* on them and the generate_course_kit task.  Slides, quizlets and the     *)
(* other content are abstracted to whether they pass _build_compliance.    *)
(* The syllabus stays approved, as Syllabus!SyllabusKeepsContract says.    *)
(***************************************************************************)
EXTENDS Backend, FiniteSetsExt

CONSTANT Kits   \* bound: ids 1..n, given out in order

VARIABLE kit

kitVars == <<kit, backend>>

CourseKitStatus == {"DRAFT", "AI_GENERATING", "PUBLISHED", "ARCHIVED"}

KitOps == {"create_kit", "edit_kit", "delete_kit", "dispatch_kit", "publish_kit",
           "archive_kit", "fork_kit"}

ASSUME KitsAssumption ==
    /\ Kits \subseteq Nat \ {0} /\ IsFiniteSet(Kits)
    /\ None \notin Kits /\ None \notin KitOps

UnusedKit == [status |-> "NONE", ver |-> 0, from |-> 0, full |-> FALSE]

KitTypeOK ==
    /\ kit \in [Kits -> [status : CourseKitStatus \cup {"NONE", "GONE"},
                         ver : 0..Cardinality(Kits), from : {0} \cup Kits, full : BOOLEAN]]
    /\ BackendTypeOK(KitOps, {"generate_course_kit"}, Kits, {"running", "failed"},
                     1..Cardinality(Kits), {"locked"})

KitInit ==
    /\ kit = [k \in Kits |-> UnusedKit]
    /\ BackendInit

----------------------------------------------------------------------------
KitExists(k) == kit[k].status \in CourseKitStatus

NextKitVersion == 1 + Max({0} \cup {kit[k].ver : k \in {j \in Kits : KitExists(j)}})

FreshKit == {k \in Kits : kit[k].status = "NONE"
                 /\ \A j \in Kits : j < k => kit[j].status # "NONE"}

\* As in Syllabus: a repeated generation of a DRAFT holds the row's lock.
KitLocked(k) ==
    \E w \in Workers :
        exec[w].to = k /\ In(w, "generate_course_kit", "running") /\ exec[w].mem = "locked"

SetKitStatus(k, s) == kit' = [kit EXCEPT ![k].status = s]

----------------------------------------------------------------------------
(* What the requests check.                                                *)

\* The version is the column's default, 1, whatever kits the unit has.
CreateKit(r) == FreshKit # {} /\ Begin(r, "create_kit", None, 1)

EditKit(r, k) == kit[k].status = "DRAFT" /\ Begin(r, "edit_kit", k, None)

DeleteKit(r, k) == kit[k].status = "DRAFT" /\ Begin(r, "delete_kit", k, None)

DispatchKit(r, k) == kit[k].status = "DRAFT" /\ Begin(r, "dispatch_kit", k, None)

\* Mutant: get_published_for_unit is not asked.
PublishKitMutant(r, k) ==
    kit[k].status = "DRAFT" /\ kit[k].full /\ Begin(r, "publish_kit", k, None)

\* Compliance, and no other kit of the unit is PUBLISHED.
PublishKit(r, k) ==
    /\ kit[k].status = "DRAFT" /\ kit[k].full
    /\ \A j \in Kits \ {k} : kit[j].status # "PUBLISHED"
    /\ Begin(r, "publish_kit", k, None)

ArchiveKit(r, k) == kit[k].status = "PUBLISHED" /\ Begin(r, "archive_kit", k, None)

ForkKit(r, k) ==
    /\ KitExists(k) /\ kit[k].status # "AI_GENERATING"
    /\ FreshKit # {}
    /\ Begin(r, "fork_kit", k, NextKitVersion)

----------------------------------------------------------------------------
(* What they write.                                                        *)

\* create_kit and fork_kit; a fork read its source before the version.
WriteKit(r) ==
    LET from == req[r].on IN
    /\ req[r].op \in {"create_kit", "fork_kit"}
    /\ IF from # None /\ ~KitExists(from) THEN UNCHANGED kit
       ELSE \E k \in FreshKit :
              kit' = [kit EXCEPT ![k] = [status |-> "DRAFT", ver |-> req[r].mem,
                                         from |-> IF from = None THEN 0 ELSE from,
                                         full |-> from # None /\ kit[from].full]]
    /\ End(r)

\* Slides, quizlets and assignments, rows of their own.
WriteKitEdit(r) ==
    /\ req[r].op = "edit_kit"
    /\ IF KitExists(req[r].on)
       THEN \E full \in BOOLEAN : kit' = [kit EXCEPT ![req[r].on].full = full]
       ELSE UNCHANGED kit
    /\ End(r)

WriteKitDelete(r) ==
    LET k == req[r].on IN
    /\ req[r].op = "delete_kit"
    /\ ~KitLocked(k)
    /\ IF KitExists(k) /\ \A j \in Kits : KitExists(j) => kit[j].from # k
       THEN SetKitStatus(k, "GONE") ELSE UNCHANGED kit
    /\ End(r)

KitMoved == [publish_kit |-> "PUBLISHED", archive_kit |-> "ARCHIVED"]

WriteKitStatus(r) ==
    LET k == req[r].on IN
    /\ req[r].op \in DOMAIN KitMoved
    /\ ~KitLocked(k)
    /\ IF KitExists(k) THEN SetKitStatus(k, KitMoved[req[r].op]) ELSE UNCHANGED kit
    /\ End(r)

WriteKitDispatch(r) ==
    LET k == req[r].on IN
    /\ req[r].op = "dispatch_kit"
    /\ ~KitLocked(k)
    /\ IF KitExists(k) THEN SetKitStatus(k, "AI_GENERATING") ELSE UNCHANGED kit
    /\ EndPublishing(r, k, "generate_course_kit")

KitCheck(r) ==
    \/ CreateKit(r)
    \/ \E k \in Kits : \/ EditKit(r, k) \/ DeleteKit(r, k) \/ DispatchKit(r, k)
                       \/ PublishKit(r, k) \/ ArchiveKit(r, k) \/ ForkKit(r, k)

KitRequest(r) ==
    \/ KitCheck(r) /\ UNCHANGED kit
    \/ WriteKit(r) \/ WriteKitEdit(r) \/ WriteKitDelete(r) \/ WriteKitStatus(r)
    \/ WriteKitDispatch(r)

----------------------------------------------------------------------------
(* generate_course_kit.                                                    *)

StartKit(w, m) ==
    LET k == msg[m].to IN
    /\ ~KitLocked(k)
    /\ Take(w, m, "generate_course_kit",
            IF kit[k].status \in {"DRAFT", "AI_GENERATING"} THEN "running" ELSE "failed",
            IF kit[k].status = "DRAFT" THEN "locked" ELSE None)
    /\ UNCHANGED <<kit, again, lost, faults>>

CommitKit(w) ==
    LET k == exec[w].to IN
    /\ In(w, "generate_course_kit", "running")
    /\ KitExists(k)
    /\ exec[w].mem = "locked" \/ ~KitLocked(k)
    /\ \E full \in BOOLEAN :
          kit' = [kit EXCEPT ![k].status = "DRAFT", ![k].full = full]
    /\ Finish(w)
    /\ UNCHANGED <<lost, faults>>

FailKit(w) ==
    /\ In(w, "generate_course_kit", "running")
    /\ IF KitExists(exec[w].to) THEN Fault ELSE UNCHANGED faults
    /\ Goto(w, "failed", None)
    /\ UNCHANGED <<kit, msg, again, lost>>

\* Mutant: the except branch does not reset the kit.
ResetKitMutant(w) ==
    /\ In(w, "generate_course_kit", "failed")
    /\ Retry(w) \/ Finish(w)
    /\ UNCHANGED <<kit, lost, faults>>

\* reset_to_draft, whatever the status is now.
ResetKit(w) ==
    LET k == exec[w].to IN
    /\ In(w, "generate_course_kit", "failed")
    /\ ~KitLocked(k)
    /\ IF KitExists(k) THEN SetKitStatus(k, "DRAFT") ELSE UNCHANGED kit
    /\ Retry(w) \/ Finish(w)
    /\ UNCHANGED <<lost, faults>>

ResetKitFails(w) ==
    /\ In(w, "generate_course_kit", "failed")
    /\ \/ Retry(w) /\ UNCHANGED lost
       \/ Finish(w) /\ lost' = lost \cup {exec[w].to}
    /\ UNCHANGED <<kit, faults>>

KitTask(w) ==
    \/ \E m \in Slots : StartKit(w, m)
    \/ CommitKit(w) \/ FailKit(w) \/ ResetKit(w) \/ ResetKitFails(w)

----------------------------------------------------------------------------
KitNext ==
    \/ \E r \in Reqs : KitRequest(r) /\ UNCHANGED queue
    \/ \E w \in Workers : KitTask(w) /\ UNCHANGED <<req, raced>>
    \/ Environment /\ UNCHANGED kit

KitFairness ==
    /\ \A w \in Workers : WF_kitVars(KitTask(w) /\ UNCHANGED <<req, raced>>)
    /\ \A m \in Slots :
          SF_kitVars(\E w \in Workers : StartKit(w, m) /\ UNCHANGED <<req, raced>>)

KitSpec == KitInit /\ [][KitNext]_kitVars /\ EnvironmentFairness /\ KitFairness
----------------------------------------------------------------------------
(* Properties.                                                             *)

KitStage(k) ==
    IF raced \/ k \in again THEN "open"
    ELSE CASE ~KitExists(k) -> "absent"
         [] kit[k].status = "DRAFT" -> "draft"
         [] kit[k].status = "AI_GENERATING" -> "generating"
         [] OTHER -> "released"

KitContract == INSTANCE DocumentContract
    WITH Docs <- Kits, stage <- [k \in Kits |-> KitStage(k)]

\* Refinement: unless requests overlapped or its message was repeated, a kit
\* follows DocumentContract: published content is never generated over, edited
\* or deleted, however the task fails.
KitKeepsContract == KitContract!ContractSpec

\* CourseKitRepository.get_published_for_unit: a unit has at most one PUBLISHED
\* kit, unless two publications overlapped, and that kit still passes the
\* compliance check it was published with, unless an edit or a repeated
\* generation ran across its publication.
OnePublishedKit ==
    \A k \in Kits : kit[k].status = "PUBLISHED" /\ ~raced =>
        /\ \A j \in Kits \ {k} : kit[j].status # "PUBLISHED"
        /\ kit[k].full \/ k \in again
=============================================================================
