------------------------- MODULE ResultDeclaration -------------------------
(***************************************************************************)
(* M11 results (H60): one result declaration of a semester and the rows of *)
(* one student in it - external marks, subject results, the log of grace   *)
(* marks, the semester result - above the marks components the internal    *)
(* marks come from, whose requests interleave with these.                  *)
(*                                                                         *)
(* A service call reads, computes new rows (XxxCheck) and the router       *)
(* commits them at the end (XxxWrite).  SQLAlchemy updates by primary key, *)
(* and only the columns that differ from what was read (Flush), so two     *)
(* overlapping requests each leave their own columns.  compute reads its   *)
(* tables one after the other; here it reads them in one step.             *)
(***************************************************************************)
EXTENDS MarksComponent, TLC

CONSTANTS
    Reqs,         \* concurrent requests on the declaration
    Logs,         \* bound: ids of sis_grace_marks_log rows
    RowsRace,     \* bound: if FALSE, a request on the declaration overlaps another only
                  \* if it begins without external marks, and so without results
    PassPercent,  \* lowest percentage of a passing grade band
    Absent,       \* the student was absent
    NoRow,        \* no external marks row
    NoCourse, NoLog

ASSUME DeclarationAssumption ==
    /\ IsFiniteSet(Logs)
    /\ RowsRace \in BOOLEAN
    /\ PassPercent \in 1..100
    /\ Absent \notin Nat \cup {NoMark, NoRow} /\ NoRow \notin Nat \cup {NoMark}
    /\ NoCourse \notin Courses
    /\ NoLog \notin Logs

VARIABLES
    declared,   \* sis_result_declarations.status; "NONE" is no row
    required,   \* internal_marks_required
    external,   \* sis_external_marks of each course
    result,     \* sis_subject_results of each course
    overall,    \* sis_semester_results.overall_result_status
    log,        \* sis_grace_marks_log
    req,        \* the requests between their check and their write
    gates,      \* history: verify, publish and lock, as committed
    raced,      \* history: requests overlapped, on the declaration or across
    revoked     \* history: courses whose grace was revoked after the last compute

declaration == <<declared, required, external, result, overall, log>>
declVars == <<declaration, req, gates, raced, revoked>>
vars == <<declVars, marksVars>>

----------------------------------------------------------------------------
DeclarationStatus == {"DRAFT", "VERIFIED", "PUBLISHED", "LOCKED"}

External == Marks \cup {Absent, NoRow}

ResultStatus == {"PENDING", "PASS", "FAIL", "ABSENT"}

MaybeNat == Nat \cup {NoMark}

Row == [status : ResultStatus \cup {"NONE"}, internal : MaybeNat, external : Marks,
        grace : Marks, total : MaybeNat, outOf : Nat]

NoResult == [status |-> "NONE", internal |-> NoMark, external |-> NoMark,
             grace |-> NoMark, total |-> NoMark, outOf |-> 0]

LogRow == [course : Courses \cup {NoCourse}, marks : Marks, revoked : BOOLEAN]

NoEntry == [course |-> NoCourse, marks |-> NoMark, revoked |-> FALSE]

Ops == {"idle", "update", "verify", "publish", "lock", "revert", "delete",
        "external", "compute", "grace", "revoke", "sgpa"}

Overall == {"NONE", "PASS", "FAIL"}

Request == [op : Ops, flag : BOOLEAN, k : Courses \cup {NoCourse}, log : Logs \cup {NoLog},
            seenExt : External, newExt : External, seen : [Courses -> Row],
            new : [Courses -> Row], seenAll : Overall, newAll : Overall]

NoResults == [k \in Courses |-> NoResult]

Asked(op) ==
    [op |-> op, flag |-> FALSE, k |-> NoCourse, log |-> NoLog, seenExt |-> NoRow,
     newExt |-> NoRow, seen |-> NoResults, new |-> NoResults,
     seenAll |-> "NONE", newAll |-> "NONE"]

DeclTypeOK ==
    /\ declared \in DeclarationStatus \cup {"NONE"}
    /\ required \in BOOLEAN
    /\ external \in [Courses -> External]
    /\ result \in [Courses -> Row]
    /\ overall \in Overall
    /\ log \in [Logs -> LogRow]
    /\ req \in [Reqs -> Request]
    /\ gates \in SUBSET {"verify", "publish", "lock"}
    /\ raced \in BOOLEAN
    /\ revoked \in SUBSET Courses

TypeOK == MarksTypeOK /\ DeclTypeOK

DeclInit ==
    /\ declared = "NONE"
    /\ required \in BOOLEAN
    /\ external = [k \in Courses |-> NoRow]
    /\ result = NoResults
    /\ overall = "NONE"
    /\ log = [l \in Logs |-> NoEntry]
    /\ req = [r \in Reqs |-> Asked("idle")]
    /\ gates = {}
    /\ raced = FALSE
    /\ revoked = {}

Init == MarksInit /\ DeclInit

----------------------------------------------------------------------------
(* Parts of the handlers.                                                  *)

Rowless == \A k \in Courses : external[k] = NoRow

Begin(r, a) ==
    /\ req[r].op = "idle"
    /\ RowsRace \/ Rowless \/ \A s \in Reqs : req[s].op = "idle"
    /\ req' = [req EXCEPT ![r] = a]
    /\ raced' = (\/ raced
                 \/ \E s \in Reqs \ {r} : req[s].op # "idle"
                 \/ \E s \in MarksReqs : creq[s].op # "idle")
    /\ UNCHANGED <<declaration, gates, revoked>>

End(r) == req' = [req EXCEPT ![r] = Asked("idle")]

\* A row that was read as seen and flushed as new, over what it is now.
Flush(cur, seen, new) ==
    [f \in DOMAIN cur |-> IF new[f] = seen[f] THEN cur[f] ELSE new[f]]

\* An INSERT of a row that another request has inserted meanwhile.
Conflict(r) ==
    \E k \in Courses : /\ req[r].seen[k].status = "NONE"
                       /\ req[r].new[k].status # "NONE"
                       /\ result[k].status # "NONE"

FlushResults(r) ==
    result' = [k \in Courses |-> Flush(result[k], req[r].seen[k], req[r].new[k])]

ActiveLogs(k) == {l \in Logs : log[l].course = k /\ ~log[l].revoked}

NumOf(m) == IF m = NoMark THEN 0 ELSE m

\* Mutant: the missing band of a failed result is written as its status.
GradedMutant(total, outOf) ==
    IF PassPercent * outOf <= 100 * total /\ total <= outOf THEN "PASS" ELSE NoMark

\* _apply_grade_band, with bands that pass from PassPercent to 100 and fail
\* below: a percentage above 100 is in no band, and no band is a FAIL.
Graded(total, outOf) ==
    IF PassPercent * outOf <= 100 * total /\ total <= outOf THEN "PASS" ELSE "FAIL"

\* Mutant: whatever is published counts.
CountedMutant(k) ==
    IF required
    THEN {c \in Comps : c[1] = k /\ cstatus[c] \in {"PUBLISHED", "LOCKED"} /\ entry[c] # NoMark}
    ELSE {}

\* LOCKED components of course k with marks, which is_active does not limit.
Counted(k) ==
    IF required
    THEN {c \in Comps : c[1] = k /\ cstatus[c] = "LOCKED" /\ entry[c] # NoMark}
    ELSE {}

InternalOf(k) ==
    IF Counted(k) = {} THEN NoMark
    ELSE MapThenSumSet(LAMBDA c : entry[c], Counted(k))

\* The row compute makes of course k, whose grace marks it keeps.
ComputedRow(k) ==
    LET old == result[k]
        int == InternalOf(k)
        out == MaxMark * (Cardinality(Counted(k)) + 1)
        sum == NumOf(int) + NumOf(external[k]) + NumOf(old.grace)
        row(s, e, t) == [status |-> s, internal |-> int, external |-> e,
                         grace |-> old.grace, total |-> t, outOf |-> out]
    IN  CASE external[k] = NoRow  -> old
          [] external[k] = Absent -> row("ABSENT", NoMark, NoMark)
          [] external[k] = NoMark -> row("PENDING", NoMark, NoMark)
          [] OTHER                -> row(Graded(sum, out), external[k], sum)

----------------------------------------------------------------------------
(* ResultDeclarationService.                                               *)

\* create: one declaration of a type for an exam session (unique key).
CreateDeclaration ==
    /\ declared = "NONE"
    /\ declared' = "DRAFT"
    /\ UNCHANGED <<required, external, result, overall, log, req, gates, raced, revoked>>

UpdateCheck(r) ==
    /\ declared = "DRAFT"
    /\ Begin(r, [Asked("update") EXCEPT !.flag = ~required])

UpdateWrite(r) ==
    /\ req[r].op = "update"
    /\ required' = req[r].flag
    /\ End(r)
    /\ UNCHANGED <<declared, external, result, overall, log, gates, raced, revoked>>

\* r commits status s.
DeclTransition(r, op, s) ==
    /\ req[r].op = op
    /\ declared' = s
    /\ End(r)
    /\ UNCHANGED <<required, external, result, overall, log, raced, revoked>>

VerifyCheck(r) ==
    /\ declared = "DRAFT"
    /\ \A k \in Courses : result[k].status # "PENDING"
    /\ Begin(r, Asked("verify"))

VerifyWrite(r) ==
    /\ DeclTransition(r, "verify", "VERIFIED")
    /\ gates' = gates \cup {"verify"}

PublishCheck(r) ==
    /\ declared = "VERIFIED"
    /\ Begin(r, Asked("publish"))

PublishWrite(r) ==
    /\ DeclTransition(r, "publish", "PUBLISHED")
    /\ gates' = gates \cup {"publish"}

LockCheck(r) ==
    /\ declared = "PUBLISHED"
    /\ Begin(r, Asked("lock"))

LockWrite(r) ==
    /\ DeclTransition(r, "lock", "LOCKED")
    /\ gates' = gates \cup {"lock"}

RevertCheck(r) ==
    /\ declared = "VERIFIED"
    /\ Begin(r, Asked("revert"))

RevertWrite(r) ==
    /\ DeclTransition(r, "revert", "DRAFT")
    /\ UNCHANGED gates

DeleteCheck(r) ==
    /\ declared = "DRAFT"
    /\ Begin(r, Asked("delete"))

\* Mutant: a write does not look for the row it read, only for some declaration.
WithoutRowMutant(r) == [req EXCEPT ![r] = Asked("idle")]

\* Once r has deleted the row, the writes of the requests still pending on it find
\* no row and fail, also if there is a new declaration by then.
WithoutRow(r) == [s \in Reqs |-> Asked("idle")]

\* The rows go with the declaration, except the log: a declaration that ever
\* had grace marks stays (declaration_id cannot become NULL).
DeleteWrite(r) ==
    /\ req[r].op = "delete"
    /\ \/ /\ \A l \in Logs : log[l] = NoEntry
          /\ declared' = "NONE"
          /\ external' = [k \in Courses |-> NoRow]
          /\ result' = NoResults
          /\ overall' = "NONE"
          /\ req' = WithoutRow(r)
          /\ gates' = {} /\ revoked' = {}
       \/ /\ \E l \in Logs : log[l] # NoEntry
          /\ End(r)
          /\ UNCHANGED <<declared, external, result, overall, gates, revoked>>
    /\ UNCHANGED <<required, log, raced>>

----------------------------------------------------------------------------
(* Marks, computation, grace.                                              *)

\* ExternalMarksService.bulk_upsert, for one course at a time.
ExternalCheck(r, k, x) ==
    /\ declared \notin {"NONE", "LOCKED"}
    /\ x # NoRow
    /\ Begin(r, [Asked("external") EXCEPT !.k = k, !.seenExt = external[k], !.newExt = x])

\* The key of the row is unique: a second INSERT rolls the request back.
ExternalWrite(r) ==
    /\ req[r].op = "external"
    /\ LET k == req[r].k
           conflict == req[r].seenExt = NoRow /\ external[k] # NoRow
       IN  external' = [external EXCEPT ![k] =
                           IF conflict \/ req[r].newExt = req[r].seenExt
                           THEN @ ELSE req[r].newExt]
    /\ End(r)
    /\ UNCHANGED <<declared, required, result, overall, log, gates, raced, revoked>>

\* Mutant: a LOCKED declaration can be computed again.
ComputeCheckMutant(r) ==
    /\ declared # "NONE"
    /\ \E k \in Courses : external[k] # NoRow
    /\ Begin(r, [Asked("compute") EXCEPT !.seen = result,
                                         !.new = [k \in Courses |-> ComputedRow(k)]])

ComputeCheck(r) ==
    /\ declared \notin {"NONE", "LOCKED"}
    /\ \E k \in Courses : external[k] # NoRow
    /\ Begin(r, [Asked("compute") EXCEPT !.seen = result,
                                         !.new = [k \in Courses |-> ComputedRow(k)]])

ComputeWrite(r) ==
    /\ req[r].op = "compute"
    /\ IF Conflict(r) THEN UNCHANGED <<result, revoked>>
                      ELSE FlushResults(r) /\ revoked' = {}
    /\ End(r)
    /\ UNCHANGED <<declared, required, external, overall, log, gates, raced>>

\* The row of course k with grace marks g, regraded if it has a total.
GracedRow(k, g) ==
    LET old == result[k]
        sum == NumOf(old.internal) + NumOf(old.external) + g
    IN  IF old.total = NoMark THEN [old EXCEPT !.grace = g]
        ELSE [old EXCEPT !.grace = g, !.total = sum, !.status = Graded(sum, old.outOf)]

\* GraceMarksService.apply
ApplyGraceCheck(r, k, g) ==
    /\ declared \in {"DRAFT", "VERIFIED"}
    /\ result[k].status # "NONE"
    /\ ActiveLogs(k) = {}
    /\ Begin(r, [Asked("grace") EXCEPT !.k = k, !.seen = result,
                                       !.new = [result EXCEPT ![k] = GracedRow(k, g)]])

ApplyGraceWrite(r) ==
    /\ req[r].op = "grace"
    /\ \E l \in Logs :
          /\ log[l] = NoEntry
          /\ log' = [log EXCEPT ![l] = [course |-> req[r].k, revoked |-> FALSE,
                                        marks |-> req[r].new[req[r].k].grace]]
    /\ FlushResults(r)
    /\ revoked' = revoked \ {req[r].k}
    /\ End(r)
    /\ UNCHANGED <<declared, required, external, overall, gates, raced>>

\* revoke: the log entry is closed and the row loses its grace marks; its
\* total and grade stay as they are.
RevokeGraceCheck(r, l) ==
    /\ log[l] # NoEntry /\ ~log[l].revoked
    /\ declared \in {"DRAFT", "VERIFIED"}
    /\ Begin(r, [Asked("revoke") EXCEPT
                    !.log = l, !.seen = result,
                    !.new = [result EXCEPT ![log[l].course].grace = NoMark]])

RevokeGraceWrite(r) ==
    /\ req[r].op = "revoke"
    /\ log' = [log EXCEPT ![req[r].log].revoked = TRUE]
    /\ FlushResults(r)
    /\ revoked' = revoked \cup {log[req[r].log].course}
    /\ End(r)
    /\ UNCHANGED <<declared, required, external, overall, gates, raced>>

\* compute_sgpa_cgpa: an ABSENT course does not count, any other that is not a
\* PASS fails the semester.  The status of the declaration is not asked for.
SgpaCheck(r) ==
    /\ declared # "NONE"
    /\ \E k \in Courses : result[k].status # "NONE"
    /\ Begin(r, [Asked("sgpa") EXCEPT
                    !.seenAll = overall,
                    !.newAll = IF \A k \in Courses :
                                     result[k].status \in {"NONE", "ABSENT", "PASS"}
                               THEN "PASS" ELSE "FAIL"])

SgpaWrite(r) ==
    /\ req[r].op = "sgpa"
    /\ overall' = IF \/ req[r].seenAll = "NONE" /\ overall # "NONE"
                     \/ req[r].seenAll = req[r].newAll
                  THEN overall ELSE req[r].newAll
    /\ End(r)
    /\ UNCHANGED <<declared, required, external, result, log, gates, raced, revoked>>

Abandon(r) ==
    /\ req[r].op # "idle"
    /\ End(r)
    /\ UNCHANGED <<declaration, gates, raced, revoked>>

----------------------------------------------------------------------------
Check(r) ==
    \/ UpdateCheck(r) \/ VerifyCheck(r) \/ PublishCheck(r) \/ LockCheck(r)
    \/ RevertCheck(r) \/ DeleteCheck(r) \/ ComputeCheck(r) \/ SgpaCheck(r)
    \/ \E k \in Courses, x \in External : ExternalCheck(r, k, x)
    \/ \E k \in Courses, g \in MarkValues \ {0} : ApplyGraceCheck(r, k, g)
    \/ \E l \in Logs : RevokeGraceCheck(r, l)

Write(r) ==
    \/ UpdateWrite(r) \/ VerifyWrite(r) \/ PublishWrite(r) \/ LockWrite(r)
    \/ RevertWrite(r) \/ DeleteWrite(r) \/ ExternalWrite(r) \/ ComputeWrite(r)
    \/ ApplyGraceWrite(r) \/ RevokeGraceWrite(r) \/ SgpaWrite(r)

DeclNext ==
    /\ CreateDeclaration \/ \E r \in Reqs : Check(r) \/ Write(r) \/ Abandon(r)
    /\ UNCHANGED marksVars

\* A step of the components below.
ComponentNext ==
    /\ MarksNext
    /\ raced' = (raced \/ (creq' # creq /\ \E s \in Reqs : req[s].op # "idle"))
    /\ UNCHANGED <<declaration, req, gates, revoked>>

Next == DeclNext \/ ComponentNext

Spec == Init /\ [][Next]_vars

\* Requests, courses and log entries are interchangeable.
Symmetry == Permutations(Reqs) \cup Permutations(Courses) \cup Permutations(Logs)

----------------------------------------------------------------------------
(* Properties.                                                             *)

\* AI advises, humans decide: whatever requests overlap, students only see a
\* declaration that people have verified and published, and a LOCKED one has
\* been through all three gates.
ResultGates ==
    /\ declared \in {"VERIFIED", "PUBLISHED", "LOCKED"} => "verify" \in gates
    /\ declared \in {"PUBLISHED", "LOCKED"} => "publish" \in gates
    /\ declared = "LOCKED" => "lock" \in gates

\* Without overlapping requests a subject result carries exactly the grace
\* marks of its one log entry that is not revoked, through recomputations,
\* revocations and reapplications.
GraceMatchesLog ==
    ~raced => \A k \in Courses :
        /\ Cardinality(ActiveLogs(k)) <= 1
        /\ result[k].grace # NoMark <=> ActiveLogs(k) # {}
        /\ \A l \in ActiveLogs(k) : result[k].grace = log[l].marks

\* Without overlapping requests a graded result's total is internal + external
\* + grace and its grade is that total's, unless its grace was revoked and it
\* has not been computed since.
ResultsAddUp ==
    ~raced => \A k \in Courses \ revoked :
        LET row == result[k]
        IN  row.status \in {"PASS", "FAIL"} =>
                /\ row.total = NumOf(row.internal) + NumOf(row.external) + NumOf(row.grace)
                /\ row.status = Graded(row.total, row.outOf)

\* Only LOCKED components count: without overlapping requests the internal
\* marks of a result are the sum of entries that are LOCKED and unchanged since,
\* unless the Dean has reopened a component of the course.
OnlyLockedCounts ==
    ~raced /\ ~craced => \A k \in Courses :
        result[k].internal # NoMark /\ (\A c \in reopened : c[1] # k) =>
            \E S \in SUBSET {c \in Comps : c[1] = k /\ cstatus[c] = "LOCKED"} :
                /\ \A c \in S : entry[c] # NoMark
                /\ result[k].internal = MapThenSumSet(LAMBDA c : entry[c], S)

\* Result, grace log, grade and internal marks agree: the three together.
ResultsAgree == GraceMatchesLog /\ ResultsAddUp /\ OnlyLockedCounts

\* A LOCKED declaration is final: without overlapping requests its status, its
\* marks, its subject results and its log never change again.
LockedIsFinal ==
    [][<<declared, external, result, log>>' # <<declared, external, result, log>>
           => raced \/ declared # "LOCKED"]_vars
=============================================================================
