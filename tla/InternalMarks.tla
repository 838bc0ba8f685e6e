--------------------------- MODULE InternalMarks ---------------------------
(***************************************************************************)
(* M08 internal marks: the one internal_marks_summary row of a student in  *)
(* a course and semester, its faculty and Dean gates, and the requests     *)
(* that act on it.  As in ExamPaper, a request is its SELECT and checks    *)
(* (XxxCheck) and later its UPDATE and COMMIT (XxxWrite): the UPDATE names *)
(* only the id, so it writes whatever the row has become meanwhile.        *)
(***************************************************************************)
EXTENDS Naturals, FiniteSets, FiniteSetsExt

CONSTANTS
    Reqs,      \* concurrent API requests
    Parts,     \* internal1, internal2, assignment, attendance
    MaxMark,   \* bound: a component's marks
    Maxima,    \* values max_internal can take
    NoMark     \* NULL, in a component, a total or a request's field

ASSUME MarksAssumption ==
    /\ IsFiniteSet(Parts)
    /\ MaxMark \in Nat
    /\ Maxima \subseteq Nat
    /\ NoMark \notin Nat

VARIABLES
    status, marks, max, total,  \* the row; status "NONE" is no row
    req,      \* the requests between their check and their write
    raced,    \* history: two requests overlapped
    valid     \* history: totals the row had, within its maximum, while PENDING

row == <<status, marks, max, total>>
vars == <<row, req, raced, valid>>

----------------------------------------------------------------------------
InternalMarkStatus == {"PENDING", "FACULTY_SUBMITTED", "DEAN_LOCKED"}

Given == [Parts -> 0..MaxMark \cup {NoMark}]

Nothing == [p \in Parts |-> NoMark]

\* sum(float(c) for c in components if c is not None)
SumOf(m) == MapThenSumSet(LAMBDA p : IF m[p] = NoMark THEN 0 ELSE m[p], Parts)

Sums == {SumOf(m) : m \in Given}

Ops == {"idle", "create", "edit", "submit", "lock"}

Request == [op : Ops, given : Given, max : Maxima \cup {NoMark},
            total : Sums \cup {NoMark}]

Idle == [op |-> "idle", given |-> Nothing, max |-> NoMark, total |-> NoMark]

\* The fields a payload gives, the row's own where it gives none.
Overlay(given) == [p \in Parts |-> IF given[p] = NoMark THEN marks[p] ELSE given[p]]

----------------------------------------------------------------------------
TypeOK ==
    /\ status \in InternalMarkStatus \cup {"NONE"}
    /\ marks \in Given
    /\ max \in Maxima \cup {NoMark}
    /\ total \in Sums \cup {NoMark}
    /\ req \in [Reqs -> Request]
    /\ raced \in BOOLEAN
    /\ valid \in SUBSET Sums

Init ==
    /\ status = "NONE"
    /\ marks = Nothing
    /\ max = NoMark
    /\ total = NoMark
    /\ req = [r \in Reqs |-> Idle]
    /\ raced = FALSE
    /\ valid = {}

----------------------------------------------------------------------------
(* Parts of the handlers.                                                  *)

Begin(r, a) ==
    /\ req[r].op = "idle"
    /\ req' = [req EXCEPT ![r] = a]
    /\ raced' = (raced \/ \E s \in Reqs \ {r} : req[s].op # "idle")
    /\ UNCHANGED <<row, valid>>

End(r) == req' = [req EXCEPT ![r] = Idle]

\* History: the total the row now has, if it could be submitted.
Remember ==
    valid' = valid \cup (IF status' = "PENDING" /\ SumOf(marks') <= max'
                         THEN {SumOf(marks')} ELSE {})

----------------------------------------------------------------------------
(* POST /internal-marks: InternalMarksService.create_or_update.  The       *)
(* payload always carries max_internal (its default is 40).                *)

CreateCheck(r, given, mx) ==
    /\ status = "NONE"
    /\ Begin(r, [Idle EXCEPT !.op = "create", !.given = given, !.max = mx])

\* The unique constraint turns away a second row: the request ends in an error.
CreateWrite(r) ==
    /\ req[r].op = "create"
    /\ \/ /\ status = "NONE"
          /\ status' = "PENDING"
          /\ marks' = req[r].given
          /\ max' = req[r].max
          /\ Remember
          /\ UNCHANGED total
       \/ /\ status # "NONE"
          /\ UNCHANGED <<row, valid>>
    /\ End(r)
    /\ UNCHANGED raced

CreateOrUpdateCheck(r, given, mx) ==
    /\ status \in InternalMarkStatus \ {"DEAN_LOCKED"}
    /\ Begin(r, [Idle EXCEPT !.op = "edit", !.given = given, !.max = mx])

\* Mutant: the LOCKED check is missing.
UpdateCheckMutant(r, given) ==
    /\ status \in InternalMarkStatus
    /\ given # Nothing
    /\ Begin(r, [Idle EXCEPT !.op = "edit", !.given = given])

\* PATCH /internal-marks/{id}: InternalMarksService.update.
UpdateCheck(r, given) ==
    /\ status \in InternalMarkStatus \ {"DEAN_LOCKED"}
    /\ given # Nothing
    /\ Begin(r, [Idle EXCEPT !.op = "edit", !.given = given])

EditWrite(r) ==
    /\ req[r].op = "edit"
    /\ marks' = Overlay(req[r].given)
    /\ max' = IF req[r].max = NoMark THEN max ELSE req[r].max
    /\ UNCHANGED <<status, total, raced>>
    /\ Remember
    /\ End(r)

----------------------------------------------------------------------------
(* The human gates.                                                        *)

\* Mutant: TOTAL_EXCEEDS_MAX is not raised.
SubmitCheckMutant(r) ==
    /\ status = "PENDING"
    /\ Begin(r, [Idle EXCEPT !.op = "submit", !.total = SumOf(marks)])

\* Gate 1: the total is computed from the row as it was read.
SubmitCheck(r) ==
    /\ status = "PENDING"
    /\ SumOf(marks) <= max
    /\ Begin(r, [Idle EXCEPT !.op = "submit", !.total = SumOf(marks)])

SubmitWrite(r) ==
    /\ req[r].op = "submit"
    /\ status' = "FACULTY_SUBMITTED"
    /\ total' = req[r].total
    /\ End(r)
    /\ UNCHANGED <<marks, max, raced, valid>>

\* Mutant: the lock writes a status of the paper instead of the marks' own.
LockWriteMutant(r) ==
    /\ req[r].op = "lock"
    /\ status' = "SEALED"
    /\ End(r)
    /\ UNCHANGED <<marks, max, total, raced, valid>>

\* Gate 2.
LockCheck(r) ==
    /\ status = "FACULTY_SUBMITTED"
    /\ Begin(r, [Idle EXCEPT !.op = "lock"])

LockWrite(r) ==
    /\ req[r].op = "lock"
    /\ status' = "DEAN_LOCKED"
    /\ End(r)
    /\ UNCHANGED <<marks, max, total, raced, valid>>

\* The API process dies or the database call fails before the COMMIT.
Abandon(r) ==
    /\ req[r].op # "idle"
    /\ End(r)
    /\ UNCHANGED <<row, raced, valid>>

----------------------------------------------------------------------------
Next ==
    \E r \in Reqs :
        \/ \E given \in Given, mx \in Maxima :
              CreateCheck(r, given, mx) \/ CreateOrUpdateCheck(r, given, mx)
        \/ \E given \in Given : UpdateCheck(r, given)
        \/ SubmitCheck(r) \/ LockCheck(r)
        \/ CreateWrite(r) \/ EditWrite(r) \/ SubmitWrite(r) \/ LockWrite(r)
        \/ Abandon(r)

Spec == Init /\ [][Next]_vars
----------------------------------------------------------------------------
(* Properties.                                                             *)

\* Whatever requests overlap or die, marks that have been submitted or locked
\* carry a total that the faculty's row really had while it was PENDING and
\* within its max_internal: a total is never torn between two edits, and the
\* Dean never locks marks that nobody submitted.
TotalWasValid ==
    status \in {"FACULTY_SUBMITTED", "DEAN_LOCKED"} => total \in valid

\* As long as no two requests overlapped, the row the Dean has locked never
\* changes again: every handler's LOCKED or INVALID_STATUS check holds.
LockedImmutable == [][row' # row => raced \/ status # "DEAN_LOCKED"]_vars

\* InternalMarksSummary and update_internal_marks document that components are
\* edited on PENDING records only and that total_internal is their sum.
LockedTotalIsSum == status = "DEAN_LOCKED" => total = SumOf(marks)
=============================================================================
