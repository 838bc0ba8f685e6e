----------------------------- MODULE Enrollment -----------------------------
(***************************************************************************)
(* The students' enrollments in the sections of Academics, and the         *)
(* semester rollover, which moves the students of a scope one by one, each *)
(* in a transaction of its own.  A student has one enrollment row; one is  *)
(* ordered before another by the semester only.  The faculty's assignments *)
(* are not read here and stay as they are.                                 *)
(***************************************************************************)
EXTENDS Academics

CONSTANT Students

VARIABLES
    enrolled,  \* the row of a student: section, and is_active
    promoted   \* history: moves of a student in the last rollover

rosterVars == <<academics, enrolled, promoted, backend>>

RosterOps == {"create_enrollment", "reenroll", "unenroll", "move", "rollover", "rollover_move"}

ASSUME RosterNames == None \notin RosterOps \cup Sections

\* The sections that a request is about to put students in.
Targets == [Students -> Sections \cup {None}]

Nowhere == [s \in Students |-> None]

RosterTypeOK ==
    /\ AcademicsTypeOK
    /\ enrolled \in [Students -> [section : Sections \cup {None}, is_active : BOOLEAN]]
    /\ promoted \in [Students -> Nat]
    /\ \A r \in Reqs : req[r].op \in RosterOps => req[r].mem \in Targets

RosterInit ==
    /\ AcademicsInit
    /\ enrolled = [s \in Students |-> [section |-> None, is_active |-> FALSE]]
    /\ promoted = [s \in Students |-> 0]

----------------------------------------------------------------------------
CheckedRow(r, op, s, section) ==
    /\ Begin(r, op, s, [Nowhere EXCEPT ![s] = section])
    /\ UNCHANGED <<academics, enrolled, promoted>>

Place(s, section, is_active) ==
    enrolled' = [enrolled EXCEPT ![s] = [section |-> section, is_active |-> is_active]]

\* The inactive row of the student, if there is one, is used again.
Enroll(r, s, section) ==
    /\ node[section] = "ACTIVE" /\ ~enrolled[s].is_active
    /\ CheckedRow(r, IF enrolled[s].section = None THEN "create_enrollment" ELSE "reenroll", s, section)

\* student_id is unique: a second row is refused.
WriteEnroll(r) ==
    LET s == req[r].on IN
    /\ req[r].op \in {"create_enrollment", "reenroll"}
    /\ \/ req[r].op = "create_enrollment" /\ enrolled[s].section # None /\ UNCHANGED enrolled
       \/ req[r].op = "create_enrollment" /\ enrolled[s].section = None /\ Place(s, req[r].mem[s], TRUE)
       \/ req[r].op = "reenroll" /\ Place(s, req[r].mem[s], TRUE)
    /\ End(r)
    /\ UNCHANGED <<academics, promoted>>

Unenroll(r, s) == enrolled[s].is_active /\ CheckedRow(r, "unenroll", s, None)

WriteUnenroll(r) ==
    /\ req[r].op = "unenroll"
    /\ Place(req[r].on, enrolled[req[r].on].section, FALSE)
    /\ End(r)
    /\ UNCHANGED <<academics, promoted>>

\* move_student: the row is active, in another section, and the target is active.
Movable(s, section) ==
    enrolled[s].is_active /\ enrolled[s].section # section /\ node[section] = "ACTIVE"

Move(r, s, section) == Movable(s, section) /\ CheckedRow(r, "move", s, section)

WriteMove(r) ==
    /\ req[r].op = "move"
    /\ Place(req[r].on, req[r].mem[req[r].on], enrolled[req[r].on].is_active)
    /\ End(r)
    /\ UNCHANGED <<academics, promoted>>

----------------------------------------------------------------------------
(* The rollover.                                                           *)

\* Mutant: nobody asks whether there is a next semester.
TargetMutant(section) == <<section[1] + 1, section[2]>>

\* The section of the same name in the next semester, if both are active.
Target(section) ==
    LET next == <<section[1] + 1, section[2]>> IN
    IF next \in Sections /\ node[<<next[1]>>] = "ACTIVE" /\ node[next] = "ACTIVE" THEN next ELSE None

\* The rows of a scope; a student without a target is blocked.
Plan(scope) ==
    [s \in Students |-> IF enrolled[s].is_active /\ enrolled[s].section[1] \in scope
                        THEN Target(enrolled[s].section) ELSE None]

\* A semester, or the whole batch.
Rollover(r) ==
    \E scope \in {Semesters} \cup {{n} : n \in Semesters} :
        /\ Plan(scope) # Nowhere
        /\ Begin(r, "rollover", None, Plan(scope))
        /\ promoted' = [s \in Students |-> 0]
        /\ UNCHANGED <<academics, enrolled>>

NextRow(r, s) ==
    /\ req[r].op = "rollover"
    /\ req[r].mem[s] # None
    /\ \A t \in Students : req[r].mem[t] # None => req[r].mem[s][1] <= req[r].mem[t][1]

RolloverRow(r, s) ==
    /\ NextRow(r, s)
    /\ Movable(s, req[r].mem[s])
    /\ req' = [req EXCEPT ![r].op = "rollover_move", ![r].on = s]
    /\ UNCHANGED <<academics, enrolled, promoted, raced, faults>>

\* An EnrollmentServiceError is recorded, and the loop goes on.
RolloverSkip(r, s) ==
    /\ NextRow(r, s)
    /\ ~Movable(s, req[r].mem[s])
    /\ req' = [req EXCEPT ![r].mem[s] = None]
    /\ UNCHANGED <<academics, enrolled, promoted, raced, faults>>

\* Mutant: after a move the rows are derived again.
RolloverMoveMutant(r) ==
    LET s == req[r].on IN
    /\ req[r].op = "rollover_move"
    /\ Place(s, req[r].mem[s], enrolled[s].is_active)
    /\ promoted' = [promoted EXCEPT ![s] = @ + 1]
    /\ req' = [req EXCEPT ![r].op = "rollover", ![r].on = None, ![r].mem[s] = Target(req[r].mem[s])]
    /\ UNCHANGED <<academics, raced, faults>>

RolloverMove(r) ==
    LET s == req[r].on IN
    /\ req[r].op = "rollover_move"
    /\ Place(s, req[r].mem[s], enrolled[s].is_active)
    /\ promoted' = [promoted EXCEPT ![s] = @ + 1]
    /\ req' = [req EXCEPT ![r].op = "rollover", ![r].on = None, ![r].mem[s] = None]
    /\ UNCHANGED <<academics, raced, faults>>

RolloverEnd(r) ==
    /\ req[r].op = "rollover" /\ req[r].mem = Nowhere
    /\ End(r)
    /\ UNCHANGED <<academics, enrolled, promoted>>

RosterRequest(r) ==
    \/ \E s \in Students, section \in Sections : Enroll(r, s, section) \/ Move(r, s, section)
    \/ \E s \in Students : Unenroll(r, s) \/ RolloverRow(r, s) \/ RolloverSkip(r, s)
    \/ WriteEnroll(r) \/ WriteUnenroll(r) \/ WriteMove(r)
    \/ Rollover(r) \/ RolloverMove(r) \/ RolloverEnd(r)
    \/ NodeRequest(r) /\ UNCHANGED <<enrolled, promoted>>

RosterNext ==
    \/ \E r \in Reqs : RosterRequest(r) /\ UNCHANGED queue
    \/ Environment /\ UNCHANGED <<academics, enrolled, promoted>>

RosterSpec == RosterInit /\ BackendInit /\ [][RosterNext]_rosterVars
----------------------------------------------------------------------------
(* Properties.                                                             *)

\* A rollover puts a student in the section of the same name one semester up,
\* once, unless requests overlapped.
PromotedOnce ==
    [][\A s \in Students :
          promoted'[s] > promoted[s] =>
              \/ raced
              \/ /\ promoted[s] = 0
                 /\ enrolled'[s].section = <<enrolled[s].section[1] + 1, enrolled[s].section[2]>>]_rosterVars
=============================================================================
