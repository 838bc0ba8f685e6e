--------------------------- MODULE MarksComponent ---------------------------
(***************************************************************************)
(* M11 internal marks (H57): the marks components of a semester, and one   *)
(* student's entry in each.  A component goes DRAFT, PUBLISHED, LOCKED,    *)
(* and a Dean can reopen a LOCKED one.  Marks may be entered until LOCKED. *)
(*                                                                         *)
(* MarksService loads the ORM object, checks it in Python and commits: an  *)
(* XxxCheck and a later XxxWrite, as in ExamPaper.  SQLAlchemy writes the  *)
(* columns the handler changed and no others.                              *)
(***************************************************************************)
EXTENDS Naturals, FiniteSets, FiniteSetsExt

CONSTANTS
    MarksReqs,  \* concurrent requests on the components
    Courses,    \* courses the student takes in the semester
    Names,      \* names a component of a course can have
    MaxMark,    \* bound: max_marks of every component and of the external marks
    MarkValues, \* bound: marks that are entered
    NoMark,     \* NULL
    NoComp

Comps == Courses \X Names

ASSUME ComponentAssumption ==
    /\ IsFiniteSet(Courses) /\ IsFiniteSet(Names)
    /\ MaxMark \in Nat \ {0} /\ MarkValues \subseteq 0..MaxMark
    /\ NoMark \notin Nat
    /\ NoComp \notin Comps

VARIABLES
    cstatus,   \* sis_marks_components.status; "NONE" is no row
    active,    \* is_active
    entry,     \* marks_obtained; no row and a row without marks count alike
    creq,      \* the requests between their check and their write
    craced,    \* history: two of them overlapped
    reopened   \* history: components that have been reopened

marksVars == <<cstatus, active, entry, creq, craced, reopened>>

----------------------------------------------------------------------------
ComponentStatus == {"DRAFT", "PUBLISHED", "LOCKED"}

Marks == MarkValues \cup {NoMark}

MarksOps == {"idle", "publish", "lock", "reopen", "delete", "enter"}

MarksRequest == [op : MarksOps, c : Comps \cup {NoComp}, seen : Marks, new : Marks]

MarksIdle == [op |-> "idle", c |-> NoComp, seen |-> NoMark, new |-> NoMark]

MarksTypeOK ==
    /\ cstatus \in [Comps -> ComponentStatus \cup {"NONE"}]
    /\ active \in [Comps -> BOOLEAN]
    /\ entry \in [Comps -> Marks]
    /\ creq \in [MarksReqs -> MarksRequest]
    /\ craced \in BOOLEAN
    /\ reopened \in SUBSET Comps

MarksInit ==
    /\ cstatus = [c \in Comps |-> "NONE"]
    /\ active = [c \in Comps |-> TRUE]
    /\ entry = [c \in Comps |-> NoMark]
    /\ creq = [r \in MarksReqs |-> MarksIdle]
    /\ craced = FALSE
    /\ reopened = {}

----------------------------------------------------------------------------
MarksBegin(r, a) ==
    /\ creq[r].op = "idle"
    /\ creq' = [creq EXCEPT ![r] = a]
    /\ craced' = (craced \/ \E s \in MarksReqs \ {r} : creq[s].op # "idle")
    /\ UNCHANGED <<cstatus, active, entry, reopened>>

MarksEnd(r) == creq' = [creq EXCEPT ![r] = MarksIdle]

\* get_component_by_id finds active rows only.
Found(c) == cstatus[c] # "NONE" /\ active[c]

On(op, c) == [MarksIdle EXCEPT !.op = op, !.c = c]

\* r commits status s for its component.
Transition(r, op, s) ==
    /\ creq[r].op = op
    /\ cstatus' = [cstatus EXCEPT ![creq[r].c] = s]
    /\ MarksEnd(r)
    /\ UNCHANGED <<active, entry, craced>>

\* create_component; the name is unique, also among deleted components.
CreateComponent(c) ==
    /\ cstatus[c] = "NONE"
    /\ cstatus' = [cstatus EXCEPT ![c] = "DRAFT"]
    /\ UNCHANGED <<active, entry, creq, craced, reopened>>

PublishComponentCheck(r, c) ==
    /\ Found(c) /\ cstatus[c] = "DRAFT"
    /\ MarksBegin(r, On("publish", c))

PublishComponentWrite(r) ==
    /\ Transition(r, "publish", "PUBLISHED")
    /\ UNCHANGED reopened

LockComponentCheck(r, c) ==
    /\ Found(c) /\ cstatus[c] = "PUBLISHED"
    /\ MarksBegin(r, On("lock", c))

LockComponentWrite(r) ==
    /\ Transition(r, "lock", "LOCKED")
    /\ UNCHANGED reopened

ReopenComponentCheck(r, c) ==
    /\ Found(c) /\ cstatus[c] = "LOCKED"
    /\ MarksBegin(r, On("reopen", c))

ReopenComponentWrite(r) ==
    /\ Transition(r, "reopen", "PUBLISHED")
    /\ reopened' = reopened \cup {creq[r].c}

DeleteComponentCheck(r, c) ==
    /\ Found(c) /\ cstatus[c] = "DRAFT"
    /\ MarksBegin(r, On("delete", c))

DeleteComponentWrite(r) ==
    /\ creq[r].op = "delete"
    /\ active' = [active EXCEPT ![creq[r].c] = FALSE]
    /\ MarksEnd(r)
    /\ UNCHANGED <<cstatus, entry, craced, reopened>>

\* Mutant: MARKS_LOCKED is not raised.
EnterMarksCheckMutant(r, c, m) ==
    /\ Found(c)
    /\ MarksBegin(r, [On("enter", c) EXCEPT !.seen = entry[c], !.new = m])

\* bulk_enter_marks, edit_single_entry, import_commit.
EnterMarksCheck(r, c, m) ==
    /\ Found(c) /\ cstatus[c] # "LOCKED"
    /\ MarksBegin(r, [On("enter", c) EXCEPT !.seen = entry[c], !.new = m])

EnterMarksWrite(r) ==
    /\ creq[r].op = "enter"
    /\ entry' = [entry EXCEPT ![creq[r].c] =
                    IF creq[r].new = creq[r].seen THEN @ ELSE creq[r].new]
    /\ MarksEnd(r)
    /\ UNCHANGED <<cstatus, active, craced, reopened>>

\* The API process dies, or the database turns the write away.
MarksAbandon(r) ==
    /\ creq[r].op # "idle"
    /\ MarksEnd(r)
    /\ UNCHANGED <<cstatus, active, entry, craced, reopened>>

MarksNext ==
    \/ \E c \in Comps : CreateComponent(c)
    \/ \E r \in MarksReqs :
          \/ \E c \in Comps :
                \/ PublishComponentCheck(r, c) \/ LockComponentCheck(r, c)
                \/ ReopenComponentCheck(r, c) \/ DeleteComponentCheck(r, c)
                \/ \E m \in Marks : EnterMarksCheck(r, c, m)
          \/ PublishComponentWrite(r) \/ LockComponentWrite(r)
          \/ ReopenComponentWrite(r) \/ DeleteComponentWrite(r)
          \/ EnterMarksWrite(r) \/ MarksAbandon(r)

MarksSpec == MarksInit /\ [][MarksNext]_marksVars

----------------------------------------------------------------------------
(* Properties.                                                             *)

\* Without overlapping requests the marks of a LOCKED component stay, and it
\* leaves that status only for PUBLISHED: a Dean has reopened it.
LockedMarksStay ==
    [][\A c \in Comps :
          cstatus[c] = "LOCKED" /\ ~craced =>
             /\ entry'[c] = entry[c] /\ active'[c] = active[c]
             /\ cstatus'[c] \in {"LOCKED", "PUBLISHED"}]_marksVars
=============================================================================
