------------------------------ MODULE Attendance ------------------------------
(***************************************************************************)
(* M11: one attendance session, its records, and the edit window, which    *)
(* runs from the first mark or from the reopening.  What a record says     *)
(* (PRESENT, ABSENT, ...), the session's topic, the shortage warnings and  *)
(* LOCKED, which nothing writes, are left out.                             *)
(***************************************************************************)
EXTENDS Backend

CONSTANTS
    Attendees,
    Window,   \* ATTENDANCE_EDIT_WINDOW_HOURS, in ticks of the clock
    MaxNow    \* bound: ticks

ASSUME AttendanceAssumption ==
    /\ Window \in Nat \ {0}
    /\ MaxNow \in Nat
    /\ None \notin Nat

VARIABLES
    session,  \* whether it exists, first_marked_at and reopened_at
    record,   \* of each student: marked_at, edited_at, and whether edit_reason is given
    now

attendance == <<session, record, now>>

attendanceVars == <<attendance, backend>>

AttendanceOps == {"create_session", "mark_attendance", "edit_record", "reopen_session"}

ASSUME AttendanceNames == None \notin AttendanceOps

Time == 0..MaxNow

\* What a request read of the session and of its records.
Seen == [first : Time \cup {None}, marked : SUBSET Attendees]

Record == [there : BOOLEAN, marked : Time \cup {None}, edited : Time \cup {None}, reason : BOOLEAN]

AttendanceTypeOK ==
    /\ session \in [there : BOOLEAN, first : Time \cup {None}, reopened : Time \cup {None}]
    /\ record \in [Attendees -> Record]
    /\ now \in Time
    /\ BackendTypeOK(AttendanceOps, {}, Attendees, {}, Seen, {})

AttendanceInit ==
    /\ session = [there |-> FALSE, first |-> None, reopened |-> None]
    /\ record = [a \in Attendees |-> [there |-> FALSE, marked |-> None, edited |-> None, reason |-> FALSE]]
    /\ now = 0

----------------------------------------------------------------------------
\* 48 hours from reopened_at, or else from the first mark.
Reference == IF session.reopened = None THEN session.first ELSE session.reopened

Editable ==
    /\ session.there
    /\ session.first # None => now < Reference + Window

LoadSession(r, op, a) ==
    /\ Begin(r, op, a, [first |-> session.first,
                        marked |-> {b \in Attendees : record[b].marked # None}])
    /\ UNCHANGED attendance

CreateSession(r) == ~session.there /\ LoadSession(r, "create_session", None)

\* A record for each student enrolled by now.
WriteSession(r) ==
    /\ req[r].op = "create_session"
    /\ \/ /\ ~session.there
          /\ session' = [session EXCEPT !.there = TRUE]
          /\ \E enrolled \in SUBSET Attendees :
                record' = [a \in Attendees |-> [record[a] EXCEPT !.there = a \in enrolled]]
       \/ session.there /\ UNCHANGED <<session, record>>
    /\ End(r)
    /\ UNCHANGED now

MarkAttendance(r) == Editable /\ LoadSession(r, "mark_attendance", None)

\* A record the request knows as marked is edited.
Saved(rec, marked, reason) ==
    IF marked THEN [rec EXCEPT !.edited = now, !.reason = reason] ELSE [rec EXCEPT !.marked = now]

\* The list may name a student twice, and students without a record; the
\* reason may be missing on the first mark only.
WriteMarks(r) ==
    /\ req[r].op = "mark_attendance"
    /\ \E listed \in SUBSET Attendees, reason \in BOOLEAN :
       \E twice \in SUBSET listed :
          LET seen == req[r].mem
              hit == {a \in listed : record[a].there} IN
          /\ reason \/ seen.first = None
          /\ record' = [a \in Attendees |->
                           IF a \notin hit THEN record[a]
                           ELSE LET once == Saved(record[a], a \in seen.marked, reason) IN
                                IF a \in twice THEN Saved(once, TRUE, reason) ELSE once]
          /\ session' = IF seen.first = None /\ hit \ seen.marked # {}
                        THEN [session EXCEPT !.first = now] ELSE session
    /\ End(r)
    /\ UNCHANGED now

EditRecord(r, a) == Editable /\ record[a].there /\ LoadSession(r, "edit_record", a)

\* Mutant: only mark_attendance starts the window.
WriteEditMutant(r) ==
    /\ req[r].op = "edit_record"
    /\ \E reason \in BOOLEAN :
          /\ reason \/ req[r].on \notin req[r].mem.marked
          /\ record' = [record EXCEPT ![req[r].on] = Saved(@, req[r].on \in req[r].mem.marked, reason)]
    /\ End(r)
    /\ UNCHANGED <<session, now>>

WriteEdit(r) ==
    /\ req[r].op = "edit_record"
    /\ \E reason \in BOOLEAN :
          /\ reason \/ req[r].on \notin req[r].mem.marked
          /\ record' = [record EXCEPT ![req[r].on] = Saved(@, req[r].on \in req[r].mem.marked, reason)]
    /\ session' = IF req[r].mem.first = None THEN [session EXCEPT !.first = now] ELSE session
    /\ End(r)
    /\ UNCHANGED now

\* Any session is reopened, one that was never marked too.
ReopenSession(r) == session.there /\ LoadSession(r, "reopen_session", None)

WriteReopen(r) ==
    /\ req[r].op = "reopen_session"
    /\ session' = [session EXCEPT !.reopened = now]
    /\ End(r)
    /\ UNCHANGED <<record, now>>

\* A request that is under way at a tick counts as overlapping with it.
Tick ==
    /\ now < MaxNow
    /\ now' = now + 1
    /\ IF \A r \in Reqs : req[r] = NoReq THEN UNCHANGED <<raced, faults>> ELSE Fault /\ raced' = TRUE
    /\ UNCHANGED <<session, record, req>>

AttendanceRequest(r) ==
    \/ CreateSession(r) \/ WriteSession(r) \/ MarkAttendance(r) \/ WriteMarks(r)
    \/ \E a \in Attendees : EditRecord(r, a)
    \/ WriteEdit(r) \/ ReopenSession(r) \/ WriteReopen(r)

AttendanceNext ==
    \/ (Tick \/ \E r \in Reqs : AttendanceRequest(r)) /\ UNCHANGED queue
    \/ Environment /\ UNCHANGED attendance

AttendanceSpec == AttendanceInit /\ BackendInit /\ [][AttendanceNext]_attendanceVars
----------------------------------------------------------------------------
(* Properties.                                                             *)

\* The window started with the first mark of a record, whoever made it, and
\* unless requests overlapped every later save fell into a window; an edit
\* without a reason is one of the request that marked the record.
SavesInWindow ==
    \A a \in Attendees :
        /\ record[a].marked # None => session.first # None
        /\ raced \/ \A t \in {record[a].marked, record[a].edited} \ {None, session.first} :
                        session.first < t /\ t < Reference + Window
        /\ raced \/ record[a].edited \in {None, record[a].marked} \/ record[a].reason
=============================================================================
