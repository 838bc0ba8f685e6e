--------------------------- MODULE StudentDirectory ---------------------------
(***************************************************************************)
(* M11: the USNs of the student directory, set one by one or by the import *)
(* of a file, which writes each row in a transaction of its own.  Of the   *)
(* other columns of a profile only this is kept, that a value may be too   *)
(* long for its column, which no check before the write looks at.  The     *)
(* directory of the faculty is left out: the same code over employee ids.  *)
(***************************************************************************)
EXTENDS Backend

CONSTANTS
    Profiles,  \* the students, by their row in the file
    Usns

ASSUME DirectoryAssumption == Profiles \subseteq Nat /\ None \notin Usns

VARIABLES
    usn,     \* of a student, or None
    report   \* history of the last import of a request: the rows it found valid, those
             \* updated, whose USN was taken, whose transaction failed; and its end

directory == <<usn, report>>

directoryVars == <<directory, backend>>

DirectoryOps == {"upsert_profile", "import", "import_row"}

ASSUME DirectoryNames == None \notin DirectoryOps

\* A file, or what is left of it: the USN in the row of a student.
File == [Profiles -> Usns \cup {None}]

NoRow == [p \in Profiles |-> None]

Report == [valid : SUBSET Profiles, updated : SUBSET Profiles, taken : SUBSET Profiles,
           failed : SUBSET Profiles, ended : BOOLEAN]

NewReport(valid) == [valid |-> valid, updated |-> {}, taken |-> {}, failed |-> {}, ended |-> FALSE]

\* The report after the row of p has failed, its USN free or not.
WithFailure(done, p, free) ==
    [valid |-> done.valid, updated |-> done.updated, failed |-> done.failed \cup {p},
     taken |-> done.taken \cup IF free THEN {} ELSE {p}, ended |-> done.ended]

DirectoryTypeOK ==
    /\ usn \in File
    /\ report \in [Reqs -> Report]
    /\ BackendTypeOK(DirectoryOps, {}, Profiles, {}, File, {})

DirectoryInit ==
    /\ usn = NoRow
    /\ report = [r \in Reqs |-> NewReport({})]

----------------------------------------------------------------------------
Free(p, u) == \A q \in Profiles \ {p} : usn[q] # u

UpsertProfile(r, p, u) ==
    /\ Free(p, u)
    /\ Begin(r, "upsert_profile", p, [NoRow EXCEPT ![p] = u])
    /\ UNCHANGED directory

\* uq_sis_student_profiles_usn refuses a USN another student has by now.
Upserted(p, u) == usn' = IF Free(p, u) THEN [usn EXCEPT ![p] = u] ELSE usn

WriteProfile(r) ==
    /\ req[r].op = "upsert_profile"
    /\ Upserted(req[r].on, req[r].mem[req[r].on])
    /\ End(r)
    /\ UNCHANGED report

----------------------------------------------------------------------------
(* The import of a file.                                                   *)

\* The valid rows: no earlier row has the USN, and no other student.
Preview(file) ==
    {p \in Profiles : /\ file[p] # None /\ Free(p, file[p])
                      /\ \A q \in Profiles : q < p => file[q] # file[p]}

Import(r) ==
    \E file \in File \ {NoRow} :
        LET valid == Preview(file) IN
        /\ Begin(r, "import", None, [p \in Profiles |-> IF p \in valid THEN file[p] ELSE None])
        /\ report' = [report EXCEPT ![r] = NewReport(valid)]
        /\ UNCHANGED usn

\* A row whose USN is another student's by now is reported, and the loop goes on.
ImportRow(r, p) ==
    /\ req[r].op = "import"
    /\ req[r].mem[p] # None
    /\ \A q \in Profiles : q < p => req[r].mem[q] = None
    /\ IF Free(p, req[r].mem[p])
       THEN /\ req' = [req EXCEPT ![r].op = "import_row", ![r].on = p]
            /\ UNCHANGED report
       ELSE /\ req' = [req EXCEPT ![r].mem[p] = None]
            /\ report' = [report EXCEPT ![r].taken = @ \cup {p}]
    /\ UNCHANGED <<usn, raced, faults>>

NextImportRow(r, rest) == req' = [req EXCEPT ![r].op = "import", ![r].on = None, ![r].mem = rest]

RowWritten(r, p) ==
    /\ Free(p, req[r].mem[p])
    /\ Upserted(p, req[r].mem[p])
    /\ report' = [report EXCEPT ![r].updated = @ \cup {p}]
    /\ NextImportRow(r, [req[r].mem EXCEPT ![p] = None])

\* Any exception is caught: a USN that another student has by now, a value too long
\* for its column, a statement that fails, or the reading back after the COMMIT.  The
\* loop goes on with a session that nobody rolls back, and so every later row fails.
RowFails(r, p) ==
    /\ UNCHANGED usn \/ Upserted(p, req[r].mem[p])
    /\ report' = [report EXCEPT ![r] = WithFailure(@, p, Free(p, req[r].mem[p]))]
    /\ NextImportRow(r, NoRow)

WriteImportRow(r) ==
    /\ req[r].op = "import_row"
    /\ RowWritten(r, req[r].on) \/ RowFails(r, req[r].on)
    /\ UNCHANGED <<raced, faults>>

ImportEnd(r) ==
    /\ req[r].op = "import" /\ req[r].mem = NoRow
    /\ report' = [report EXCEPT ![r].ended = TRUE]
    /\ End(r)
    /\ UNCHANGED usn

DirectoryRequest(r) ==
    \/ \E p \in Profiles, u \in Usns : UpsertProfile(r, p, u)
    \/ \E p \in Profiles : ImportRow(r, p)
    \/ WriteProfile(r) \/ Import(r) \/ WriteImportRow(r) \/ ImportEnd(r)

DirectoryNext ==
    \/ \E r \in Reqs : DirectoryRequest(r) /\ UNCHANGED queue
    \/ Environment /\ UNCHANGED directory

DirectorySpec == DirectoryInit /\ BackendInit /\ [][DirectoryNext]_directoryVars
----------------------------------------------------------------------------
(* Properties.                                                             *)

\* An import that ran to its end updated every row that its preview called valid, up
\* to the first row that failed in the database, and none from there on, whatever
\* requests overlapped; a row before that is left out only for a USN that another
\* student has by now, and without overlap none is, although each row is checked
\* and written after the others.
ImportComplete ==
    \A r \in Reqs : report[r].ended =>
        /\ report[r].updated = {p \in report[r].valid \ report[r].taken :
                                   \A q \in report[r].failed : p < q}
        /\ report[r].taken # {} => raced
=============================================================================
