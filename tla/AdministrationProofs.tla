------------------------ MODULE AdministrationProofs ------------------------
(***************************************************************************)
(* What holds of the administration of the platform and of a tenant for    *)
(* any number of requests, tenants, nodes, students and rows of a file.    *)
(*                                                                         *)
(* None of the properties is inductive.  A request checks in one statement *)
(* and writes in a later one, so the invariant of a component says of      *)
(* every request under way what it remembers, and, as long as no two       *)
(* requests have overlapped, that it is the only one and that what it read *)
(* is still so.  Then the write does what the check allowed.  Once raced   *)
(* is TRUE, the invariant keeps what the code promises nevertheless.       *)
(***************************************************************************)
EXTENDS MCAdministration, FiniteSetTheorems, SequenceTheorems, TLAPS

----------------------------------------------------------------------------
(* The invariants of the components.                                       *)

\* The requests of a component without tasks: their operations, the rows they
\* are on, what they remember.
Serving(O, D, X) ==
    /\ req \in [Reqs -> [op : O \cup {None}, on : D \cup {None}, mem : X \cup {None},
                         task : {None}]]
    /\ \A r \in Reqs : req[r].op = None => req[r] = NoReq
    /\ raced \in BOOLEAN /\ faults \in 0..MaxFaults
    /\ msg = [m \in Slots |-> NoMsg]
    /\ exec = [w \in Workers |-> Idle]
    /\ again = {} /\ lost = {}

\* A request between its check and its write.
Waits(r) == req[r].op # None

\* No other request is under way.
Only(r) == \A s \in Reqs \ {r} : ~Waits(s)

----------------------------------------------------------------------------
\* An active tenant has its schema and its administrator.
Provisioned(t) == tenant[t].is_active => tenant[t].migrated /\ tenant[t].admin

\* How far a request on tenant t that is not touched has got.
ProvisionedSoFar(r) ==
    req[r].on \notin touched =>
        /\ req[r].op # "migrate_again"
        /\ req[r].op \in {"seed", "activate"} => tenant[req[r].on].migrated
        /\ req[r].op = "activate" => tenant[req[r].on].admin

\* What a request read of its tenant is still so.
TenantRead(r) ==
    /\ req[r].op # "create_tenant" => req[r].mem = Row(req[r].on)
    /\ req[r].on \notin touched /\ req[r].op \in {"migrate", "seed", "activate", "provisioning_failed"}
          => tenant[req[r].on].status = "PROVISIONING"

\* The tenants, their requests, and what a request that runs alone can rely on.
TenantInv ==
    /\ tenant \in [Tenants -> [status : TenantStatus \cup {"NONE"}, is_active : BOOLEAN,
                               migrated : BOOLEAN, admin : BOOLEAN]]
    /\ touched \in SUBSET Tenants
    /\ Serving(TenantOps, Tenants, Loaded)
    /\ \A r \in Reqs : Waits(r) =>
          /\ req[r].on \in Tenants
          /\ req[r].op # "create_tenant" => req[r].mem \in Loaded /\ tenant[req[r].on].status # "NONE"
          /\ ProvisionedSoFar(r)
    /\ \A t \in Tenants : tenant[t].status = "NONE" => ~tenant[t].is_active
    /\ \A t \in Tenants \ touched : Provisioned(t)
    /\ ~raced => /\ \A t \in Tenants \ touched : tenant[t].is_active = (tenant[t].status = "ACTIVE")
                 /\ \A r \in Reqs : Waits(r) => Only(r) /\ TenantRead(r)

----------------------------------------------------------------------------
\* The rows have their types, and nothing is marked before the first mark.
AttendanceRows ==
    /\ session \in [there : BOOLEAN, first : Time \cup {None}, reopened : Time \cup {None}]
    /\ record \in [Attendees -> Record]
    /\ now \in Time
    /\ \A a \in Attendees : record[a].marked # None \/ record[a].edited # None => session.first # None

\* A tick of the clock that has come.
Past(t) == t # None => t <= now

\* A save at t was in time.
InWindow(t) == t \in {None, session.first} \/ (session.first < t /\ t < Reference + Window)

\* A record edited after it was marked has a reason.
Explained(rec) == rec.edited \in {None, rec.marked} \/ rec.reason

\* The rows, unless requests overlapped.
Timely ==
    /\ Past(session.first) /\ Past(session.reopened)
    /\ \A a \in Attendees : /\ Past(record[a].marked) /\ InWindow(record[a].marked)
                            /\ Past(record[a].edited) /\ InWindow(record[a].edited)
                            /\ Explained(record[a])

\* What a request read is still so, or more has happened since.
SessionRead(r) ==
    /\ req[r].mem \in Seen
    /\ req[r].mem.first # None => session.first # None
    /\ \A a \in req[r].mem.marked : record[a].marked # None
    /\ req[r].op = "edit_record" => req[r].on \in Attendees

\* What a save needs of the session and the records it read.
WindowRead(r) ==
    /\ req[r].mem.first = session.first
    /\ req[r].mem.marked = {b \in Attendees : record[b].marked # None}
    /\ req[r].op \in {"mark_attendance", "edit_record"} => Editable
    /\ req[r].op = "create_session" => ~session.there

\* Requests that overlap can break the window, but never the rows.
AttendanceInv ==
    /\ AttendanceRows
    /\ Serving(AttendanceOps, Attendees, Seen)
    /\ \A r \in Reqs : Waits(r) => SessionRead(r)
    /\ ~raced => /\ Timely
                 /\ \A r \in Reqs : Waits(r) => Only(r) /\ WindowRead(r)

----------------------------------------------------------------------------
\* What a request's check found of the node, or the assignments, is still so.
NodeRead(r) ==
    /\ req[r].op = "create_node" => node[Parent(req[r].on)] = "ACTIVE"
    /\ req[r].op = "deactivate" => \A c \in Children(req[r].on) : node[c] # "ACTIVE"
    /\ req[r].op = "assign" /\ req[r].mem[2] = "PRIMARY" => Primaries(req[r].on[1]) = {}

\* A request is on the kind of row that its operation is for.
Named(r) ==
    /\ req[r].op \in {"create_node", "deactivate", "reactivate"} => req[r].on \in Nodes
    /\ req[r].op = "create_node" => req[r].on # Batch
    /\ req[r].op \in {"assign", "revoke"} =>
          \E n \in Semesters : req[r].on = <<n>>
    /\ req[r].op = "assign" => req[r].mem \in Faculties \X Roles

\* HierarchySound, with what it says of a PRIMARY put without counting.
Hierarchy ==
    /\ \A n \in Nodes \ {Batch} :
          node[n] = "ACTIVE" => node[Parent(n)] = "ACTIVE" \/ n \in orphaned
    /\ \A n \in Semesters : \A f, g \in Primaries(n) : f = g

\* The nodes, their requests, and what a request that runs alone can rely on.
AcademicsInv ==
    /\ AcademicsTypeOK
    /\ Serving(AcademicsOps \cup RosterOps, Nodes \cup Students, Targets \cup (Faculties \X Roles))
    /\ \A r \in Reqs : Named(r)
    /\ ~raced => /\ Hierarchy
                 /\ \A r \in Reqs : Waits(r) => Only(r) /\ NodeRead(r)

\* A row of the plan that has not been written leads one semester up.
Up(s, r) ==
    /\ promoted[s] = 0
    /\ req[r].mem[s] = <<enrolled[s].section[1] + 1, enrolled[s].section[2]>>

\* The rows a rollover still has to write are as they were planned.
Rolling(r) ==
    req[r].op \in {"rollover", "rollover_move"} =>
        /\ \A s \in Students : req[r].mem[s] # None => Up(s, r)
        /\ req[r].op = "rollover_move" => req[r].on \in Students /\ req[r].mem[req[r].on] # None

\* The rows have their types.
RosterRows ==
    /\ enrolled \in [Students -> [section : Sections \cup {None}, is_active : BOOLEAN]]
    /\ promoted \in [Students -> Nat]

\* What a request on the roster is on, and remembers.
Rostered(r) ==
    /\ req[r].op \in RosterOps => req[r].mem \in Targets
    /\ req[r].op \in RosterOps \ {"rollover"} => req[r].on \in Students

\* The invariant of the nodes, which the roster has in itself, and that of its own rows.
RosterInv ==
    /\ AcademicsInv
    /\ RosterRows
    /\ \A r \in Reqs : Rostered(r)
    /\ ~raced => \A r \in Reqs : Rolling(r)

----------------------------------------------------------------------------
\* The rows have their types.
DirectoryRows ==
    /\ usn \in File
    /\ report \in [Reqs -> Report]

\* The rows of a file, or of what is left of it.
Rows(file) == {p \in Profiles : file[p] # None}

\* The row is the first one.
First(file, p) == \A q \in Profiles : q < p => file[q] = None

\* What an import has done, with the rest of the file before it: all its valid rows
\* come before the rest, and up to a first failure they were updated or taken.
ImportSoFar(done, rest) ==
    /\ Rows(rest) \subseteq done.valid \ done.taken
    /\ done.failed # {} => Rows(rest) = {}
    /\ done.updated = {p \in done.valid \ (done.taken \cup Rows(rest)) : \A q \in done.failed : p < q}
    /\ \A p \in done.valid \ Rows(rest), q \in Rows(rest) : p < q

\* What a request on the directory is on, and remembers.
OnProfile(r) ==
    /\ req[r].mem \in File
    /\ req[r].op \in {"upsert_profile", "import_row"} => req[r].on \in Profiles /\ req[r].mem[req[r].on] # None
    /\ req[r].op = "import_row" => First(req[r].mem, req[r].on)
    /\ req[r].op \in {"import", "import_row"} => ~report[r].ended /\ ImportSoFar(report[r], req[r].mem)

\* The rest of the file is free, one row after the other.
ImportRest(rest) ==
    /\ \A p \in Rows(rest) : Free(p, rest[p])
    /\ \A p, q \in Rows(rest) : p # q => rest[p] # rest[q]

\* An import that runs alone finds no USN taken.
ImportLeft(r) ==
    req[r].op \in {"import", "import_row"} => report[r].taken = {} /\ ImportRest(req[r].mem)

\* An import that ended has nothing left to do.
ImportEnded(r) ==
    /\ report[r].updated = {p \in report[r].valid \ report[r].taken : \A q \in report[r].failed : p < q}
    /\ report[r].taken # {} => raced

\* The USNs, the imports under way, and those that ended.
DirectoryInv ==
    /\ DirectoryRows
    /\ Serving(DirectoryOps, Profiles, File)
    /\ \A r \in Reqs : Waits(r) => OnProfile(r)
    /\ \A r \in Reqs : report[r].ended => ImportEnded(r)
    /\ ~raced => \A r \in Reqs : Waits(r) => Only(r) /\ ImportLeft(r)

----------------------------------------------------------------------------
\* Two accounts that one person could be: e and f, with identifiers i and j.
Same(e, f, i, j) == e # f /\ (e.box = f.box \/ (i = j /\ i # None))

\* What a request is about to write is new, in itself and to the table.
NewAccounts(new) ==
    /\ \A e \in DOMAIN new, f \in Existing : ~Same(e, f, new[e].identifier, account[f].identifier)
    /\ \A e, f \in DOMAIN new : ~Same(e, f, new[e].identifier, new[f].identifier)
    /\ DOMAIN new \cap Existing = {}

\* The accounts, what the commits under way are about to write, and the history.
OnboardingInv ==
    /\ account \in [Email -> [exists : BOOLEAN, identifier : Identifiers \cup {None}]]
    /\ \A e \in Email : ~account[e].exists => account[e] = NoAccount
    /\ manual \subseteq Email
    /\ Serving(AccountOps, {}, Inserts)
    /\ \A r \in Reqs : Waits(r) => req[r].mem \in Inserts
    /\ kept \in BOOLEAN /\ kept
    /\ ~raced => /\ \A e, f \in Existing :
                       Same(e, f, account[e].identifier, account[f].identifier) => {e, f} \cap manual # {}
                 /\ \A r \in Reqs : Waits(r) => Only(r) /\ NewAccounts(req[r].mem)

----------------------------------------------------------------------------
(* The requests of a component without tasks.                              *)

\* The rest of a request, and of the model, when req[r] becomes a.
Puts(r, a) == req' = [req EXCEPT ![r] = a]

\* Nobody has asked for anything yet.
LEMMA Idles ==
    ASSUME NEW O, NEW D, NEW X, BackendInit
    PROVE  Serving(O, D, X) /\ \A r \in Reqs : ~Waits(r)
<1>1. faults \in 0..MaxFaults
    BY BackendAssumption DEF BackendInit
<1>2. \A r \in Reqs : req[r] = NoReq /\ req[r].op = None
    BY DEF BackendInit, NoReq
<1>3. req \in [Reqs -> [op : O \cup {None}, on : D \cup {None}, mem : X \cup {None}, task : {None}]]
    BY DEF BackendInit, NoReq
<1> QED
    BY <1>1, <1>2, <1>3 DEF Serving, Waits, BackendInit

\* A request that starts, goes on or ends with a record of its component.
LEMMA ServesOn ==
    ASSUME NEW O, NEW D, NEW X, Serving(O, D, X), NEW r \in Reqs, NEW a, Puts(r, a),
           \/ a = NoReq
           \/ /\ a \in [op : O, on : D \cup {None}, mem : X \cup {None}, task : {None}]
              /\ None \notin O,
           raced' \in BOOLEAN, faults' \in 0..MaxFaults, UNCHANGED queue
    PROVE  /\ Serving(O, D, X)'
           /\ req'[r] = a /\ \A s \in Reqs \ {r} : req'[s] = req[s]
<1>1. a \in [op : O \cup {None}, on : D \cup {None}, mem : X \cup {None}, task : {None}]
    BY DEF NoReq
<1>2. a.op = None => a = NoReq
    OBVIOUS
<1>3. req'[r] = a /\ \A s \in Reqs \ {r} : req'[s] = req[s]
    BY DEF Puts, Serving
<1>4. req' \in [Reqs -> [op : O \cup {None}, on : D \cup {None}, mem : X \cup {None}, task : {None}]]
    BY <1>1 DEF Puts, Serving
<1>5. \A s \in Reqs : req'[s].op = None => req'[s] = NoReq
    BY <1>2, <1>3 DEF Serving
<1> QED
    BY <1>3, <1>4, <1>5 DEF Serving, queue

\* The request that Begin makes, and whether it is alone.
LEMMA Begins ==
    ASSUME NEW O, NEW D, NEW X, Serving(O, D, X), "publish" \notin O, None \notin O,
           NEW r \in Reqs, NEW op \in O, NEW on \in D \cup {None}, NEW mem \in X \cup {None},
           Begin(r, op, on, mem), UNCHANGED queue
    PROVE  /\ Serving(O, D, X)'
           /\ req'[r].op = op /\ req'[r].on = on /\ req'[r].mem = mem
           /\ \A s \in Reqs \ {r} : req'[s] = req[s]
           /\ ~Waits(r)
           /\ ~raced' => ~raced /\ Only(r)
<1> DEFINE a == [NoReq EXCEPT !.op = op, !.on = on, !.mem = mem]
<1>1. /\ a \in [op : O, on : D \cup {None}, mem : X \cup {None}, task : {None}]
      /\ a.op = op /\ a.on = on /\ a.mem = mem
    BY DEF NoReq
<1>2. Puts(r, a) /\ req[r] = NoReq
    BY DEF Begin, Puts
<1>3. raced \in BOOLEAN /\ faults \in 0..MaxFaults /\ MaxFaults \in Nat
    BY BackendAssumption DEF Serving
<1>a. ASSUME \E s \in Reqs \ {r} : req[s].op \notin {None, "publish"}
      PROVE  raced' = TRUE /\ faults' \in 0..MaxFaults
    <2>1. faults < MaxFaults /\ faults' = faults + 1 /\ raced' = TRUE
      BY <1>a DEF Begin, Fault
    <2> QED
      BY <1>3, <2>1
<1>b. ASSUME \A s \in Reqs \ {r} : req[s].op \in {None, "publish"}
      PROVE  raced' = raced /\ faults' \in 0..MaxFaults
    <2>1. raced' = raced /\ faults' = faults
      BY <1>b, Zenon DEF Begin
    <2> QED
      BY <1>3, <1>b, <2>1
<1>4. /\ raced' \in BOOLEAN /\ faults' \in 0..MaxFaults
      /\ \/ raced' = TRUE
         \/ /\ raced' = raced
            /\ \A s \in Reqs \ {r} : req[s].op \in {None, "publish"}
    BY <1>a, <1>b, <1>3
<1>5. \A s \in Reqs : req[s].op # "publish"
    BY BackendAssumption DEF Serving
<1> HIDE DEF a
<1>6. /\ Serving(O, D, X)'
      /\ req'[r] = a /\ \A s \in Reqs \ {r} : req'[s] = req[s]
    BY <1>1, <1>2, <1>4, ServesOn
<1>7. ~Waits(r)
    BY <1>2 DEF Waits, NoReq
<1> QED
    BY <1>1, <1>4, <1>5, <1>6, <1>7 DEF Only, Waits

\* A request that ends.
LEMMA Ends ==
    ASSUME NEW O, NEW D, NEW X, Serving(O, D, X), NEW r \in Reqs, End(r), UNCHANGED queue
    PROVE  /\ Serving(O, D, X)' /\ raced' = raced
           /\ req'[r] = NoReq /\ \A s \in Reqs \ {r} : req'[s] = req[s]
<1>1. Puts(r, NoReq) /\ UNCHANGED <<raced, faults>>
    BY DEF End, Puts
<1> QED
    BY <1>1, ServesOn DEF Serving

\* A request that goes on with another operation.
Onward(op, on, mem) == [op |-> op, on |-> on, mem |-> mem, task |-> None]

\* A request that goes on is on record with its new operation.
LEMMA Proceeds ==
    ASSUME NEW O, NEW D, NEW X, Serving(O, D, X), None \notin O, NEW r \in Reqs,
           NEW op \in O, NEW on \in D \cup {None}, NEW mem \in X \cup {None},
           Puts(r, Onward(op, on, mem)),
           UNCHANGED raced, faults' \in 0..MaxFaults, UNCHANGED queue
    PROVE  /\ Serving(O, D, X)'
           /\ req'[r].op = op /\ req'[r].on = on /\ req'[r].mem = mem
           /\ \A s \in Reqs \ {r} : req'[s] = req[s]
<1>1. Onward(op, on, mem) \in [op : O, on : D \cup {None}, mem : X \cup {None}, task : {None}]
      /\ Onward(op, on, mem).op = op /\ Onward(op, on, mem).on = on /\ Onward(op, on, mem).mem = mem
    BY DEF Onward
<1>2. raced' \in BOOLEAN
    BY DEF Serving
<1>3. Serving(O, D, X)' /\ req'[r] = Onward(op, on, mem) /\ \A s \in Reqs \ {r} : req'[s] = req[s]
    BY <1>1, <1>2, ServesOn
<1> QED
    BY <1>1, <1>3

\* Two of its columns are assigned.
LEMMA GoesOn ==
    ASSUME NEW O, NEW D, NEW X, Serving(O, D, X), NEW r \in Reqs, NEW op, NEW mem,
           req' = [req EXCEPT ![r].op = op, ![r].mem = mem]
    PROVE  Puts(r, Onward(op, req[r].on, mem))
<1>1. req[r] \in [op : O \cup {None}, on : D \cup {None}, mem : X \cup {None}, task : {None}]
    BY DEF Serving
<1> DEFINE b == [req[r] EXCEPT !.op = op]
<1>2. b = [op |-> op, on |-> req[r].on, mem |-> req[r].mem, task |-> None]
    <2>1. req[r].task = None
      BY <1>1
    <2> QED
      BY <1>1, <2>1
<1>3. [b EXCEPT !.mem = mem] = Onward(op, req[r].on, mem)
    <2> HIDE DEF b
    <2> QED
      BY <1>2 DEF Onward
<1>4. req' = [req EXCEPT ![r] = [b EXCEPT !.mem = mem]]
    BY DEF Serving
<1> QED
    BY <1>3, <1>4 DEF Puts

\* Without tasks the environment only ends a request.
LEMMA Abandons ==
    ASSUME NEW O, NEW D, NEW X, Serving(O, D, X), "publish" \notin O, Environment
    PROVE  /\ Serving(O, D, X)' /\ raced' = raced
           /\ \E r \in Reqs : req'[r] = NoReq /\ \A s \in Reqs \ {r} : req'[s] = req[s]
<1>1. \A r \in Reqs : req[r].op # "publish"
    BY BackendAssumption DEF Serving
<1>2. \A w \in Workers : exec[w] = Idle
    BY DEF Serving
<1>3. \A m \in Slots : msg[m].at \notin Workers
    <2>1. \A m \in Slots : msg[m].at = "none"
      BY DEF Serving, NoMsg
    <2> QED
      BY <2>1, BackendAssumption
<1>4. PICK r \in Reqs : Abandon(r)
    BY <1>1, <1>2, <1>3 DEF Environment, Publish, WorkerCrash, ProcessLost, Redeliver
<1>5. Puts(r, NoReq) /\ UNCHANGED <<raced, queue>>
    BY <1>1, <1>4 DEF Abandon, Puts, queue
<1>6. faults' \in 0..MaxFaults
    BY <1>4, BackendAssumption DEF Abandon, Fault, Serving
<1>7. raced' \in BOOLEAN
    BY <1>5 DEF Serving
<1> QED
    BY <1>5, <1>6, <1>7, ServesOn

\* A component's rows stay while nothing of it changes.
LEMMA Stutters ==
    ASSUME NEW O, NEW D, NEW X, Serving(O, D, X), UNCHANGED backend
    PROVE  Serving(O, D, X)'
BY DEF Serving, backend, queue

----------------------------------------------------------------------------
(* Tenants.                                                                *)

\* A tenant as the table holds it.
TenantRow == [status : TenantStatus \cup {"NONE"}, is_active : BOOLEAN, migrated : BOOLEAN, admin : BOOLEAN]

\* What a request on a tenant may be while it waits.
OnTenant(r) ==
    /\ req[r].on \in Tenants
    /\ req[r].op # "create_tenant" => req[r].mem \in Loaded /\ tenant[req[r].on].status # "NONE"
    /\ ProvisionedSoFar(r)

\* No tenant is there yet.
LEMMA TenantIdle ==
    TenantInit => TenantInv
<1> SUFFICES ASSUME TenantInit PROVE TenantInv
    OBVIOUS
<1>1. tenant \in [Tenants -> TenantRow] /\ \A t \in Tenants : tenant[t] = NoTenant
    BY DEF TenantInit, NoTenant, TenantRow
<1>2. \A t \in Tenants : Provisioned(t) /\ ~tenant[t].is_active /\ tenant[t].status = "NONE"
    BY <1>1 DEF Provisioned, NoTenant
<1>3. Serving(TenantOps, Tenants, Loaded) /\ \A r \in Reqs : ~Waits(r)
    BY Idles DEF TenantInit
<1> QED
    BY <1>1, <1>2, <1>3 DEF TenantInv, TenantInit, TenantRow

\* The write of a request that ends: the columns it flushes.
LEMMA Flushes ==
    ASSUME tenant \in [Tenants -> TenantRow], NEW t \in Tenants, NEW seen \in Loaded, NEW new \in Loaded,
           tenant' = Flushed(t, seen, new)
    PROVE  /\ tenant' \in [Tenants -> TenantRow]
           /\ \A u \in Tenants \ {t} : tenant'[u] = tenant[u]
           /\ tenant'[t].migrated = tenant[t].migrated /\ tenant'[t].admin = tenant[t].admin
           /\ tenant'[t].status \in {tenant[t].status, new.status}
           /\ tenant'[t].is_active = tenant[t].is_active \/ tenant'[t].is_active = new.is_active
           /\ new.is_active = seen.is_active => tenant'[t].is_active = tenant[t].is_active
           /\ seen = Row(t) => tenant'[t].status = new.status /\ tenant'[t].is_active = new.is_active
<1> DEFINE s == IF new.status = seen.status THEN tenant[t].status ELSE new.status
           a == IF new.is_active = seen.is_active THEN tenant[t].is_active ELSE new.is_active
<1>1. tenant[t] \in TenantRow /\ s \in TenantStatus \cup {"NONE"} /\ a \in BOOLEAN
    BY DEF TenantRow, Loaded
<1>2. tenant' = [[tenant EXCEPT ![t].status = s] EXCEPT ![t].is_active = a]
    BY DEF Flushed
<1>3. tenant'[t] = [status |-> s, is_active |-> a, migrated |-> tenant[t].migrated, admin |-> tenant[t].admin]
      /\ tenant' = [u \in Tenants |-> IF u = t THEN tenant'[t] ELSE tenant[u]]
    BY <1>1, <1>2 DEF TenantRow
<1>4. s \in {tenant[t].status, new.status} /\ (a = tenant[t].is_active \/ a = new.is_active)
      /\ (new.is_active = seen.is_active => a = tenant[t].is_active)
      /\ (seen = Row(t) => s = new.status /\ a = new.is_active)
    BY DEF Row
<1> HIDE DEF s, a
<1> QED
    BY <1>1, <1>2, <1>3, <1>4 DEF TenantRow

\* A request that has only checked.
LEMMA TenantBegins ==
    ASSUME TenantInv, NEW r \in Reqs, NEW t \in Tenants, NEW op \in TenantOps,
           op \notin {"migrate", "migrate_again", "seed", "activate", "provisioning_failed"},
           NEW mem, mem = IF op = "create_tenant" THEN None ELSE Row(t),
           op # "create_tenant" => tenant[t].status # "NONE",
           Begin(r, op, t, mem), UNCHANGED <<tenant, touched, queue>>
    PROVE  TenantInv'
<1>1. mem \in Loaded \cup {None} /\ (op # "create_tenant" => mem \in Loaded)
    <2>1. tenant[t] \in TenantRow
      BY DEF TenantInv, TenantRow
    <2> QED
      BY <2>1 DEF Row, Loaded, TenantRow
<1>2. Serving(TenantOps, Tenants, Loaded) /\ "publish" \notin TenantOps /\ None \notin TenantOps
    BY TenantNames DEF TenantInv, TenantOps
<1>3. /\ Serving(TenantOps, Tenants, Loaded)'
      /\ req'[r].op = op /\ req'[r].on = t /\ req'[r].mem = mem
      /\ \A s \in Reqs \ {r} : req'[s] = req[s]
      /\ ~Waits(r)
      /\ ~raced' => ~raced /\ Only(r)
    BY <1>1, <1>2, Begins
<1>4. \A s \in Reqs : Waits(s)' => OnTenant(s)'
    <2> SUFFICES ASSUME NEW s \in Reqs, Waits(s)' PROVE OnTenant(s)'
      OBVIOUS
    <2>1. CASE s = r
      BY <1>1, <1>3, <2>1 DEF OnTenant, ProvisionedSoFar
    <2>2. CASE s # r
      BY <1>3, <2>2 DEF OnTenant, ProvisionedSoFar, Waits, TenantInv
    <2> QED
      BY <2>1, <2>2
<1>5. ~raced' => \A s \in Reqs : Waits(s)' => Only(s)' /\ TenantRead(s)'
    <2> SUFFICES ASSUME ~raced', NEW s \in Reqs, Waits(s)' PROVE Only(s)' /\ TenantRead(s)'
      OBVIOUS
    <2>1. s = r
      BY <1>3 DEF Only, Waits
    <2>2. Only(r)'
      BY <1>3 DEF Only, Waits
    <2>3. TenantRead(r)'
      BY <1>3 DEF TenantRead, Row
    <2> QED
      BY <2>1, <2>2, <2>3
<1> QED
    BY <1>3, <1>4, <1>5 DEF TenantInv, OnTenant, Provisioned

\* What a transaction of a request on t does to the tenants.
Grows(t) ==
    /\ tenant' \in [Tenants -> TenantRow]
    /\ touched' \in {touched, touched \cup {t}}
    /\ \A u \in Tenants \ {t} : tenant'[u] = tenant[u]
    /\ tenant[t].migrated => tenant'[t].migrated
    /\ tenant[t].admin => tenant'[t].admin
    /\ tenant'[t].status # "NONE"
    /\ t \notin touched' =>
          /\ Provisioned(t)'
          /\ ~raced => tenant'[t].is_active = (tenant'[t].status = "ACTIVE")

\* The rows after it, and the other requests.
LEMMA TenantGrows ==
    ASSUME TenantInv, NEW t \in Tenants, Grows(t), raced' = raced
    PROVE  /\ touched' \in SUBSET Tenants
           /\ \A u \in Tenants : tenant'[u].status = "NONE" => ~tenant'[u].is_active
           /\ \A u \in Tenants \ touched' :
                 /\ Provisioned(u)'
                 /\ ~raced' => tenant'[u].is_active = (tenant'[u].status = "ACTIVE")
           /\ \A s \in Reqs : Waits(s) /\ req'[s] = req[s] => OnTenant(s)'
<1>1. touched' \in SUBSET Tenants
    BY DEF TenantInv, Grows
<1>2. \A u \in Tenants : tenant'[u].status = "NONE" => ~tenant'[u].is_active
    BY DEF TenantInv, Grows
<1>3. ASSUME NEW u \in Tenants \ touched'
      PROVE  /\ Provisioned(u)'
             /\ ~raced' => tenant'[u].is_active = (tenant'[u].status = "ACTIVE")
    <2>1. CASE u = t
      BY <2>1, <1>3 DEF Grows
    <2>2. CASE u # t
      <3>1. u \in Tenants \ touched /\ tenant'[u] = tenant[u]
        BY <2>2, <1>3 DEF Grows
      <3> QED
        BY <3>1 DEF TenantInv, Provisioned
    <2> QED
      BY <2>1, <2>2
<1>4. ASSUME NEW s \in Reqs, Waits(s), req'[s] = req[s]
      PROVE  OnTenant(s)'
    <2>1. OnTenant(s)
      BY <1>4 DEF TenantInv, OnTenant
    <2>2. CASE req[s].on = t
      BY <1>4, <2>1, <2>2 DEF OnTenant, ProvisionedSoFar, Grows
    <2>3. CASE req[s].on # t
      BY <1>4, <2>1, <2>3 DEF OnTenant, ProvisionedSoFar, Grows
    <2> QED
      BY <2>2, <2>3
<1> QED
    BY <1>1, <1>2, <1>3, <1>4

\* A request that ends with a write.
LEMMA TenantEnds ==
    ASSUME TenantInv, NEW r \in Reqs, Waits(r), End(r), UNCHANGED queue, NEW t \in Tenants, t = req[r].on, Grows(t)
    PROVE  TenantInv'
<1>1. Serving(TenantOps, Tenants, Loaded)
    BY DEF TenantInv
<1>2. /\ Serving(TenantOps, Tenants, Loaded)' /\ raced' = raced
      /\ req'[r] = NoReq /\ \A s \in Reqs \ {r} : req'[s] = req[s]
    BY <1>1, Ends
<1>3. \A s \in Reqs : Waits(s)' => s # r /\ Waits(s) /\ req'[s] = req[s]
    BY <1>2 DEF Waits, NoReq
<1>4. ~raced' => \A s \in Reqs : ~Waits(s)'
    BY <1>2, <1>3 DEF TenantInv, Only
<1>5. tenant' \in [Tenants -> TenantRow]
    BY DEF Grows
<1> QED
    BY <1>1, <1>2, <1>3, <1>4, <1>5, TenantGrows DEF TenantInv, OnTenant, TenantRow

\* A request that goes on with another transaction.
LEMMA TenantProceeds ==
    ASSUME TenantInv, NEW r \in Reqs, Waits(r), NEW op \in TenantOps \ {"create_tenant"}, NEW seen \in Loaded,
           Puts(r, Onward(op, req[r].on, seen)),
           raced' = raced, faults' \in 0..MaxFaults, UNCHANGED queue,
           NEW t, t = req[r].on, Grows(t),
           t \notin touched' =>
               /\ op # "migrate_again"
               /\ op \in {"seed", "activate"} => tenant'[t].migrated
               /\ op = "activate" => tenant'[t].admin,
           ~raced => /\ seen = Row(t)'
                     /\ t \notin touched' /\ op \in {"migrate", "seed", "activate", "provisioning_failed"}
                           => tenant'[t].status = "PROVISIONING"
    PROVE  TenantInv'
<1>1. Serving(TenantOps, Tenants, Loaded) /\ None \notin TenantOps /\ t \in Tenants
    BY TenantNames DEF TenantInv
<1>2. Puts(r, Onward(op, t, seen))
    OBVIOUS
<1>3. /\ Serving(TenantOps, Tenants, Loaded)'
      /\ req'[r].op = op /\ req'[r].on = t /\ req'[r].mem = seen
      /\ \A s \in Reqs \ {r} : req'[s] = req[s]
    <2>1. op \in TenantOps /\ t \in Tenants \cup {None} /\ seen \in Loaded \cup {None}
      BY <1>1
    <2> QED
      BY <1>1, <1>2, <2>1, Proceeds
<1>4. /\ touched' \in SUBSET Tenants
      /\ \A u \in Tenants : tenant'[u].status = "NONE" => ~tenant'[u].is_active
      /\ \A u \in Tenants \ touched' :
                 /\ Provisioned(u)'
                 /\ ~raced' => tenant'[u].is_active = (tenant'[u].status = "ACTIVE")
      /\ \A s \in Reqs : Waits(s) /\ req'[s] = req[s] => OnTenant(s)'
    BY <1>1, TenantGrows
<1>5. \A s \in Reqs : Waits(s)' => OnTenant(s)'
    <2>1. OnTenant(r)'
      BY <1>1, <1>3 DEF OnTenant, ProvisionedSoFar, Grows
    <2> QED
      BY <2>1, <1>3, <1>4 DEF Waits
<1>6. ~raced' => \A s \in Reqs : Waits(s)' => Only(s)' /\ TenantRead(s)'
    <2> SUFFICES ASSUME ~raced', NEW s \in Reqs, Waits(s)' PROVE Only(s)' /\ TenantRead(s)'
      OBVIOUS
    <2>1. Only(r)
      BY DEF TenantInv
    <2>2. s = r /\ Only(r)'
      BY <1>3, <2>1 DEF Only, Waits
    <2>3. TenantRead(r)'
      BY <1>3 DEF TenantRead
    <2> QED
      BY <2>2, <2>3
<1>7. tenant' \in [Tenants -> TenantRow]
    BY DEF Grows
<1> QED
    BY <1>3, <1>4, <1>5, <1>6, <1>7 DEF TenantInv, OnTenant, TenantRow

\* The requests that have only checked.
LEMMA TenantChecks ==
    ASSUME TenantInv, NEW r \in Reqs, NEW t \in Tenants, UNCHANGED queue,
           \/ CreateTenant(r, t) \/ RetryProvisioning(r, t) \/ PatchTenant(r, t)
           \/ DeleteTenant(r, t) \/ RestoreTenant(r, t) \/ PermanentlyDeleteTenant(r, t)
    PROVE  TenantInv'
<1>1. PICK op \in TenantOps \ {"migrate", "migrate_again", "seed", "activate", "provisioning_failed"} :
          /\ op # "create_tenant" => tenant[t].status # "NONE"
          /\ Begin(r, op, t, IF op = "create_tenant" THEN None ELSE Row(t))
          /\ UNCHANGED <<tenant, touched>>
    <2>1. CASE CreateTenant(r, t)
      BY <2>1 DEF CreateTenant, TenantOps
    <2>2. CASE RetryProvisioning(r, t)
      BY <2>2 DEF RetryProvisioning, TenantOps
    <2>3. CASE PatchTenant(r, t)
      BY <2>3 DEF PatchTenant, TenantOps
    <2>4. CASE DeleteTenant(r, t)
      BY <2>4 DEF DeleteTenant, TenantOps
    <2>5. CASE RestoreTenant(r, t)
      BY <2>5 DEF RestoreTenant, TenantOps
    <2>6. CASE PermanentlyDeleteTenant(r, t)
      BY <2>6 DEF PermanentlyDeleteTenant, TenantOps
    <2> QED
      BY <2>1, <2>2, <2>3, <2>4, <2>5, <2>6
<1> DEFINE mem == IF op = "create_tenant" THEN None ELSE Row(t)
<1>2. op \in TenantOps /\ op \notin {"migrate", "migrate_again", "seed", "activate", "provisioning_failed"}
    BY <1>1
<1>3. Begin(r, op, t, mem) /\ UNCHANGED <<tenant, touched, queue>>
    BY <1>1
<1>4. mem = IF op = "create_tenant" THEN None ELSE Row(t)
    OBVIOUS
<1> HIDE DEF mem
<1> QED
    BY <1>1, <1>2, <1>3, <1>4, TenantBegins

\* The facts of a request that is under way.
LEMMA TenantWaits ==
    ASSUME TenantInv, NEW r \in Reqs, req[r].op \in TenantOps
    PROVE  /\ Waits(r) /\ OnTenant(r) /\ tenant[req[r].on] \in TenantRow
           /\ tenant \in [Tenants -> TenantRow] /\ Serving(TenantOps, Tenants, Loaded)
           /\ raced \in BOOLEAN /\ faults \in 0..MaxFaults
           /\ req[r].on \notin touched => Provisioned(req[r].on)
           /\ ~raced => TenantRead(r)
           /\ ~raced /\ req[r].on \notin touched
                 => tenant[req[r].on].is_active = (tenant[req[r].on].status = "ACTIVE")
<1>1. Waits(r)
    BY TenantNames DEF Waits
<1>2. tenant \in [Tenants -> TenantRow] /\ Serving(TenantOps, Tenants, Loaded)
    BY DEF TenantInv, TenantRow
<1>3. OnTenant(r)
    BY <1>1 DEF TenantInv, OnTenant
<1> QED
    BY <1>1, <1>2, <1>3 DEF TenantInv, OnTenant, Serving

\* Activation, failure, PATCH and the changes of status write what the session changed.
LEMMA TenantFlushes ==
    ASSUME TenantInv, NEW r \in Reqs, UNCHANGED queue,
           Activate(r) \/ WriteFailed(r) \/ WritePatch(r) \/ WriteStatus(r)
    PROVE  TenantInv'
<1>0. PICK t : t = req[r].on
    OBVIOUS
<1>1. PICK new : /\ tenant' = Flushed(t, req[r].mem, new)
                 /\ req[r].op \in TenantOps \ {"create_tenant"} /\ End(r)
                 /\ new \in Loaded
                 /\ \/ UNCHANGED touched /\ ~new.is_active /\ new.status # "ACTIVE"
                    \/ UNCHANGED touched /\ req[r].op = "activate" /\ new.status = "ACTIVE" /\ new.is_active
                    \/ /\ UNCHANGED touched /\ req[r].op = "provisioning_failed"
                       /\ new.is_active = req[r].mem.is_active /\ new.status = "FAILED"
                    \/ touched' = touched \cup {t}
    <2>1. CASE Activate(r)
      <3> DEFINE n == [status |-> "ACTIVE", is_active |-> TRUE]
      <3>1. n \in Loaded /\ n.status = "ACTIVE" /\ n.is_active
        BY DEF Loaded, TenantStatus
      <3>2. tenant' = Flushed(t, req[r].mem, n) /\ End(r) /\ UNCHANGED touched /\ req[r].op = "activate"
        BY <1>0, <2>1 DEF Activate
      <3>3. req[r].op \in TenantOps \ {"create_tenant"}
        BY <3>2 DEF TenantOps
      <3> HIDE DEF n
      <3> QED
        BY <3>1, <3>2, <3>3
    <2>2. CASE WriteFailed(r)
      <3>1. req[r].op = "provisioning_failed" /\ req[r].op \in TenantOps \ {"create_tenant"}
        BY <2>2 DEF WriteFailed, TenantOps
      <3>2. req[r].mem \in Loaded
        BY <3>1, TenantWaits DEF OnTenant
      <3>3. [req[r].mem EXCEPT !.status = "FAILED"] \in Loaded
            /\ [req[r].mem EXCEPT !.status = "FAILED"].is_active = req[r].mem.is_active
            /\ [req[r].mem EXCEPT !.status = "FAILED"].status = "FAILED"
        BY <3>2 DEF Loaded, TenantStatus
      <3> QED
        BY <1>0, <2>2, <3>1, <3>3 DEF WriteFailed
    <2>3. CASE WritePatch(r)
      <3>1. req[r].op = "patch" /\ req[r].op \in TenantOps \ {"create_tenant"}
        BY <2>3 DEF WritePatch, TenantOps
      <3>2. req[r].mem \in Loaded
        BY <3>1, TenantWaits DEF OnTenant
      <3>3. [req[r].mem EXCEPT !.is_active = TRUE] \in Loaded
        BY <3>2 DEF Loaded
      <3>4. \A s \in {"ACTIVE", "INACTIVE", "ARCHIVED"} : [status |-> s, is_active |-> s = "ACTIVE"] \in Loaded
        BY DEF Loaded, TenantStatus
      <3>5. \E new \in Loaded : tenant' = Flushed(t, req[r].mem, new)
        BY <1>0, <2>3, <3>3, <3>4 DEF WritePatch
      <3> QED
        BY <1>0, <2>3, <3>1, <3>5 DEF WritePatch
    <2>4. CASE WriteStatus(r)
      <3>1. req[r].op \in {"delete", "restore", "delete_permanently"}
        BY <2>4 DEF WriteStatus, StatusAfter
      <3>2. req[r].op \in TenantOps \ {"create_tenant"}
        BY <3>1 DEF TenantOps
      <3>3. StatusAfter[req[r].op] \in TenantStatus \ {"ACTIVE"}
        BY <3>1 DEF StatusAfter, TenantStatus
      <3>4. [status |-> StatusAfter[req[r].op], is_active |-> FALSE] \in Loaded
        BY <3>3 DEF Loaded
      <3> QED
        BY <1>0, <2>4, <3>2, <3>3, <3>4 DEF WriteStatus
    <2> QED
      BY <2>1, <2>2, <2>3, <2>4
<1>2. /\ Waits(r) /\ OnTenant(r) /\ tenant[t] \in TenantRow
      /\ tenant \in [Tenants -> TenantRow]
      /\ t \notin touched => Provisioned(t)
      /\ ~raced => TenantRead(r)
      /\ ~raced /\ t \notin touched => tenant[t].is_active = (tenant[t].status = "ACTIVE")
    BY <1>0, <1>1, TenantWaits
<1>3. /\ t \in Tenants /\ req[r].mem \in Loaded /\ tenant[t].status # "NONE"
      /\ ~raced => req[r].mem = Row(t)
    BY <1>0, <1>1, <1>2 DEF OnTenant, TenantRead
<1>4. /\ tenant' \in [Tenants -> TenantRow]
      /\ \A u \in Tenants \ {t} : tenant'[u] = tenant[u]
      /\ tenant'[t].migrated = tenant[t].migrated /\ tenant'[t].admin = tenant[t].admin
      /\ tenant'[t].status \in {tenant[t].status, new.status}
      /\ tenant'[t].is_active = tenant[t].is_active \/ tenant'[t].is_active = new.is_active
      /\ new.is_active = req[r].mem.is_active => tenant'[t].is_active = tenant[t].is_active
      /\ req[r].mem = Row(t) => tenant'[t].status = new.status /\ tenant'[t].is_active = new.is_active
    BY <1>1, <1>2, <1>3, Flushes
<1>5. new.status # "NONE"
    BY <1>1 DEF Loaded, TenantStatus
<1>b. /\ tenant[t].migrated \in BOOLEAN /\ tenant[t].admin \in BOOLEAN
      /\ tenant'[t].migrated \in BOOLEAN /\ tenant'[t].admin \in BOOLEAN
      /\ new.is_active \in BOOLEAN /\ tenant[t].is_active \in BOOLEAN /\ tenant'[t].is_active \in BOOLEAN
    BY <1>1, <1>2, <1>3, <1>4 DEF Loaded, TenantRow
<1>6. t \notin touched' => Provisioned(t)'
    <2> SUFFICES ASSUME t \notin touched', tenant'[t].is_active
                 PROVE  tenant[t].migrated /\ tenant[t].admin
      <3>1. /\ tenant'[t].migrated = tenant[t].migrated /\ tenant'[t].admin = tenant[t].admin
            /\ tenant'[t].is_active \in BOOLEAN
        BY <1>4, <1>b
      <3> QED
        BY <3>1 DEF Provisioned
    <2>0. t \notin touched
      BY <1>1
    <2>1. Provisioned(t) /\ ProvisionedSoFar(r)
      BY <1>0, <1>2, <2>0 DEF OnTenant
    <2>2. CASE tenant[t].is_active
      BY <2>1, <2>2 DEF Provisioned
    <2>3. CASE ~tenant[t].is_active
      <3>1. req[r].op = "activate"
        BY <1>1, <1>4, <1>b, <2>3
      <3> QED
        BY <1>0, <2>0, <2>1, <3>1 DEF ProvisionedSoFar
    <2> QED
      BY <2>2, <2>3
<1>7. t \notin touched' /\ ~raced => tenant'[t].is_active = (tenant'[t].status = "ACTIVE")
    <2> SUFFICES ASSUME t \notin touched', ~raced
                 PROVE  tenant'[t].is_active = (tenant'[t].status = "ACTIVE")
      OBVIOUS
    <2>1. tenant'[t].status = new.status /\ tenant'[t].is_active = new.is_active /\ t \notin touched
      BY <1>1, <1>3, <1>4
    <2>2. CASE ~new.is_active /\ new.status # "ACTIVE"
      BY <2>1, <2>2, <1>b
    <2>3. CASE req[r].op = "activate" /\ new.status = "ACTIVE" /\ new.is_active
      BY <2>1, <2>3, <1>b
    <2>4. CASE req[r].op = "provisioning_failed" /\ new.is_active = req[r].mem.is_active /\ new.status = "FAILED"
      <3>1. tenant[t].status = "PROVISIONING"
        BY <1>0, <1>2, <2>1, <2>4 DEF TenantRead
      <3>2. ~tenant[t].is_active
        BY <1>2, <2>1, <1>b, <3>1
      <3>3. tenant'[t].is_active = tenant[t].is_active
        BY <1>4, <2>4
      <3> QED
        BY <2>1, <2>4, <1>b, <3>2, <3>3
    <2> QED
      BY <1>1, <2>2, <2>3, <2>4
<1>8. Grows(t)
    BY <1>1, <1>3, <1>4, <1>5, <1>6, <1>7 DEF Grows
<1> QED
    BY <1>0, <1>1, <1>2, <1>3, <1>8, TenantEnds

\* The request that creates the row, or finds the slug taken.
LEMMA TenantWrites ==
    ASSUME TenantInv, NEW r \in Reqs, UNCHANGED queue, WriteTenant(r)
    PROVE  TenantInv'
<1>1. PICK t : t = req[r].on
    OBVIOUS
<1>2. req[r].op = "create_tenant" /\ req[r].op \in TenantOps /\ "migrate" \in TenantOps \ {"create_tenant"}
    BY DEF WriteTenant, TenantOps
<1>3. /\ Waits(r) /\ OnTenant(r) /\ tenant[t] \in TenantRow /\ t \in Tenants
      /\ tenant \in [Tenants -> TenantRow] /\ Serving(TenantOps, Tenants, Loaded)
      /\ faults \in 0..MaxFaults
      /\ t \notin touched => Provisioned(t)
      /\ ~raced /\ t \notin touched => tenant[t].is_active = (tenant[t].status = "ACTIVE")
    BY <1>1, <1>2, TenantWaits DEF OnTenant
<1>4. CASE tenant[t].status = "NONE"
    <2> DEFINE seen == [status |-> "PROVISIONING", is_active |-> FALSE]
    <2>1. seen \in Loaded
      BY DEF Loaded, TenantStatus
    <2>2. /\ tenant' = [tenant EXCEPT ![t].status = "PROVISIONING"]
          /\ Proceed(r, "migrate", seen) /\ UNCHANGED touched
      BY <1>1, <1>4 DEF WriteTenant
    <2>3. ~tenant[t].is_active /\ tenant[t].is_active \in BOOLEAN
      BY <1>3, <1>4 DEF TenantInv, TenantRow
    <2>4. /\ tenant' \in [Tenants -> TenantRow]
          /\ tenant'[t].status = "PROVISIONING" /\ tenant'[t].is_active = tenant[t].is_active
          /\ tenant'[t].migrated = tenant[t].migrated /\ tenant'[t].admin = tenant[t].admin
          /\ \A u \in Tenants \ {t} : tenant'[u] = tenant[u]
      BY <1>3, <2>2 DEF TenantRow, TenantStatus
    <2>5. Provisioned(t)'
      BY <2>3, <2>4 DEF Provisioned
    <2>6. Grows(t)
      BY <2>2, <2>3, <2>4, <2>5 DEF Grows
    <2>7. Puts(r, Onward("migrate", req[r].on, seen)) /\ UNCHANGED raced /\ faults' \in 0..MaxFaults
      BY <1>3, <2>2, GoesOn DEF Proceed
    <2>8. seen = Row(t)'
      BY <2>3, <2>4 DEF Row
    <2> HIDE DEF seen
    <2> QED
      BY <1>1, <1>2, <1>3, <2>1, <2>4, <2>6, <2>7, <2>8, TenantProceeds
<1>5. CASE tenant[t].status # "NONE"
    <2>1. End(r) /\ UNCHANGED <<tenant, touched>>
      BY <1>1, <1>5 DEF WriteTenant
    <2>2. Grows(t)
      BY <1>3, <1>5, <2>1 DEF Grows, Provisioned
    <2> QED
      BY <1>1, <1>3, <2>1, <2>2, TenantEnds
<1> QED
    BY <1>4, <1>5

\* A retry that goes on: its tenant counts as touched from here.
LEMMA TenantRetries ==
    ASSUME TenantInv, NEW r \in Reqs, UNCHANGED queue, WriteRetry(r)
    PROVE  TenantInv'
<1>1. PICK t : t = req[r].on
    OBVIOUS
<1>2. req[r].op = "retry" /\ req[r].op \in TenantOps /\ "migrate_again" \in TenantOps \ {"create_tenant"}
    BY DEF WriteRetry, TenantOps
<1>3. /\ Waits(r) /\ OnTenant(r) /\ tenant[t] \in TenantRow /\ t \in Tenants
      /\ tenant \in [Tenants -> TenantRow] /\ Serving(TenantOps, Tenants, Loaded)
      /\ faults \in 0..MaxFaults
      /\ ~raced => TenantRead(r)
    BY <1>1, <1>2, TenantWaits DEF OnTenant
<1>4. req[r].mem \in Loaded /\ tenant[t].status # "NONE" /\ (~raced => req[r].mem = Row(t))
    BY <1>1, <1>2, <1>3 DEF OnTenant, TenantRead
<1>5. PICK new : new = [req[r].mem EXCEPT !.status = "PROVISIONING"]
    OBVIOUS
<1>6. new \in Loaded /\ new.is_active = req[r].mem.is_active /\ new.status = "PROVISIONING"
      /\ new = [status |-> new.status, is_active |-> new.is_active]
    BY <1>4, <1>5 DEF Loaded, TenantStatus
<1>7. tenant' = Flushed(t, req[r].mem, new) /\ touched' = touched \cup {t} /\ Proceed(r, "migrate_again", new)
    BY <1>1, <1>5 DEF WriteRetry
<1>8. /\ tenant' \in [Tenants -> TenantRow]
      /\ \A u \in Tenants \ {t} : tenant'[u] = tenant[u]
      /\ tenant'[t].migrated = tenant[t].migrated /\ tenant'[t].admin = tenant[t].admin
      /\ tenant'[t].status \in {tenant[t].status, new.status}
      /\ req[r].mem = Row(t) => tenant'[t].status = new.status /\ tenant'[t].is_active = new.is_active
    BY <1>3, <1>4, <1>6, <1>7, Flushes
<1>9. Grows(t)
    BY <1>4, <1>6, <1>7, <1>8 DEF Grows
<1>10. Puts(r, Onward("migrate_again", req[r].on, new)) /\ UNCHANGED raced /\ faults' \in 0..MaxFaults
    BY <1>3, <1>7, GoesOn DEF Proceed
<1>11. ~raced => new = Row(t)'
    BY <1>4, <1>6, <1>8 DEF Row
<1> QED
    BY <1>1, <1>2, <1>3, <1>6, <1>7, <1>9, <1>10, <1>11, TenantProceeds

\* The migrations, and the administrator.
LEMMA TenantPrepares ==
    ASSUME TenantInv, NEW r \in Reqs, UNCHANGED queue, Migrate(r) \/ SeedAdmin(r)
    PROVE  TenantInv'
<1>1. PICK t : t = req[r].on
    OBVIOUS
<1>2. req[r].op \in {"migrate", "migrate_again", "seed"} /\ req[r].op \in TenantOps \ {"create_tenant"}
    BY DEF Migrate, SeedAdmin, TenantOps
<1>3. /\ Waits(r) /\ OnTenant(r) /\ tenant[t] \in TenantRow /\ t \in Tenants
      /\ tenant \in [Tenants -> TenantRow] /\ Serving(TenantOps, Tenants, Loaded)
      /\ faults \in 0..MaxFaults
      /\ t \notin touched => Provisioned(t)
      /\ ~raced => TenantRead(r)
      /\ ~raced /\ t \notin touched => tenant[t].is_active = (tenant[t].status = "ACTIVE")
    BY <1>1, <1>2, TenantWaits DEF OnTenant
<1>4. /\ req[r].mem \in Loaded /\ tenant[t].status # "NONE" /\ (~raced => req[r].mem = Row(t))
      /\ tenant[t].migrated \in BOOLEAN /\ tenant[t].admin \in BOOLEAN
    BY <1>1, <1>2, <1>3 DEF OnTenant, TenantRead, TenantRow
<1>5. PICK op \in TenantOps \ {"create_tenant"} :
         /\ op = IF req[r].op = "migrate" THEN "seed" ELSE "activate"
         /\ Proceed(r, op, req[r].mem) /\ UNCHANGED touched
    <2>1. {"seed", "activate"} \subseteq TenantOps \ {"create_tenant"}
      BY DEF TenantOps
    <2> QED
      BY <2>1 DEF Migrate, SeedAdmin
<1>6. /\ tenant' \in [Tenants -> TenantRow]
      /\ \A u \in Tenants \ {t} : tenant'[u] = tenant[u]
      /\ tenant'[t].status = tenant[t].status /\ tenant'[t].is_active = tenant[t].is_active
      /\ IF req[r].op = "seed" THEN tenant'[t].admin /\ tenant'[t].migrated = tenant[t].migrated
                               ELSE tenant'[t].migrated /\ tenant'[t].admin = tenant[t].admin
    <2>1. CASE Migrate(r)
      BY <1>1, <1>3, <2>1 DEF Migrate, TenantRow
    <2>2. CASE SeedAdmin(r)
      BY <1>1, <1>3, <2>2 DEF SeedAdmin, TenantRow
    <2> QED
      BY <2>1, <2>2
<1>7. Provisioned(t) => Provisioned(t)'
    BY <1>4, <1>6 DEF Provisioned
<1>8. Grows(t)
    BY <1>3, <1>4, <1>5, <1>6, <1>7 DEF Grows
<1>9. Puts(r, Onward(op, req[r].on, req[r].mem)) /\ UNCHANGED raced /\ faults' \in 0..MaxFaults
    BY <1>3, <1>5, GoesOn DEF Proceed
<1>10. t \notin touched' => /\ op # "migrate_again" /\ (op \in {"seed", "activate"} => tenant'[t].migrated)
                            /\ (op = "activate" => tenant'[t].admin)
    BY <1>1, <1>2, <1>3, <1>4, <1>5, <1>6 DEF OnTenant, ProvisionedSoFar
<1>11. ~raced => /\ req[r].mem = Row(t)'
                 /\ t \notin touched' => tenant'[t].status = "PROVISIONING"
    <2> SUFFICES ASSUME ~raced
                 PROVE  /\ req[r].mem = Row(t)'
                        /\ t \notin touched' => tenant'[t].status = "PROVISIONING"
      OBVIOUS
    <2>1. req[r].mem = Row(t)'
      BY <1>4, <1>6 DEF Row
    <2>2. ASSUME t \notin touched' PROVE tenant'[t].status = "PROVISIONING"
      <3>1. t \notin touched
        BY <1>5, <2>2
      <3>2. req[r].op # "migrate_again"
        BY <1>1, <1>3, <3>1 DEF OnTenant, ProvisionedSoFar
      <3>3. tenant[t].status = "PROVISIONING"
        BY <1>1, <1>2, <1>3, <3>1, <3>2 DEF TenantRead
      <3> QED
        BY <1>6, <3>3
    <2> QED
      BY <2>1, <2>2
<1> QED
    BY <1>1, <1>2, <1>3, <1>4, <1>8, <1>9, <1>10, <1>11, TenantProceeds

\* One of the transactions raises.
LEMMA TenantFails ==
    ASSUME TenantInv, NEW r \in Reqs, UNCHANGED queue, FailProvisioning(r)
    PROVE  TenantInv'
<1>1. PICK t : t = req[r].on
    OBVIOUS
<1>2. /\ req[r].op \in {"migrate", "migrate_again", "seed", "activate"}
      /\ req[r].op \in TenantOps \ {"create_tenant"}
      /\ "provisioning_failed" \in TenantOps \ {"create_tenant"}
    BY DEF FailProvisioning, TenantOps
<1>3. /\ Waits(r) /\ OnTenant(r) /\ tenant[t] \in TenantRow /\ t \in Tenants
      /\ tenant \in [Tenants -> TenantRow] /\ Serving(TenantOps, Tenants, Loaded)
      /\ faults \in 0..MaxFaults
      /\ t \notin touched => Provisioned(t)
      /\ ~raced => TenantRead(r)
      /\ ~raced /\ t \notin touched => tenant[t].is_active = (tenant[t].status = "ACTIVE")
    BY <1>1, <1>2, TenantWaits DEF OnTenant
<1>4. req[r].mem \in Loaded /\ tenant[t].status # "NONE" /\ (~raced => req[r].mem = Row(t))
    BY <1>1, <1>2, <1>3 DEF OnTenant, TenantRead
<1>5. UNCHANGED <<tenant, touched, raced>> /\ faults < MaxFaults /\ faults' = faults + 1
    BY DEF FailProvisioning, Fault
<1>6. Provisioned(t) => Provisioned(t)'
    BY <1>5 DEF Provisioned
<1>7. Grows(t)
    BY <1>3, <1>4, <1>5, <1>6 DEF Grows
<1>8. Puts(r, Onward("provisioning_failed", req[r].on, req[r].mem))
    <2>1. req[r] \in [op : TenantOps \cup {None}, on : Tenants \cup {None}, mem : Loaded \cup {None}, task : {None}]
      BY <1>3 DEF Serving
    <2>2. [req[r] EXCEPT !.op = "provisioning_failed"] = Onward("provisioning_failed", req[r].on, req[r].mem)
      BY <2>1 DEF Onward
    <2>3. req' = [req EXCEPT ![r] = [req[r] EXCEPT !.op = "provisioning_failed"]]
      BY <1>3 DEF FailProvisioning, Serving
    <2> QED
      BY <2>2, <2>3 DEF Puts
<1>9. faults' \in 0..MaxFaults
    BY <1>3, <1>5, BackendAssumption
<1>10. ~raced => /\ req[r].mem = Row(t)'
                 /\ t \notin touched' => tenant'[t].status = "PROVISIONING"
    <2>1. ~raced => req[r].mem = Row(t)'
      BY <1>4, <1>5 DEF Row
    <2>2. ASSUME ~raced, t \notin touched' PROVE tenant'[t].status = "PROVISIONING"
      <3>1. t \notin touched
        BY <1>5, <2>2
      <3>2. req[r].op # "migrate_again"
        BY <1>1, <1>3, <3>1 DEF OnTenant, ProvisionedSoFar
      <3>3. tenant[t].status = "PROVISIONING"
        BY <1>1, <1>2, <1>3, <2>2, <3>1, <3>2 DEF TenantRead
      <3> QED
        BY <1>5, <3>3
    <2> QED
      BY <2>1, <2>2
<1> QED
    BY <1>1, <1>2, <1>3, <1>4, <1>5, <1>7, <1>8, <1>9, <1>10, TenantProceeds

\* The environment ends a request, and leaves the rows.
LEMMA TenantEnvironment ==
    ASSUME TenantInv, Environment, UNCHANGED <<tenant, touched>>
    PROVE  TenantInv'
<1>1. Serving(TenantOps, Tenants, Loaded) /\ "publish" \notin TenantOps
    BY DEF TenantInv, TenantOps
<1>2. /\ Serving(TenantOps, Tenants, Loaded)' /\ raced' = raced
      /\ \E r \in Reqs : req'[r] = NoReq /\ \A s \in Reqs \ {r} : req'[s] = req[s]
    BY <1>1, Abandons
<1>3. \A s \in Reqs : Waits(s)' => Waits(s) /\ req'[s] = req[s]
    BY <1>2 DEF Waits, NoReq
<1>4. \A s \in Reqs : Waits(s)' => OnTenant(s)'
    BY <1>3 DEF TenantInv, OnTenant, ProvisionedSoFar
<1>5. ~raced' => \A s \in Reqs : Waits(s)' => Only(s)' /\ TenantRead(s)'
    BY <1>2, <1>3 DEF TenantInv, Only, TenantRead, Row
<1> QED
    BY <1>2, <1>4, <1>5 DEF TenantInv, OnTenant, Provisioned

\* Every step of the tenants keeps their invariant.
LEMMA TenantSteps ==
    ASSUME TenantInv, TenantNext
    PROVE  TenantInv'
<1>1. ASSUME NEW r \in Reqs, UNCHANGED queue, TenantRequest(r)
      PROVE  TenantInv'
    BY <1>1, TenantChecks, TenantWrites, TenantRetries, TenantPrepares, TenantFails, TenantFlushes
       DEF TenantRequest
<1> QED
    BY <1>1, TenantEnvironment DEF TenantNext

\* The invariant is as strong as TenantUsable.
LEMMA TenantSafe ==
    TenantInv => TenantUsable
BY DEF TenantInv, TenantUsable, Provisioned

----------------------------------------------------------------------------
(* Attendance.                                                             *)

\* No class has been held yet.
LEMMA AttendanceIdle ==
    AttendanceInit /\ BackendInit => AttendanceInv
<1> SUFFICES ASSUME AttendanceInit, BackendInit PROVE AttendanceInv
    OBVIOUS
<1>1. Serving(AttendanceOps, Attendees, Seen) /\ \A r \in Reqs : ~Waits(r)
    BY Idles
<1>2. now = 0 /\ 0 \in Time
    BY AttendanceAssumption DEF AttendanceInit, Time
<1>3. session \in [there : BOOLEAN, first : Time \cup {None}, reopened : Time \cup {None}]
      /\ session.first = None /\ session.reopened = None
    BY DEF AttendanceInit
<1>4. record \in [Attendees -> Record]
      /\ \A a \in Attendees : record[a].marked = None /\ record[a].edited = None
    BY DEF AttendanceInit, Record
<1>5. AttendanceRows
    BY <1>2, <1>3, <1>4 DEF AttendanceRows
<1>6. Timely
    BY <1>3, <1>4 DEF Timely, Past, InWindow, Explained
<1> QED
    BY <1>1, <1>5, <1>6 DEF AttendanceInv

\* A request that has loaded the session.
LEMMA AttendanceBegins ==
    ASSUME AttendanceInv, NEW r \in Reqs, NEW op \in AttendanceOps, NEW a \in Attendees \cup {None},
           op = "edit_record" => a \in Attendees,
           op \in {"mark_attendance", "edit_record"} => Editable,
           op = "create_session" => ~session.there,
           LoadSession(r, op, a), UNCHANGED queue
    PROVE  AttendanceInv'
<1> DEFINE seen == [first |-> session.first, marked |-> {b \in Attendees : record[b].marked # None}]
<1>1. seen \in Seen /\ seen.first = session.first /\ seen.marked = {b \in Attendees : record[b].marked # None}
    BY DEF AttendanceInv, AttendanceRows, Seen
<1>2. Begin(r, op, a, seen) /\ UNCHANGED attendance
    BY DEF LoadSession
<1> HIDE DEF seen
<1>3. Serving(AttendanceOps, Attendees, Seen) /\ "publish" \notin AttendanceOps /\ None \notin AttendanceOps
    BY AttendanceNames DEF AttendanceInv, AttendanceOps
<1>4. /\ Serving(AttendanceOps, Attendees, Seen)'
      /\ req'[r].op = op /\ req'[r].on = a /\ req'[r].mem = seen
      /\ \A s \in Reqs \ {r} : req'[s] = req[s]
      /\ ~Waits(r)
      /\ ~raced' => ~raced /\ Only(r)
    BY <1>1, <1>2, <1>3, Begins
<1>5. UNCHANGED <<session, record, now>>
    BY <1>2 DEF attendance
<1>6. AttendanceRows'
    BY <1>5 DEF AttendanceInv, AttendanceRows
<1>7. \A s \in Reqs : Waits(s)' => SessionRead(s)'
    <2>1. SessionRead(r)'
      BY <1>1, <1>4, <1>5 DEF SessionRead
    <2>2. ASSUME NEW s \in Reqs \ {r}, Waits(s)' PROVE SessionRead(s)'
      BY <1>4, <1>5, <2>2 DEF SessionRead, Waits, AttendanceInv
    <2> QED
      BY <2>1, <2>2
<1>8. Timely => Timely'
    BY <1>5 DEF Timely, Past, InWindow, Explained, Reference
<1>9. ~raced' => \A s \in Reqs : Waits(s)' => Only(s)' /\ WindowRead(s)'
    <2> SUFFICES ASSUME ~raced', NEW s \in Reqs, Waits(s)' PROVE Only(s)' /\ WindowRead(s)'
      OBVIOUS
    <2>1. s = r /\ Only(r)'
      BY <1>4 DEF Only, Waits
    <2>2. WindowRead(r)'
      BY <1>1, <1>4, <1>5 DEF WindowRead, Editable, Reference
    <2> QED
      BY <2>1, <2>2
<1> QED
    BY <1>4, <1>6, <1>7, <1>8, <1>9 DEF AttendanceInv

\* A request that ends with a write: what was marked stays marked.
LEMMA AttendanceEnds ==
    ASSUME AttendanceInv, NEW r \in Reqs, Waits(r), End(r), UNCHANGED queue, AttendanceRows',
           session.first # None => session'.first # None,
           \A a \in Attendees : record[a].marked # None => record'[a].marked # None,
           ~raced => Timely'
    PROVE  AttendanceInv'
<1>1. Serving(AttendanceOps, Attendees, Seen)
    BY DEF AttendanceInv
<1>2. /\ Serving(AttendanceOps, Attendees, Seen)' /\ raced' = raced
      /\ req'[r] = NoReq /\ \A s \in Reqs \ {r} : req'[s] = req[s]
    BY <1>1, Ends
<1>3. \A s \in Reqs : Waits(s)' => s # r /\ Waits(s) /\ req'[s] = req[s]
    BY <1>2 DEF Waits, NoReq
<1>4. \A s \in Reqs : Waits(s)' => SessionRead(s)'
    <2> SUFFICES ASSUME NEW s \in Reqs, Waits(s)' PROVE SessionRead(s)'
      OBVIOUS
    <2>1. SessionRead(s) /\ req'[s] = req[s]
      BY <1>3 DEF AttendanceInv
    <2>2. req[s].mem.marked \subseteq Attendees
      BY <2>1 DEF SessionRead, Seen
    <2> QED
      BY <2>1, <2>2 DEF SessionRead
<1>5. ~raced' => \A s \in Reqs : ~Waits(s)'
    BY <1>2, <1>3 DEF AttendanceInv, Only
<1> QED
    BY <1>2, <1>4, <1>5 DEF AttendanceInv

\* The facts of a request that is under way.
LEMMA AttendanceWaits ==
    ASSUME AttendanceInv, NEW r \in Reqs, req[r].op \in AttendanceOps
    PROVE  /\ Waits(r) /\ SessionRead(r) /\ AttendanceRows
           /\ ~raced => Timely /\ WindowRead(r)
BY AttendanceNames DEF AttendanceInv, Waits

\* The checks, and what they read.
LEMMA AttendanceChecks ==
    ASSUME AttendanceInv, NEW r \in Reqs, UNCHANGED queue,
           CreateSession(r) \/ MarkAttendance(r) \/ ReopenSession(r) \/ \E a \in Attendees : EditRecord(r, a)
    PROVE  AttendanceInv'
<1>1. CASE CreateSession(r)
    BY <1>1, AttendanceBegins DEF CreateSession, AttendanceOps
<1>2. CASE MarkAttendance(r)
    BY <1>2, AttendanceBegins DEF MarkAttendance, AttendanceOps
<1>3. CASE ReopenSession(r)
    BY <1>3, AttendanceBegins DEF ReopenSession, AttendanceOps
<1>4. CASE \E a \in Attendees : EditRecord(r, a)
    BY <1>4, AttendanceBegins DEF EditRecord, AttendanceOps
<1> QED
    BY <1>1, <1>2, <1>3, <1>4

\* The records of a new session.
LEMMA AttendanceCreates ==
    ASSUME AttendanceInv, NEW r \in Reqs, UNCHANGED queue, WriteSession(r)
    PROVE  AttendanceInv'
<1>1. req[r].op \in AttendanceOps /\ End(r) /\ now' = now
    BY DEF WriteSession, AttendanceOps
<1>2. Waits(r) /\ AttendanceRows /\ (~raced => Timely)
    BY <1>1, AttendanceWaits
<1>3. /\ session' \in [there : BOOLEAN, first : Time \cup {None}, reopened : Time \cup {None}]
      /\ session'.first = session.first /\ session'.reopened = session.reopened
    BY <1>2 DEF WriteSession, AttendanceRows
<1>4. /\ record' \in [Attendees -> Record]
      /\ \A a \in Attendees : /\ record'[a].marked = record[a].marked /\ record'[a].edited = record[a].edited
                              /\ record'[a].reason = record[a].reason
    <2>1. CASE UNCHANGED record
      BY <1>2, <2>1 DEF AttendanceRows
    <2>2. ASSUME NEW present \in SUBSET Attendees,
                 record' = [a \in Attendees |-> [record[a] EXCEPT !.there = a \in present]]
          PROVE  /\ record' \in [Attendees -> Record]
                 /\ \A a \in Attendees : /\ record'[a].marked = record[a].marked
                                         /\ record'[a].edited = record[a].edited
                                         /\ record'[a].reason = record[a].reason
      <3>1. ASSUME NEW a \in Attendees, NEW there \in BOOLEAN
            PROVE  LET rec == [record[a] EXCEPT !.there = there] IN
                   /\ rec \in Record /\ rec.marked = record[a].marked
                   /\ rec.edited = record[a].edited /\ rec.reason = record[a].reason
        BY <1>2 DEF AttendanceRows, Record
      <3>2. \A a \in Attendees : (a \in present) \in BOOLEAN
        OBVIOUS
      <3>3. \A a \in Attendees : record'[a] = [record[a] EXCEPT !.there = a \in present]
        BY <2>2
      <3>4. \A a \in Attendees : LET rec == [record[a] EXCEPT !.there = a \in present] IN
                   /\ rec \in Record /\ rec.marked = record[a].marked
                   /\ rec.edited = record[a].edited /\ rec.reason = record[a].reason
        BY <3>1, <3>2
      <3>5. \A a \in Attendees :
                   /\ record'[a] \in Record /\ record'[a].marked = record[a].marked
                   /\ record'[a].edited = record[a].edited /\ record'[a].reason = record[a].reason
        BY <3>3, <3>4, Zenon
      <3> QED
        BY <2>2, <3>5
    <2> QED
      BY <2>1, <2>2 DEF WriteSession
<1>5. AttendanceRows'
    BY <1>1, <1>2, <1>3, <1>4 DEF AttendanceRows
<1>6. Timely => Timely'
    BY <1>1, <1>3, <1>4 DEF Timely, Past, InWindow, Explained, Reference
<1> QED
    BY <1>1, <1>2, <1>3, <1>4, <1>5, <1>6, AttendanceEnds

\* The first save of a record.
LEMMA MarksRecord ==
    ASSUME NEW rec \in Record, NEW reason \in BOOLEAN, now \in Time
    PROVE  /\ Saved(rec, FALSE, reason) \in Record
           /\ Saved(rec, FALSE, reason).marked = now
           /\ Saved(rec, FALSE, reason).edited = rec.edited
           /\ Saved(rec, FALSE, reason).reason = rec.reason
BY DEF Saved, Record

\* Every later one.
LEMMA EditsRecord ==
    ASSUME NEW rec \in Record, NEW reason \in BOOLEAN, now \in Time
    PROVE  /\ Saved(rec, TRUE, reason) \in Record
           /\ Saved(rec, TRUE, reason).marked = rec.marked
           /\ Saved(rec, TRUE, reason).edited = now
           /\ Saved(rec, TRUE, reason).reason = reason
BY DEF Saved, Record

\* What a save does to the record of a student.
Touched(a) ==
    /\ record'[a].marked \in {record[a].marked, now} /\ record'[a].edited \in {record[a].edited, now}
    /\ record[a].marked # None => record'[a].marked # None
    /\ ~raced => Explained(record'[a])
    /\ session'.first # None

\* A save, which may start the window.
LEMMA AttendanceSaves ==
    ASSUME AttendanceInv, NEW r \in Reqs, Waits(r), End(r), UNCHANGED queue, now' = now,
           record' \in [Attendees -> Record],
           \A a \in Attendees : record'[a] = record[a] \/ Touched(a),
           session' = session \/ (session' = [session EXCEPT !.first = now] /\ (raced \/ session.first = None)),
           ~raced => Editable
    PROVE  AttendanceInv'
<1>1. /\ session \in [there : BOOLEAN, first : Time \cup {None}, reopened : Time \cup {None}]
      /\ record \in [Attendees -> Record] /\ now \in Time
      /\ \A a \in Attendees : record[a].marked # None \/ record[a].edited # None => session.first # None
      /\ None \notin Time
    BY AttendanceAssumption DEF AttendanceInv, AttendanceRows, Time
<1>2. /\ session' \in [there : BOOLEAN, first : Time \cup {None}, reopened : Time \cup {None}]
      /\ session'.reopened = session.reopened
      /\ session'.first = session.first \/ (session'.first = now /\ (raced \/ session.first = None))
    BY <1>1
<1>3. session.first # None => session'.first # None
    BY <1>1, <1>2
<1>4. \A a \in Attendees : record'[a].marked # None \/ record'[a].edited # None => session'.first # None
    BY <1>1, <1>3 DEF Touched
<1>5. AttendanceRows'
    BY <1>1, <1>2, <1>4 DEF AttendanceRows
<1>6. \A a \in Attendees : record[a].marked # None => record'[a].marked # None
    BY DEF Touched
<1>7. ASSUME ~raced PROVE Timely'
    <2>1. Timely /\ Editable
      BY <1>7 DEF AttendanceInv
    <2>2. Past(session.first)' /\ Past(session.reopened)'
      <3>1. now <= now
        BY <1>1, AttendanceAssumption DEF Time
      <3> QED
        BY <1>2, <2>1, <3>1 DEF Timely, Past
    <2>3. CASE session.first = None
      <3>1. ASSUME NEW a \in Attendees
            PROVE  /\ Past(record[a].marked)' /\ InWindow(record[a].marked)'
                   /\ Past(record[a].edited)' /\ InWindow(record[a].edited)'
                   /\ Explained(record[a])'
        <4>1. record[a].marked = None /\ record[a].edited = None
          BY <1>1, <2>3
        <4>2. /\ record'[a].marked \in {None, now} /\ record'[a].edited \in {None, now}
              /\ Explained(record'[a])
              /\ session'.first = now \/ (record'[a].marked = None /\ record'[a].edited = None)
          <5>1. CASE record'[a] = record[a]
            BY <2>1, <4>1, <5>1 DEF Timely
          <5>2. CASE Touched(a)
            <6>1. /\ record'[a].marked \in {record[a].marked, now} /\ record'[a].edited \in {record[a].edited, now}
                  /\ Explained(record'[a]) /\ session'.first # None
              BY <1>7, <5>2 DEF Touched
            <6>2. session'.first = now
              BY <1>2, <2>3, <6>1
            <6> QED
              BY <4>1, <6>1, <6>2
          <5> QED
            BY <5>1, <5>2
        <4>3. now <= now
          BY <1>1 DEF Time
        <4> QED
          BY <4>2, <4>3 DEF Past, InWindow, Explained
      <3> QED
        BY <2>2, <3>1 DEF Timely
    <2>4. CASE session.first # None
      <3>1. session'.first = session.first /\ Reference' = Reference
        BY <1>2, <1>7, <2>4 DEF Reference
      <3>2. InWindow(now)
        <4>1. session.first <= now /\ now < Reference + Window
          BY <2>1, <2>4 DEF Timely, Past, Editable
        <4> QED
          BY <1>1, <2>4, <4>1 DEF InWindow, Time
      <3>3. Past(now)
        BY <1>1 DEF Past, Time
      <3>4. ASSUME NEW a \in Attendees
            PROVE  /\ Past(record[a].marked)' /\ InWindow(record[a].marked)'
                   /\ Past(record[a].edited)' /\ InWindow(record[a].edited)'
                   /\ Explained(record[a])'
        <4>1. /\ Past(record'[a].marked) /\ InWindow(record'[a].marked)
              /\ Past(record'[a].edited) /\ InWindow(record'[a].edited)
              /\ Explained(record'[a])
          <5>1. CASE record'[a] = record[a]
            BY <2>1, <5>1 DEF Timely
          <5>2. CASE Touched(a)
            <6>1. record'[a].marked \in {record[a].marked, now} /\ record'[a].edited \in {record[a].edited, now}
                  /\ Explained(record'[a])
              BY <1>7, <5>2 DEF Touched
            <6> QED
              BY <2>1, <3>2, <3>3, <6>1 DEF Timely
          <5> QED
            BY <5>1, <5>2
        <4> QED
          BY <3>1, <4>1 DEF Past, InWindow, Explained
      <3> QED
        BY <2>2, <3>4 DEF Timely
    <2> QED
      BY <2>3, <2>4
<1> QED
    BY <1>3, <1>5, <1>6, <1>7, AttendanceEnds

\* The marks of a class.
LEMMA AttendanceMarks ==
    ASSUME AttendanceInv, NEW r \in Reqs, UNCHANGED queue, WriteMarks(r)
    PROVE  AttendanceInv'
<1>1. req[r].op = "mark_attendance" /\ req[r].op \in AttendanceOps /\ End(r) /\ now' = now
    BY DEF WriteMarks, AttendanceOps
<1>2. Waits(r) /\ SessionRead(r) /\ AttendanceRows /\ (~raced => Timely /\ WindowRead(r))
    BY <1>1, AttendanceWaits
<1>3. record \in [Attendees -> Record] /\ now \in Time /\ None \notin Time
    BY <1>2, AttendanceAssumption DEF AttendanceRows, Time
<1>4. PICK seen : seen = req[r].mem
    OBVIOUS
<1>5. PICK reason \in BOOLEAN, twice \in SUBSET Attendees, hit \in SUBSET Attendees :
         /\ reason \/ seen.first = None
         /\ record' = [a \in Attendees |->
                          IF a \notin hit THEN record[a]
                          ELSE LET once == Saved(record[a], a \in seen.marked, reason) IN
                               IF a \in twice THEN Saved(once, TRUE, reason) ELSE once]
         /\ session' = IF seen.first = None /\ hit \ seen.marked # {}
                       THEN [session EXCEPT !.first = now] ELSE session
    <2>1. PICK listed \in SUBSET Attendees, reason \in BOOLEAN : \E twice \in SUBSET listed :
             LET hit == {a \in listed : record[a].there} IN
             /\ reason \/ seen.first = None
             /\ record' = [a \in Attendees |->
                              IF a \notin hit THEN record[a]
                              ELSE LET once == Saved(record[a], a \in seen.marked, reason) IN
                                   IF a \in twice THEN Saved(once, TRUE, reason) ELSE once]
             /\ session' = IF seen.first = None /\ hit \ seen.marked # {}
                           THEN [session EXCEPT !.first = now] ELSE session
      BY <1>4 DEF WriteMarks
    <2>2. PICK hit \in SUBSET Attendees : hit = {a \in listed : record[a].there}
      OBVIOUS
    <2>3. PICK twice \in SUBSET Attendees :
             /\ reason \/ seen.first = None
             /\ record' = [a \in Attendees |->
                              IF a \notin hit THEN record[a]
                              ELSE LET once == Saved(record[a], a \in seen.marked, reason) IN
                                   IF a \in twice THEN Saved(once, TRUE, reason) ELSE once]
             /\ session' = IF seen.first = None /\ hit \ seen.marked # {}
                           THEN [session EXCEPT !.first = now] ELSE session
      BY <2>1, <2>2, Zenon
    <2> QED
      BY <2>3, Zenon
<1>6. ASSUME NEW a \in Attendees, a \in hit
      PROVE  /\ record'[a] \in Record
             /\ record'[a].marked = IF a \in seen.marked THEN record[a].marked ELSE now
             /\ record'[a].edited \in {record[a].edited, now}
             /\ \/ a \notin seen.marked /\ record'[a].edited = record[a].edited /\ record'[a].reason = record[a].reason
                \/ record'[a].edited = now /\ record'[a].reason = reason
    <2> DEFINE once == Saved(record[a], a \in seen.marked, reason)
    <2>1. once = IF a \in seen.marked THEN Saved(record[a], TRUE, reason) ELSE Saved(record[a], FALSE, reason)
      BY DEF Saved
    <2>3. record'[a] = IF a \in twice THEN Saved(once, TRUE, reason) ELSE once
      BY <1>5, <1>6
    <2> HIDE DEF once
    <2>2. /\ once \in Record
          /\ once.marked = IF a \in seen.marked THEN record[a].marked ELSE now
          /\ once.edited = IF a \in seen.marked THEN now ELSE record[a].edited
          /\ once.reason = IF a \in seen.marked THEN reason ELSE record[a].reason
      BY <1>3, <2>1, MarksRecord, EditsRecord
    <2>4. /\ Saved(once, TRUE, reason) \in Record
          /\ Saved(once, TRUE, reason).marked = once.marked
          /\ Saved(once, TRUE, reason).edited = now
          /\ Saved(once, TRUE, reason).reason = reason
      BY <1>3, <2>2, EditsRecord
    <2>5. CASE a \in twice
      BY <2>2, <2>3, <2>4, <2>5
    <2>6. CASE a \notin twice
      BY <2>2, <2>3, <2>6
    <2> QED
      BY <2>5, <2>6
<1>7. record' \in [Attendees -> Record]
    <2>1. \A a \in Attendees : record'[a] \in Record
      BY <1>3, <1>5, <1>6
    <2> QED
      BY <1>5, <2>1
<1>8. ASSUME NEW a \in Attendees, a \in hit
      PROVE  Touched(a)
    <2>1. record'[a].marked \in {record[a].marked, now} /\ record'[a].edited \in {record[a].edited, now}
      BY <1>6, <1>8
    <2>2. record[a].marked # None => record'[a].marked # None
      BY <1>3, <1>6, <1>8
    <2>3. session'.first # None
      <3>1. CASE seen.first # None
        BY <1>2, <1>4, <1>5, <3>1 DEF SessionRead
      <3>2. CASE seen.first = None /\ a \in seen.marked
        <4>1. session.first # None
          BY <1>2, <1>4, <3>2 DEF SessionRead, AttendanceRows
        <4> QED
          BY <1>2, <1>3, <1>5, <4>1 DEF AttendanceRows
      <3>3. CASE seen.first = None /\ a \notin seen.marked
        BY <1>2, <1>3, <1>5, <1>8, <3>3 DEF AttendanceRows
      <3> QED
        BY <3>1, <3>2, <3>3
    <2>4. ASSUME ~raced PROVE Explained(record'[a])
      <3>1. /\ Explained(record[a])
            /\ record[a].marked # None => session.first # None
            /\ record[a].edited # None => session.first # None
            /\ seen.first = session.first
            /\ a \in seen.marked <=> (record[a].marked # None)
        BY <1>2, <1>4, <2>4 DEF Timely, AttendanceRows, WindowRead
      <3>2. CASE a \notin seen.marked /\ record'[a].edited = record[a].edited /\ record'[a].reason = record[a].reason
        <4>1. record[a].reason \in BOOLEAN /\ record'[a].reason \in BOOLEAN /\ record[a].marked = None
          BY <1>3, <1>6, <1>8, <3>1, <3>2 DEF Record
        <4> QED
          BY <3>1, <3>2, <4>1 DEF Explained
      <3>3. CASE record'[a].edited = now /\ record'[a].reason = reason
        BY <1>5, <1>6, <1>8, <3>1, <3>3 DEF Explained
      <3> QED
        BY <1>6, <1>8, <3>2, <3>3
    <2> QED
      BY <2>1, <2>2, <2>3, <2>4 DEF Touched
<1>9. \A a \in Attendees : record'[a] = record[a] \/ Touched(a)
    BY <1>5, <1>8
<1>10. session' = session \/ (session' = [session EXCEPT !.first = now] /\ (raced \/ session.first = None))
    BY <1>2, <1>4, <1>5 DEF WindowRead
<1>11. ~raced => Editable
    BY <1>1, <1>2 DEF WindowRead
<1> QED
    BY <1>1, <1>2, <1>7, <1>9, <1>10, <1>11, AttendanceSaves

\* The edit of one record.
LEMMA AttendanceEdits ==
    ASSUME AttendanceInv, NEW r \in Reqs, UNCHANGED queue, WriteEdit(r)
    PROVE  AttendanceInv'
<1>1. req[r].op = "edit_record" /\ req[r].op \in AttendanceOps /\ End(r) /\ now' = now
    BY DEF WriteEdit, AttendanceOps
<1>2. Waits(r) /\ SessionRead(r) /\ AttendanceRows /\ (~raced => Timely /\ WindowRead(r))
    BY <1>1, AttendanceWaits
<1>3. record \in [Attendees -> Record] /\ now \in Time /\ None \notin Time
    BY <1>2, AttendanceAssumption DEF AttendanceRows, Time
<1>4. PICK a \in Attendees : a = req[r].on
    BY <1>1, <1>2 DEF SessionRead
<1>5. PICK seen : seen = req[r].mem
    OBVIOUS
<1>6. PICK reason \in BOOLEAN : /\ reason \/ a \notin seen.marked
                                /\ record' = [record EXCEPT ![a] = Saved(record[a], a \in seen.marked, reason)]
    BY <1>3, <1>4, <1>5 DEF WriteEdit
<1>7. session' = IF seen.first = None THEN [session EXCEPT !.first = now] ELSE session
    BY <1>5 DEF WriteEdit
<1>8. /\ record'[a] \in Record
      /\ record'[a].marked = IF a \in seen.marked THEN record[a].marked ELSE now
      /\ record'[a].edited = IF a \in seen.marked THEN now ELSE record[a].edited
      /\ record'[a].reason = IF a \in seen.marked THEN reason ELSE record[a].reason
    <2>1. record'[a] = IF a \in seen.marked THEN Saved(record[a], TRUE, reason) ELSE Saved(record[a], FALSE, reason)
      BY <1>3, <1>6 DEF Saved
    <2> QED
      <3>0. record[a] \in Record /\ reason \in BOOLEAN /\ now \in Time
        BY <1>3, <1>4, <1>6
      <3>1. CASE a \in seen.marked
        BY <3>0, <1>3, <1>6, <2>1, <3>1, EditsRecord
      <3>2. CASE a \notin seen.marked
        <4>1. record'[a] = Saved(record[a], FALSE, reason)
          BY <2>1, <3>2
        <4> QED
          <5>1. /\ Saved(record[a], FALSE, reason) \in Record
                /\ Saved(record[a], FALSE, reason).marked = now
                /\ Saved(record[a], FALSE, reason).edited = record[a].edited
                /\ Saved(record[a], FALSE, reason).reason = record[a].reason
            BY <3>0, MarksRecord
          <5> QED
            BY <3>2, <4>1, <5>1
      <3> QED
        BY <3>1, <3>2
<1>9. record' \in [Attendees -> Record]
    BY <1>3, <1>6, <1>8
<1>10. Touched(a)
    <2>1. record'[a].marked \in {record[a].marked, now} /\ record'[a].edited \in {record[a].edited, now}
      BY <1>8
    <2>2. record[a].marked # None => record'[a].marked # None
      BY <1>3, <1>8
    <2>3. session'.first # None
      BY <1>2, <1>3, <1>5, <1>7 DEF SessionRead, AttendanceRows
    <2>4. ASSUME ~raced PROVE Explained(record'[a])
      <3>1. Explained(record[a]) /\ (a \in seen.marked <=> (record[a].marked # None))
        BY <1>2, <1>4, <1>5, <2>4 DEF Timely, WindowRead
      <3>2. record[a].reason \in BOOLEAN /\ record'[a].reason \in BOOLEAN
        BY <1>3, <1>8 DEF Record
      <3>3. CASE a \in seen.marked
        BY <1>6, <1>8, <3>2, <3>3 DEF Explained
      <3>4. CASE a \notin seen.marked
        BY <1>8, <3>1, <3>2, <3>4 DEF Explained
      <3> QED
        BY <3>3, <3>4
    <2> QED
      BY <2>1, <2>2, <2>3, <2>4 DEF Touched
<1>11. \A b \in Attendees : record'[b] = record[b] \/ Touched(b)
    BY <1>3, <1>6, <1>10
<1>12. session' = session \/ (session' = [session EXCEPT !.first = now] /\ (raced \/ session.first = None))
    BY <1>2, <1>5, <1>7 DEF WindowRead
<1>13. ~raced => Editable
    BY <1>1, <1>2 DEF WindowRead
<1> QED
    BY <1>1, <1>2, <1>9, <1>11, <1>12, <1>13, AttendanceSaves

\* A reopening starts a new window, which holds the saves of the old one.
LEMMA AttendanceReopens ==
    ASSUME AttendanceInv, NEW r \in Reqs, UNCHANGED queue, WriteReopen(r)
    PROVE  AttendanceInv'
<1>1. req[r].op \in AttendanceOps /\ End(r) /\ UNCHANGED <<record, now>>
    BY DEF WriteReopen, AttendanceOps
<1>2. Waits(r) /\ AttendanceRows /\ (~raced => Timely)
    BY <1>1, AttendanceWaits
<1>3. now \in Nat /\ now \in Time /\ None \notin Nat /\ Window \in Nat
      /\ session \in [there : BOOLEAN, first : Time \cup {None}, reopened : Time \cup {None}]
      /\ record \in [Attendees -> Record] /\ Time \subseteq Nat
    BY <1>2, AttendanceAssumption DEF AttendanceRows, Time
<1>4. /\ session' \in [there : BOOLEAN, first : Time \cup {None}, reopened : Time \cup {None}]
      /\ session'.first = session.first /\ session'.reopened = now
    BY <1>3 DEF WriteReopen
<1>5. AttendanceRows'
    BY <1>1, <1>2, <1>4 DEF AttendanceRows
<1>6. ASSUME Timely PROVE Timely'
    <2>1. ASSUME NEW a \in Attendees, NEW t \in {record[a].marked, record[a].edited}
          PROVE  InWindow(t)'
      <3>1. InWindow(t) /\ session.first \in Time \cup {None} /\ session.reopened \in Time \cup {None}
            /\ t \in Time \cup {None}
        BY <1>3, <1>6, <2>1 DEF Timely, Record
      <3>2. CASE t \in {None, session.first}
        BY <1>4, <3>2 DEF InWindow
      <3>3. CASE t \notin {None, session.first}
        <4>1. /\ session.first < t /\ t < Reference + Window /\ session.first # None
              /\ session.first <= now
              /\ session.reopened # None => session.reopened <= now
          BY <1>2, <1>3, <1>6, <2>1, <3>1, <3>3 DEF InWindow, Timely, Past, AttendanceRows
        <4>2. Reference <= now /\ Reference \in Nat
          BY <1>3, <1>6, <3>1, <4>1 DEF Reference, Timely, Past
        <4>3. Reference' = now
          BY <1>3, <1>4 DEF Reference
        <4>4. session.first < t /\ t < now + Window
          BY <1>3, <3>1, <3>3, <4>1, <4>2
        <4> QED
          BY <1>4, <4>3, <4>4 DEF InWindow
      <3> QED
        BY <3>2, <3>3
    <2>2. now <= now
      BY <1>3
    <2> QED
      BY <1>1, <1>4, <1>6, <2>1, <2>2 DEF Timely, Past, Explained
<1> QED
    BY <1>1, <1>2, <1>4, <1>5, <1>6, AttendanceEnds

\* The clock.
LEMMA AttendanceTicks ==
    ASSUME AttendanceInv, UNCHANGED queue, Tick
    PROVE  AttendanceInv'
<1>1. /\ now \in Time /\ faults \in 0..MaxFaults /\ raced \in BOOLEAN
      /\ Serving(AttendanceOps, Attendees, Seen) /\ AttendanceRows
    BY DEF AttendanceInv, AttendanceRows, Serving
<1>2. now < MaxNow /\ now' = now + 1 /\ UNCHANGED <<session, record, req>>
    BY DEF Tick
<1>3. now' \in Time /\ now \in Nat /\ now <= now' /\ None \notin Nat /\ Time \subseteq Nat
    BY <1>1, <1>2, AttendanceAssumption DEF Time
<1>4. /\ raced' \in BOOLEAN /\ faults' \in 0..MaxFaults
      /\ ~raced' => ~raced /\ \A r \in Reqs : req[r] = NoReq
    <2>1. CASE \A r \in Reqs : req[r] = NoReq
      BY <1>1, <2>1 DEF Tick
    <2>2. CASE ~\A r \in Reqs : req[r] = NoReq
      <3>1. faults < MaxFaults /\ faults' = faults + 1 /\ raced' = TRUE
        BY <2>2 DEF Tick, Fault
      <3> QED
        BY <1>1, <3>1, BackendAssumption
    <2> QED
      BY <2>1, <2>2
<1>5. Serving(AttendanceOps, Attendees, Seen)'
    BY <1>1, <1>2, <1>4 DEF Serving, queue
<1>6. AttendanceRows'
    BY <1>1, <1>2, <1>3 DEF AttendanceRows
<1>7. \A r \in Reqs : Waits(r)' => SessionRead(r)'
    BY <1>2 DEF AttendanceInv, Waits, SessionRead
<1>8. ASSUME Timely PROVE Timely'
    <2>1. \A t \in Time \cup {None} : Past(t) => Past(t)'
      BY <1>3 DEF Past
    <2>2. \A t \in Time \cup {None} : InWindow(t) => InWindow(t)'
      BY <1>2 DEF InWindow, Reference
    <2>3. session.first \in Time \cup {None} /\ session.reopened \in Time \cup {None}
          /\ \A a \in Attendees : record[a].marked \in Time \cup {None} /\ record[a].edited \in Time \cup {None}
      BY <1>1 DEF AttendanceRows, Record
    <2> QED
      BY <1>2, <1>8, <2>1, <2>2, <2>3 DEF Timely, Explained
<1>9. ~raced' => \A r \in Reqs : ~Waits(r)'
    BY <1>2, <1>4 DEF Waits, NoReq
<1> QED
    BY <1>4, <1>5, <1>6, <1>7, <1>8, <1>9 DEF AttendanceInv

\* The environment ends a request, and leaves the rows.
LEMMA AttendanceEnvironment ==
    ASSUME AttendanceInv, Environment, UNCHANGED attendance
    PROVE  AttendanceInv'
<1>1. Serving(AttendanceOps, Attendees, Seen) /\ "publish" \notin AttendanceOps
    BY DEF AttendanceInv, AttendanceOps
<1>2. /\ Serving(AttendanceOps, Attendees, Seen)' /\ raced' = raced
      /\ \E r \in Reqs : req'[r] = NoReq /\ \A s \in Reqs \ {r} : req'[s] = req[s]
    BY <1>1, Abandons
<1>3. \A s \in Reqs : Waits(s)' => Waits(s) /\ req'[s] = req[s]
    BY <1>2 DEF Waits, NoReq
<1>4. UNCHANGED <<session, record, now>>
    BY DEF attendance
<1>5. \A s \in Reqs : Waits(s)' => SessionRead(s)'
    BY <1>3, <1>4 DEF AttendanceInv, SessionRead
<1>6. AttendanceRows' /\ (Timely => Timely')
    BY <1>4 DEF AttendanceInv, AttendanceRows, Timely, Past, InWindow, Explained, Reference
<1>7. ~raced' => \A s \in Reqs : Waits(s)' => Only(s)' /\ WindowRead(s)'
    BY <1>2, <1>3, <1>4 DEF AttendanceInv, Only, WindowRead, Editable, Reference
<1> QED
    BY <1>2, <1>5, <1>6, <1>7 DEF AttendanceInv

\* Every step of the attendance keeps its invariant.
LEMMA AttendanceSteps ==
    ASSUME AttendanceInv, AttendanceNext
    PROVE  AttendanceInv'
<1>1. ASSUME NEW r \in Reqs, UNCHANGED queue, AttendanceRequest(r)
      PROVE  AttendanceInv'
    BY <1>1, AttendanceChecks, AttendanceCreates, AttendanceMarks, AttendanceEdits, AttendanceReopens
       DEF AttendanceRequest
<1> QED
    BY <1>1, AttendanceTicks, AttendanceEnvironment DEF AttendanceNext

\* The invariant is as strong as SavesInWindow.
LEMMA AttendanceSafe ==
    AttendanceInv => SavesInWindow
BY DEF AttendanceInv, AttendanceRows, SavesInWindow, Timely, InWindow, Explained

----------------------------------------------------------------------------
(* Academics.                                                              *)

\* What a request on the nodes or the roster does, is on and remembers.
Ops == AcademicsOps \cup RosterOps
Places == Nodes \cup Students
Notes == Targets \cup (Faculties \X Roles)

\* The operations have names of their own.
LEMMA OpsNames ==
    /\ None \notin Ops /\ "publish" \notin Ops /\ AcademicsOps \cap RosterOps = {}
BY AcademicsNames, RosterNames DEF Ops, AcademicsOps, RosterOps

\* Below the batch, a node has a parent, which is shorter.
LEMMA ParentIsNode ==
    ASSUME NEW n \in Nodes \ {Batch}
    PROVE  Parent(n) \in Nodes
<1>1. CASE n \in {<<m>> : m \in Semesters}
    <2>1. PICK m \in Semesters : n = <<m>>
      BY <1>1
    <2>2. Parent(n) = <<>>
      BY <2>1 DEF Parent
    <2> QED
      BY <2>2 DEF Nodes, Batch
<1>2. CASE n \in Sections
    <2>1. PICK m \in Semesters, name \in Names : n = <<m, name>>
      BY <1>2 DEF Sections
    <2>2. n \in Seq({m, name}) /\ Len(n) = 2 /\ n[1] = m
      BY <2>1
    <2>3. Parent(n) = SubSeq(n, 1, 1)
      BY <2>2 DEF Parent
    <2>4. Parent(n) \in Seq({m, name}) /\ Len(Parent(n)) = 1 /\ Parent(n)[1] = m
      BY <2>2, <2>3, SubSeqProperties
    <2>5. Parent(n) = <<m>>
      BY <2>4
    <2> QED
      BY <2>5 DEF Nodes
<1> QED
    BY <1>1, <1>2 DEF Nodes

\* A batch that is new, or all there.
LEMMA AcademicsIdle ==
    AcademicsInit /\ BackendInit => AcademicsInv
<1> SUFFICES ASSUME AcademicsInit, BackendInit PROVE AcademicsInv
    OBVIOUS
<1>1. Serving(AcademicsOps \cup RosterOps, Nodes \cup Students, Targets \cup (Faculties \X Roles))
      /\ \A r \in Reqs : ~Waits(r)
    BY Idles
<1>2. PICK there \in {{Batch}, Nodes} : node = [n \in Nodes |-> IF n \in there THEN "ACTIVE" ELSE "NONE"]
    BY DEF AcademicsInit
<1>3. AcademicsTypeOK
    BY <1>2, AcademicsAssumption DEF AcademicsInit, AcademicsTypeOK
<1>4. \A n \in Nodes \ {Batch} : node[n] = "ACTIVE" => node[Parent(n)] = "ACTIVE"
    BY <1>2, ParentIsNode
<1>5. \A n \in Semesters : Primaries(n) = {}
    BY DEF AcademicsInit, Primaries
<1>6. \A r \in Reqs : Named(r)
    BY <1>1, OpsNames DEF Named, Waits, AcademicsOps, Ops
<1> QED
    BY <1>1, <1>3, <1>4, <1>5, <1>6 DEF AcademicsInv, Hierarchy

\* A request of the roster, the end of a request, the environment: the nodes stay.
LEMMA AcademicsKeeps ==
    ASSUME AcademicsInv, UNCHANGED academics, Serving(Ops, Places, Notes)',
           \A r \in Reqs : Waits(r)' => req'[r] = req[r] \/ req'[r].op \in RosterOps,
           ~raced' => /\ ~raced
                      /\ \A r \in Reqs : Waits(r)' => Only(r)'
    PROVE  AcademicsInv'
<1>1. UNCHANGED <<node, faculty, orphaned, changes>>
    BY DEF academics
<1>2. AcademicsTypeOK' /\ (Hierarchy => Hierarchy')
    BY <1>1 DEF AcademicsInv, AcademicsTypeOK, Hierarchy, Primaries
<1>3. ASSUME NEW r \in Reqs, req'[r].op \in RosterOps \cup {None}
      PROVE  Named(r)' /\ NodeRead(r)'
    <2>1. req'[r].op \notin AcademicsOps
      BY <1>3, OpsNames, AcademicsNames
    <2>2. req'[r].op \notin {"create_node", "deactivate", "reactivate", "assign", "revoke"}
      BY <2>1 DEF AcademicsOps
    <2> QED
      BY <2>2 DEF Named, NodeRead
<1>4. \A r \in Reqs : Named(r)'
    <2>1. ASSUME NEW r \in Reqs, req'[r] = req[r] PROVE Named(r)'
      BY <2>1 DEF AcademicsInv, Named
    <2> QED
      BY <1>3, <2>1 DEF Waits
<1>5. ASSUME ~raced', NEW r \in Reqs, Waits(r)'
      PROVE  Only(r)' /\ NodeRead(r)'
    <2>1. CASE req'[r] = req[r]
      <3>1. NodeRead(r)
        BY <1>5, <2>1 DEF AcademicsInv, Waits
      <3> QED
        BY <1>1, <1>5, <2>1, <3>1 DEF NodeRead, Primaries
    <2>2. CASE req'[r].op \in RosterOps
      BY <1>3, <1>5, <2>2
    <2> QED
      BY <1>5, <2>1, <2>2
<1> QED
    BY <1>2, <1>4, <1>5 DEF AcademicsInv, Ops, Places, Notes

\* A request on a node or on an assignment that has only checked.
LEMMA AcademicsBegins ==
    ASSUME AcademicsInv, NEW r \in Reqs, NEW op \in AcademicsOps, NEW on \in Nodes, NEW mem \in Notes \cup {None},
           op \in {"assign", "revoke"} => \E n \in Semesters : on = <<n>>,
           op = "assign" => mem \in Faculties \X Roles,
           op = "create_node" => on # Batch /\ node[Parent(on)] = "ACTIVE",
           op = "deactivate" => \A c \in Children(on) : node[c] # "ACTIVE",
           op = "assign" /\ mem[2] = "PRIMARY" => Primaries(on[1]) = {},
           Begin(r, op, on, mem), UNCHANGED academics, UNCHANGED queue
    PROVE  AcademicsInv'
<1>1. Serving(Ops, Places, Notes) /\ op \in Ops /\ on \in Places \cup {None}
    BY DEF AcademicsInv, Ops, Places, Notes
<1>2. /\ Serving(Ops, Places, Notes)'
      /\ req'[r].op = op /\ req'[r].on = on /\ req'[r].mem = mem
      /\ \A s \in Reqs \ {r} : req'[s] = req[s]
      /\ ~Waits(r)
      /\ ~raced' => ~raced /\ Only(r)
    BY <1>1, OpsNames, Begins
<1>3. UNCHANGED <<node, faculty, orphaned, changes>>
    BY DEF academics
<1>4. AcademicsTypeOK' /\ (Hierarchy => Hierarchy')
    BY <1>3 DEF AcademicsInv, AcademicsTypeOK, Hierarchy, Primaries
<1>5. Named(r)' /\ NodeRead(r)'
    BY <1>2, <1>3 DEF Named, NodeRead, Primaries
<1>6. \A s \in Reqs : Named(s)'
    <2>1. ASSUME NEW s \in Reqs \ {r} PROVE Named(s)'
      BY <1>2, <2>1 DEF AcademicsInv, Named
    <2> QED
      BY <1>5, <2>1
<1>7. ~raced' => \A s \in Reqs : Waits(s)' => Only(s)' /\ NodeRead(s)'
    <2> SUFFICES ASSUME ~raced', NEW s \in Reqs, Waits(s)' PROVE Only(s)' /\ NodeRead(s)'
      OBVIOUS
    <2>1. s = r /\ Only(r)'
      BY <1>2 DEF Only, Waits
    <2> QED
      BY <1>5, <2>1
<1> QED
    BY <1>2, <1>4, <1>6, <1>7 DEF AcademicsInv, Ops, Places, Notes

\* A request that ends with a write to the nodes or the assignments.
LEMMA AcademicsEnds ==
    ASSUME AcademicsInv, NEW r \in Reqs, req[r].op \in AcademicsOps, End(r), UNCHANGED queue, AcademicsTypeOK',
           ~raced => Hierarchy'
    PROVE  AcademicsInv' /\ raced' = raced /\ \A s \in Reqs : Waits(s)' => Waits(s) /\ req'[s] = req[s]
<1>1. Serving(Ops, Places, Notes) /\ Waits(r)
    BY OpsNames DEF AcademicsInv, Ops, Places, Notes, Waits
<1>2. /\ Serving(Ops, Places, Notes)' /\ raced' = raced
      /\ req'[r] = NoReq /\ \A s \in Reqs \ {r} : req'[s] = req[s]
    BY <1>1, Ends
<1>3. \A s \in Reqs : Waits(s)' => s # r /\ Waits(s) /\ req'[s] = req[s]
    BY <1>2 DEF Waits, NoReq
<1>4. \A s \in Reqs : Named(s)'
    <2>1. Named(r)'
      BY <1>2, OpsNames DEF Named, NoReq, AcademicsOps, Ops
    <2>2. ASSUME NEW s \in Reqs \ {r} PROVE Named(s)'
      BY <1>2, <2>2 DEF AcademicsInv, Named
    <2> QED
      BY <2>1, <2>2
<1>5. ~raced' => \A s \in Reqs : ~Waits(s)'
    BY <1>1, <1>2, <1>3 DEF AcademicsInv, Only
<1> QED
    BY <1>2, <1>3, <1>4, <1>5 DEF AcademicsInv, Ops, Places, Notes

\* The checks.
LEMMA AcademicsChecks ==
    ASSUME AcademicsInv, NEW r \in Reqs, UNCHANGED queue,
           \/ \E n \in Nodes : CreateNode(r, n) \/ Deactivate(r, n) \/ Reactivate(r, n)
           \/ GenerateSemesters(r)
           \/ \E n \in Semesters, f \in Faculties, role \in Roles : Assign(r, n, f, role)
           \/ \E n \in Semesters : Revoke(r, n)
    PROVE  AcademicsInv'
<1>1. \A n \in Semesters : <<n>> \in Nodes /\ <<n>>[1] = n
    BY DEF Nodes
<1>2. ASSUME NEW n \in Nodes, CreateNode(r, n) PROVE AcademicsInv'
    <2>1. Begin(r, "create_node", n, None) /\ UNCHANGED academics /\ n # Batch /\ node[Parent(n)] = "ACTIVE"
      BY <1>2 DEF CreateNode, CheckedNode
    <2>2. "create_node" \in AcademicsOps
      BY DEF AcademicsOps
    <2> QED
      BY <2>1, <2>2, AcademicsBegins
<1>3. ASSUME NEW n \in Nodes, Deactivate(r, n) PROVE AcademicsInv'
    <2>1. Begin(r, "deactivate", n, None) /\ UNCHANGED academics /\ \A c \in Children(n) : node[c] # "ACTIVE"
      BY <1>3 DEF Deactivate, CheckedNode
    <2>2. "deactivate" \in AcademicsOps
      BY DEF AcademicsOps
    <2> QED
      BY <2>1, <2>2, AcademicsBegins
<1>4. ASSUME NEW n \in Nodes, Reactivate(r, n) PROVE AcademicsInv'
    <2>1. Begin(r, "reactivate", n, None) /\ UNCHANGED academics
      BY <1>4 DEF Reactivate, CheckedNode
    <2>2. "reactivate" \in AcademicsOps
      BY DEF AcademicsOps
    <2> QED
      BY <2>1, <2>2, AcademicsBegins
<1>5. ASSUME GenerateSemesters(r) PROVE AcademicsInv'
    <2>1. Begin(r, "generate_semesters", Batch, None) /\ UNCHANGED academics /\ Batch \in Nodes
      BY <1>5 DEF GenerateSemesters, CheckedNode, Nodes
    <2>2. "generate_semesters" \in AcademicsOps
      BY DEF AcademicsOps
    <2> QED
      BY <2>1, <2>2, AcademicsBegins
<1>6. ASSUME NEW n \in Semesters, NEW f \in Faculties, NEW role \in Roles, Assign(r, n, f, role)
      PROVE  AcademicsInv'
    <2>1. /\ Begin(r, "assign", <<n>>, <<f, role>>) /\ UNCHANGED academics
          /\ role = "PRIMARY" => Primaries(n) = {}
      BY <1>6 DEF Assign
    <2>a. <<f, role>> \in Faculties \X Roles /\ <<f, role>>[2] = role
      OBVIOUS
    <2>2. PICK mem \in Faculties \X Roles : mem = <<f, role>> /\ mem[2] = role
      BY <2>a
    <2>3. PICK on \in Nodes : on = <<n>> /\ on[1] = n
      BY <1>1
    <2>4. "assign" \in AcademicsOps /\ mem \in Notes \cup {None}
      BY DEF AcademicsOps, Notes
    <2> QED
      BY <2>1, <2>2, <2>3, <2>4, AcademicsBegins
<1>7. ASSUME NEW n \in Semesters, Revoke(r, n) PROVE AcademicsInv'
    <2>1. PICK a \in faculty[n] : Begin(r, "revoke", <<n>>, a)
      BY <1>7 DEF Revoke
    <2>2. UNCHANGED academics /\ a \in Notes \cup {None}
      BY <1>7 DEF Revoke, AcademicsInv, AcademicsTypeOK, Notes
    <2>3. PICK on \in Nodes : on = <<n>> /\ on[1] = n
      BY <1>1
    <2>4. "revoke" \in AcademicsOps
      BY DEF AcademicsOps
    <2> QED
      BY <2>1, <2>2, <2>3, <2>4, AcademicsBegins
<1> QED
    BY <1>2, <1>3, <1>4, <1>5, <1>6, <1>7

\* What a request on the nodes or the assignments has.
LEMMA AcademicsWaits ==
    ASSUME AcademicsInv, NEW r \in Reqs, req[r].op \in AcademicsOps
    PROVE  /\ Named(r) /\ AcademicsTypeOK
           /\ ~raced => Hierarchy /\ NodeRead(r)
BY AcademicsNames DEF AcademicsInv, Waits

\* The writes to the nodes.
LEMMA NodeWrites ==
    ASSUME AcademicsInv, NEW r \in Reqs, UNCHANGED queue,
           WriteCreateNode(r) \/ WriteSemesters(r) \/ WriteDeactivate(r) \/ WriteReactivate(r)
    PROVE  AcademicsInv' /\ raced' = raced /\ \A s \in Reqs : Waits(s)' => Waits(s) /\ req'[s] = req[s]
<1>1. req[r].op \in {"create_node", "generate_semesters", "deactivate", "reactivate"}
      /\ req[r].op \in AcademicsOps /\ End(r) /\ Change /\ faculty' = faculty
    BY DEF WriteCreateNode, WriteSemesters, WriteDeactivate, WriteReactivate, AcademicsOps
<1>2. Named(r) /\ AcademicsTypeOK /\ (~raced => Hierarchy /\ NodeRead(r))
    BY <1>1, AcademicsWaits
<1>3. changes' \in 0..MaxChanges
    BY <1>1, <1>2, AcademicsAssumption DEF Change, AcademicsTypeOK
<1>4. PICK n : n = req[r].on
    OBVIOUS
<1>5. req[r].op # "generate_semesters" => n \in Nodes
    BY <1>1, <1>2, <1>4 DEF Named
<1>6. /\ node' \in [Nodes -> {"NONE", "ACTIVE", "INACTIVE"}] /\ orphaned' \in SUBSET Nodes
    <2>1. CASE WriteCreateNode(r)
      BY <1>1, <1>2, <1>4, <1>5, <2>1 DEF WriteCreateNode, AcademicsTypeOK
    <2>2. CASE WriteSemesters(r)
      BY <1>2, <2>2 DEF WriteSemesters, AcademicsTypeOK, Children
    <2>3. CASE WriteDeactivate(r)
      BY <1>1, <1>2, <1>4, <1>5, <2>3 DEF WriteDeactivate, AcademicsTypeOK
    <2>4. CASE WriteReactivate(r)
      BY <1>1, <1>2, <1>4, <1>5, <2>4 DEF WriteReactivate, AcademicsTypeOK
    <2> QED
      BY <2>1, <2>2, <2>3, <2>4
<1>7. AcademicsTypeOK'
    BY <1>1, <1>2, <1>3, <1>6 DEF AcademicsTypeOK
<1>8. ASSUME ~raced PROVE Hierarchy'
    <2>1. Hierarchy /\ NodeRead(r)
      BY <1>2, <1>8
    <2>2. \A m \in Semesters : \A f, g \in Primaries(m)' : f = g
      BY <1>1, <2>1 DEF Hierarchy, Primaries
    <2>3. ASSUME NEW m \in Nodes \ {Batch}, node'[m] = "ACTIVE"
          PROVE  node'[Parent(m)] = "ACTIVE" \/ m \in orphaned'
      <3> DEFINE p == Parent(m)
      <3>1. p \in Nodes
        BY ParentIsNode
      <3>2. node[m] = "ACTIVE" => node[p] = "ACTIVE" \/ m \in orphaned
        BY <2>1 DEF Hierarchy
      <3>3. CASE WriteCreateNode(r)
        <4>1. node[Parent(n)] = "ACTIVE" /\ n \in Nodes
          BY <1>4, <1>5, <2>1, <3>3 DEF WriteCreateNode, NodeRead
        <4>2. node' = (IF node[n] = "NONE" THEN [node EXCEPT ![n] = "ACTIVE"] ELSE node) /\ orphaned' = orphaned
          BY <1>4, <3>3 DEF WriteCreateNode
        <4>3. node[p] = "ACTIVE" => node'[p] = "ACTIVE"
          BY <1>2, <3>1, <4>1, <4>2 DEF AcademicsTypeOK
        <4>4. m = n \/ node'[m] = node[m]
          BY <1>2, <4>1, <4>2 DEF AcademicsTypeOK
        <4> QED
          BY <2>3, <3>2, <4>1, <4>2, <4>3, <4>4
      <3>4. CASE WriteSemesters(r)
        <4>1. PICK missing : /\ missing = {c \in Children(Batch) : node[c] = "NONE"}
                             /\ node' = [k \in Nodes |-> IF k \in missing THEN "ACTIVE" ELSE node[k]]
                             /\ orphaned' = IF node[Batch] = "ACTIVE" THEN orphaned ELSE orphaned \cup missing
          BY <3>4 DEF WriteSemesters
        <4>2. CASE m \in missing
          <5>1. p = Batch /\ Batch \notin missing
            BY <4>1, <4>2 DEF Children
          <5>2. node'[p] = node[Batch]
            BY <3>1, <4>1, <5>1
          <5> QED
            BY <4>1, <4>2, <5>2
        <4>3. CASE m \notin missing
          <5>1. node[m] = "ACTIVE" /\ (node[p] = "ACTIVE" => node'[p] = "ACTIVE")
            BY <2>3, <3>1, <4>1, <4>3
          <5> QED
            BY <3>2, <4>1, <5>1
        <4> QED
          BY <4>2, <4>3
      <3>5. CASE WriteDeactivate(r)
        <4>1. n \in Nodes /\ \A c \in Children(n) : node[c] # "ACTIVE"
          BY <1>4, <1>5, <2>1, <3>5 DEF WriteDeactivate, NodeRead
        <4>2. node' = [node EXCEPT ![n] = "INACTIVE"] /\ orphaned' = orphaned
          BY <1>4, <3>5 DEF WriteDeactivate
        <4>3. m # n /\ node[m] = "ACTIVE"
          BY <1>2, <2>3, <4>1, <4>2 DEF AcademicsTypeOK
        <4>4. p # n
          BY <4>1, <4>3 DEF Children
        <4> QED
          BY <1>2, <3>1, <3>2, <4>2, <4>3, <4>4 DEF AcademicsTypeOK
      <3>6. CASE WriteReactivate(r)
        <4>1. n \in Nodes /\ node' = [node EXCEPT ![n] = "ACTIVE"]
              /\ orphaned' = IF n = Batch THEN orphaned ELSE orphaned \cup {n}
          BY <1>4, <1>5, <3>6 DEF WriteReactivate
        <4>2. node[p] = "ACTIVE" => node'[p] = "ACTIVE"
          BY <1>2, <3>1, <4>1 DEF AcademicsTypeOK
        <4>3. m = n \/ node'[m] = node[m]
          BY <1>2, <4>1 DEF AcademicsTypeOK
        <4> QED
          BY <2>3, <3>2, <4>1, <4>2, <4>3
      <3> QED
        BY <3>3, <3>4, <3>5, <3>6
    <2> QED
      BY <2>2, <2>3 DEF Hierarchy
<1> QED
    BY <1>1, <1>7, <1>8, AcademicsEnds

\* The writes to the assignments.
LEMMA AssignmentWrites ==
    ASSUME AcademicsInv, NEW r \in Reqs, UNCHANGED queue, WriteAssign(r) \/ WriteRevoke(r)
    PROVE  AcademicsInv'
<1>1. req[r].op \in {"assign", "revoke"} /\ req[r].op \in AcademicsOps /\ End(r) /\ Change
      /\ UNCHANGED <<node, orphaned>>
    BY DEF WriteAssign, WriteRevoke, AcademicsOps
<1>2. Named(r) /\ AcademicsTypeOK /\ (~raced => Hierarchy /\ NodeRead(r))
    BY <1>1, AcademicsWaits
<1>3. changes' \in 0..MaxChanges
    BY <1>1, <1>2, AcademicsAssumption DEF Change, AcademicsTypeOK
<1>4. PICK n \in Semesters : req[r].on = <<n>> /\ req[r].on[1] = n
    <2>1. PICK n \in Semesters : req[r].on = <<n>>
      BY <1>1, <1>2 DEF Named
    <2>2. <<n>>[1] = n
      OBVIOUS
    <2> QED
      BY <2>1, <2>2
<1>5. PICK a : a = req[r].mem
    OBVIOUS
<1>6. \/ req[r].op = "assign" /\ a \in Faculties \X Roles /\ faculty' = [faculty EXCEPT ![n] = faculty[n] \cup {a}]
      \/ faculty' = [faculty EXCEPT ![n] = faculty[n] \ {a}]
    BY <1>2, <1>4, <1>5 DEF WriteAssign, WriteRevoke, Named
<1>7. faculty' \in [Semesters -> SUBSET (Faculties \X Roles)]
    BY <1>2, <1>6 DEF AcademicsTypeOK
<1>8. AcademicsTypeOK'
    BY <1>1, <1>2, <1>3, <1>7 DEF AcademicsTypeOK
<1>9. ASSUME ~raced PROVE Hierarchy'
    <2>1. Hierarchy /\ NodeRead(r)
      BY <1>2, <1>9
    <2>2. ASSUME NEW m \in Semesters, NEW f \in Primaries(m)', NEW g \in Primaries(m)'
          PROVE  f = g
      <3>1. <<f, "PRIMARY">> \in faculty'[m] /\ <<g, "PRIMARY">> \in faculty'[m] /\ f \in Faculties /\ g \in Faculties
        BY <2>2 DEF Primaries
      <3>2. \A x, y \in Primaries(m) : x = y
        BY <2>1 DEF Hierarchy
      <3>3. CASE faculty'[m] \subseteq faculty[m]
        BY <3>1, <3>2, <3>3 DEF Primaries
      <3>4. CASE ~(faculty'[m] \subseteq faculty[m])
        <4>1. m = n /\ req[r].op = "assign" /\ a \in Faculties \X Roles /\ faculty'[m] = faculty[m] \cup {a}
          BY <1>2, <1>6, <3>4 DEF AcademicsTypeOK
        <4>2. CASE a[2] = "PRIMARY"
          <5>1. Primaries(m) = {}
            BY <1>4, <1>5, <2>1, <4>1, <4>2 DEF NodeRead
          <5>2. <<f, "PRIMARY">> \notin faculty[m] /\ <<g, "PRIMARY">> \notin faculty[m]
            BY <3>1, <5>1 DEF Primaries
          <5>3. <<f, "PRIMARY">> = a /\ <<g, "PRIMARY">> = a
            BY <3>1, <4>1, <5>2
          <5> QED
            BY <5>3
        <4>3. CASE a[2] # "PRIMARY"
          <5>1. <<f, "PRIMARY">> # a /\ <<g, "PRIMARY">> # a
            BY <4>3
          <5> QED
            BY <3>1, <3>2, <4>1, <5>1 DEF Primaries
        <4> QED
          BY <4>2, <4>3
      <3> QED
        BY <3>3, <3>4
    <2> QED
      BY <1>1, <2>1, <2>2 DEF Hierarchy
<1> QED
    BY <1>1, <1>8, <1>9, AcademicsEnds

\* The environment ends a request, and leaves the nodes.
LEMMA AcademicsEnvironment ==
    ASSUME AcademicsInv, Environment, UNCHANGED academics
    PROVE  /\ AcademicsInv' /\ raced' = raced
           /\ \A s \in Reqs : Waits(s)' => Waits(s) /\ req'[s] = req[s]
<1>1. Serving(Ops, Places, Notes)
    BY DEF AcademicsInv, Ops, Places, Notes
<1>2. /\ Serving(Ops, Places, Notes)' /\ raced' = raced
      /\ \E r \in Reqs : req'[r] = NoReq /\ \A s \in Reqs \ {r} : req'[s] = req[s]
    BY <1>1, OpsNames, Abandons
<1>3. \A s \in Reqs : Waits(s)' => Waits(s) /\ req'[s] = req[s]
    BY <1>2 DEF Waits, NoReq
<1>4. ~raced' => ~raced /\ \A s \in Reqs : Waits(s)' => Only(s)'
    BY <1>2, <1>3 DEF AcademicsInv, Only
<1> QED
    BY <1>2, <1>3, <1>4, AcademicsKeeps

\* Every step of the nodes and assignments keeps their invariant.
LEMMA AcademicsSteps ==
    ASSUME AcademicsInv, AcademicsNext
    PROVE  AcademicsInv'
<1>1. ASSUME NEW r \in Reqs, NodeRequest(r) \/ AssignmentRequest(r), UNCHANGED queue
      PROVE  AcademicsInv'
    BY <1>1, AcademicsChecks, NodeWrites, AssignmentWrites DEF NodeRequest, AssignmentRequest
<1> QED
    BY <1>1, AcademicsEnvironment DEF AcademicsNext

\* At most one PRIMARY is what its cardinality says.
LEMMA HierarchySafe ==
    AcademicsTypeOK /\ Hierarchy => HierarchySound
<1> SUFFICES ASSUME AcademicsTypeOK, Hierarchy, NEW n \in Semesters
             PROVE  Cardinality(Primaries(n)) <= 1
    BY DEF Hierarchy, HierarchySound
<1>1. CASE Primaries(n) = {}
    BY <1>1, FS_EmptySet
<1>2. CASE Primaries(n) # {}
    <2>1. PICK f \in Primaries(n) : Primaries(n) = {f}
      BY <1>2 DEF Hierarchy
    <2>2. Cardinality({f}) = 1
      BY FS_Singleton
    <2> QED
      BY <2>1, <2>2
<1> QED
    BY <1>1, <1>2

\* The invariant is as strong as HierarchySound.
LEMMA AcademicsSafe ==
    AcademicsInv => HierarchySound
BY HierarchySafe DEF AcademicsInv, HierarchySound

----------------------------------------------------------------------------
(* Enrollment and rollover.                                                *)

\* Nobody is enrolled yet.
LEMMA RosterIdle ==
    RosterInit /\ BackendInit => RosterInv
<1> SUFFICES ASSUME RosterInit, BackendInit PROVE RosterInv
    OBVIOUS
<1>1. AcademicsInv
    BY AcademicsIdle DEF RosterInit
<1>2. RosterRows
    BY DEF RosterInit, RosterRows
<1>3. \A r \in Reqs : req[r].op \notin RosterOps
    BY RosterNames DEF BackendInit, NoReq
<1>4. \A r \in Reqs : Rostered(r) /\ Rolling(r)
    BY <1>3 DEF Rostered, Rolling, RosterOps
<1> QED
    BY <1>1, <1>2, <1>4 DEF RosterInv

\* A request that is not a rollover begins, or one ends: nothing is left half done by another.
LEMMA RosterKeeps ==
    ASSUME RosterInv, AcademicsInv', RosterRows',
           \A r \in Reqs : Waits(r)' =>
               \/ req'[r] = req[r] /\ (~raced' => UNCHANGED <<enrolled, promoted>>)
               \/ Rostered(r)' /\ (~raced' => Rolling(r)')
               \/ req'[r].op \in AcademicsOps,
           ~raced' => ~raced
    PROVE  RosterInv'
<1>1. ASSUME NEW r \in Reqs, req'[r].op \in AcademicsOps \cup {None}
      PROVE  Rostered(r)' /\ Rolling(r)'
    <2>1. req'[r].op \notin RosterOps
      BY <1>1, OpsNames, RosterNames
    <2>2. req'[r].op \notin {"rollover", "rollover_move"}
      BY <2>1 DEF RosterOps
    <2> QED
      BY <2>1, <2>2 DEF Rostered, Rolling
<1>2. ASSUME NEW r \in Reqs, Waits(r)', req'[r] = req[r], ~raced' => UNCHANGED <<enrolled, promoted>>
      PROVE  Rostered(r)' /\ (~raced' => Rolling(r)')
    <2>1. Rostered(r) /\ (~raced => Rolling(r))
      BY DEF RosterInv
    <2>2. Rostered(r)'
      BY <1>2, <2>1 DEF Rostered
    <2>3. ASSUME ~raced' PROVE Rolling(r)'
      BY <1>2, <2>1, <2>3 DEF Rolling, Up
    <2> QED
      BY <2>2, <2>3
<1>3. \A r \in Reqs : Rostered(r)' /\ (~raced' => Rolling(r)')
    BY <1>1, <1>2 DEF Waits
<1> QED
    BY <1>3 DEF RosterInv

\* A request on the roster that begins.
LEMMA RosterBegins ==
    ASSUME RosterInv, NEW r \in Reqs, NEW op \in RosterOps, NEW on \in Students \cup {None}, NEW mem \in Targets,
           Begin(r, op, on, mem), UNCHANGED <<academics, queue>>, RosterRows',
           op # "rollover" => on \in Students /\ UNCHANGED <<enrolled, promoted>>,
           op \in {"rollover", "rollover_move"} =>
               /\ op = "rollover"
               /\ \A s \in Students : /\ promoted'[s] = 0
                                      /\ mem[s] # None => mem[s] = <<enrolled'[s].section[1] + 1, enrolled'[s].section[2]>>
    PROVE  RosterInv'
<1>1. AcademicsInv /\ Serving(Ops, Places, Notes) /\ op \in Ops /\ on \in Places \cup {None} /\ mem \in Notes \cup {None}
    BY DEF RosterInv, AcademicsInv, Ops, Places, Notes
<1>2. /\ Serving(Ops, Places, Notes)'
      /\ req'[r].op = op /\ req'[r].on = on /\ req'[r].mem = mem
      /\ \A s \in Reqs \ {r} : req'[s] = req[s]
      /\ ~Waits(r)
      /\ ~raced' => ~raced /\ Only(r)
    BY <1>1, OpsNames, Begins
<1>3. ~raced' => ~raced /\ \A s \in Reqs : Waits(s)' => Only(s)' /\ s = r
    BY <1>2 DEF Only, Waits
<1>4. \A s \in Reqs : Waits(s)' => req'[s] = req[s] \/ req'[s].op \in RosterOps
    BY <1>2
<1>5. AcademicsInv'
    BY <1>1, <1>2, <1>3, <1>4, AcademicsKeeps
<1>6. Rostered(r)' /\ Rolling(r)'
    BY <1>2 DEF Rostered, Rolling, Up
<1>7. \A s \in Reqs : Rostered(s)'
    <2>1. ASSUME NEW s \in Reqs \ {r} PROVE Rostered(s)'
      BY <1>2 DEF RosterInv, Rostered
    <2> QED
      BY <1>6, <2>1
<1>8. ASSUME ~raced', NEW s \in Reqs PROVE Rolling(s)'
    <2>1. CASE s = r
      BY <1>6, <2>1
    <2>2. CASE s # r
      <3>1. req'[s].op = None
        BY <1>3, <1>8, <2>2 DEF Waits
      <3> QED
        BY <3>1, OpsNames DEF Rolling, Ops, RosterOps
    <2> QED
      BY <2>1, <2>2
<1> QED
    BY <1>5, <1>7, <1>8 DEF RosterInv, RosterRows, Rostered

\* A request on the roster that ends.
LEMMA RosterEnds ==
    ASSUME RosterInv, NEW r \in Reqs, req[r].op \in RosterOps, End(r), UNCHANGED <<academics, queue>>, RosterRows'
    PROVE  RosterInv'
<1>1. AcademicsInv /\ Serving(Ops, Places, Notes) /\ Waits(r)
    BY OpsNames DEF RosterInv, AcademicsInv, Ops, Places, Notes, Waits
<1>2. /\ Serving(Ops, Places, Notes)' /\ raced' = raced
      /\ req'[r] = NoReq /\ \A s \in Reqs \ {r} : req'[s] = req[s]
    BY <1>1, Ends
<1>3. \A s \in Reqs : Waits(s)' => s # r /\ Waits(s) /\ req'[s] = req[s]
    BY <1>2 DEF Waits, NoReq
<1>4. ~raced' => ~raced /\ \A s \in Reqs : ~Waits(s)'
    BY <1>1, <1>2, <1>3 DEF AcademicsInv, Only
<1>5. AcademicsInv'
    BY <1>1, <1>2, <1>3, <1>4, AcademicsKeeps
<1>6. \A s \in Reqs : Waits(s)' => req'[s] = req[s] /\ (~raced' => UNCHANGED <<enrolled, promoted>>)
    BY <1>3, <1>4
<1> QED
    BY <1>4, <1>5, <1>6, RosterKeeps

\* A rollover that goes on.
LEMMA RosterProceeds ==
    ASSUME RosterInv, NEW r \in Reqs, Waits(r), NEW op \in {"rollover", "rollover_move"},
           NEW on \in Places \cup {None}, NEW mem \in Targets,
           Puts(r, Onward(op, on, mem)), UNCHANGED <<academics, queue, raced, faults>>, RosterRows',
           op = "rollover_move" => on \in Students /\ mem[on] # None,
           ~raced => \A s \in Students : mem[s] # None =>
                        /\ promoted'[s] = 0
                        /\ mem[s] = <<enrolled'[s].section[1] + 1, enrolled'[s].section[2]>>
    PROVE  RosterInv'
<1>1. /\ AcademicsInv /\ Serving(Ops, Places, Notes) /\ op \in Ops /\ op \in RosterOps
      /\ mem \in Notes \cup {None} /\ faults \in 0..MaxFaults
    BY DEF RosterInv, AcademicsInv, Ops, Places, Notes, RosterOps, Serving
<1>2. UNCHANGED raced /\ faults' \in 0..MaxFaults /\ UNCHANGED queue
    BY <1>1
<1>3. /\ Serving(Ops, Places, Notes)'
      /\ req'[r].op = op /\ req'[r].on = on /\ req'[r].mem = mem
      /\ \A s \in Reqs \ {r} : req'[s] = req[s]
    BY <1>1, <1>2, OpsNames, Proceeds
<1>4. ~raced' => ~raced /\ Only(r)
    BY <1>1, <1>2 DEF AcademicsInv
<1>5. ~raced' => ~raced /\ \A s \in Reqs : Waits(s)' => Only(s)' /\ s = r
    BY <1>3, <1>4 DEF Only, Waits
<1>6. \A s \in Reqs : Waits(s)' => req'[s] = req[s] \/ req'[s].op \in RosterOps
    BY <1>1, <1>3
<1>7. AcademicsInv'
    BY <1>1, <1>3, <1>5, <1>6, AcademicsKeeps
<1>8. Rostered(r)' /\ (~raced' => Rolling(r)')
    BY <1>2, <1>3 DEF Rostered, Rolling, Up
<1>9. \A s \in Reqs : Rostered(s)'
    <2>1. ASSUME NEW s \in Reqs \ {r} PROVE Rostered(s)'
      BY <1>3 DEF RosterInv, Rostered
    <2> QED
      BY <1>8, <2>1
<1>10. ASSUME ~raced', NEW s \in Reqs PROVE Rolling(s)'
    <2>1. CASE s = r
      BY <1>8, <1>10, <2>1
    <2>2. CASE s # r
      <3>1. req'[s].op = None
        BY <1>5, <1>10, <2>2 DEF Waits
      <3> QED
        BY <3>1, OpsNames DEF Rolling, Ops, RosterOps
    <2> QED
      BY <2>1, <2>2
<1> QED
    BY <1>7, <1>9, <1>10 DEF RosterInv

\* What a rollover is, and what it still has to do.
LEMMA RosterWaits ==
    ASSUME RosterInv, NEW r \in Reqs, req[r].op \in RosterOps
    PROVE  /\ Waits(r) /\ RosterRows /\ req[r].mem \in Targets
           /\ req[r].op # "rollover" => req[r].on \in Students
           /\ req[r].on \in Places \cup {None}
           /\ ~raced => Rolling(r)
           /\ req[r] = [op |-> req[r].op, on |-> req[r].on, mem |-> req[r].mem, task |-> None]
           /\ req = [s \in Reqs |-> req[s]]
<1>1. Serving(Ops, Places, Notes)
    BY DEF RosterInv, AcademicsInv, Ops, Places, Notes
<1>2. req[r] \in [op : Ops \cup {None}, on : Places \cup {None}, mem : Notes \cup {None}, task : {None}]
      /\ req = [s \in Reqs |-> req[s]]
    BY <1>1 DEF Serving
<1>3. req[r] = [op |-> req[r].op, on |-> req[r].on, mem |-> req[r].mem, task |-> req[r].task]
    BY <1>2
<1>4. req[r].task = None
    BY <1>2
<1>5. Waits(r)
    BY OpsNames DEF Waits, Ops
<1> QED
    BY <1>2, <1>3, <1>4, <1>5 DEF RosterInv, Rostered

\* A step of req[r] to another record.
LEMMA RosterPuts ==
    ASSUME NEW r \in Reqs, req = [s \in Reqs |-> req[s]], NEW b, req' = [req EXCEPT ![r] = b]
    PROVE  Puts(r, b)
BY DEF Puts

\* A student whose turn it is, to be moved or to be left out.
LEMMA RolloverGoesOn ==
    ASSUME RosterInv, NEW r \in Reqs, NEW s \in Students, UNCHANGED queue, RolloverRow(r, s) \/ RolloverSkip(r, s)
    PROVE  RosterInv'
<1>1. /\ req[r].op = "rollover" /\ req[r].op \in RosterOps /\ req[r].mem[s] # None
      /\ UNCHANGED <<academics, enrolled, promoted, raced, faults>>
    BY DEF RolloverRow, RolloverSkip, NextRow, RosterOps
<1>2. PICK mem \in Targets : mem = req[r].mem
    BY <1>1, RosterWaits
<1>3. /\ Waits(r) /\ RosterRows /\ (~raced => Rolling(r))
      /\ req[r] = [op |-> "rollover", on |-> req[r].on, mem |-> mem, task |-> None]
      /\ req = [t \in Reqs |-> req[t]]
    BY <1>1, <1>2, RosterWaits
<1>4. RosterRows'
    BY <1>1, <1>3 DEF RosterRows
<1>5. ~raced => \A t \in Students : mem[t] # None =>
            promoted'[t] = 0 /\ mem[t] = <<enrolled'[t].section[1] + 1, enrolled'[t].section[2]>>
    BY <1>1, <1>2, <1>3 DEF Rolling, Up
<1>6. CASE RolloverRow(r, s)
    <2> DEFINE c == [req[r] EXCEPT !.op = "rollover_move"]
               b == [c EXCEPT !.on = s]
    <2>1. c = Onward("rollover_move", req[r].on, mem)
      BY <1>3 DEF Onward
    <2>2. req' = [req EXCEPT ![r] = b]
      BY <1>3, <1>6 DEF RolloverRow
    <2> HIDE DEF c
    <2>3. b = Onward("rollover_move", s, mem)
      BY <2>1 DEF Onward
    <2> HIDE DEF b
    <2>4. Puts(r, Onward("rollover_move", s, mem))
      BY <1>3, <2>2, <2>3, RosterPuts
    <2>5. s \in Places \cup {None} /\ mem[s] # None
      BY <1>1, <1>2 DEF Places
    <2> QED
      BY <1>1, <1>3, <1>4, <1>5, <2>4, <2>5, RosterProceeds
<1>7. CASE RolloverSkip(r, s)
    <2> DEFINE rest == [mem EXCEPT ![s] = None]
               b == [req[r] EXCEPT !.mem = rest]
    <2>1. rest \in Targets /\ \A t \in Students : rest[t] # None => rest[t] = mem[t]
      BY <1>2 DEF Targets
    <2>2. req' = [req EXCEPT ![r] = b]
      BY <1>2, <1>3, <1>7 DEF RolloverSkip
    <2>3. PICK on \in Places \cup {None} : on = req[r].on
      BY <1>1, RosterWaits
    <2> HIDE DEF rest
    <2>4. b = Onward("rollover", on, rest)
      BY <1>3, <2>3 DEF Onward
    <2> HIDE DEF b
    <2>5. Puts(r, Onward("rollover", on, rest))
      BY <1>3, <2>2, <2>4, RosterPuts
    <2>6. ~raced => \A t \in Students : rest[t] # None =>
            promoted'[t] = 0 /\ rest[t] = <<enrolled'[t].section[1] + 1, enrolled'[t].section[2]>>
      BY <1>5, <2>1
    <2> QED
      BY <1>1, <1>3, <1>4, <2>1, <2>5, <2>6, RosterProceeds
<1> QED
    BY <1>6, <1>7

\* The move of a student.
LEMMA RolloverMoves ==
    ASSUME RosterInv, NEW r \in Reqs, UNCHANGED queue, RolloverMove(r)
    PROVE  RosterInv'
<1>1. req[r].op = "rollover_move" /\ req[r].op \in RosterOps /\ UNCHANGED <<academics, raced, faults>>
    BY DEF RolloverMove, RosterOps
<1>2. PICK mem \in Targets : mem = req[r].mem
    BY <1>1, RosterWaits
<1>3. PICK s \in Students : s = req[r].on
    BY <1>1, RosterWaits
<1>4. /\ Waits(r) /\ RosterRows /\ (~raced => Rolling(r))
      /\ req[r] = [op |-> "rollover_move", on |-> s, mem |-> mem, task |-> None]
      /\ req = [t \in Reqs |-> req[t]]
    BY <1>1, <1>2, <1>3, RosterWaits
<1>5. /\ enrolled' = [enrolled EXCEPT ![s] = [section |-> mem[s], is_active |-> enrolled[s].is_active]]
      /\ promoted' = [promoted EXCEPT ![s] = promoted[s] + 1]
    BY <1>2, <1>3, <1>4 DEF RolloverMove, Place, RosterRows
<1>6. RosterRows'
    BY <1>2, <1>4, <1>5 DEF RosterRows, Targets
<1> DEFINE rest == [mem EXCEPT ![s] = None]
           c == [req[r] EXCEPT !.op = "rollover"]
           d == [c EXCEPT !.on = None]
           b == [d EXCEPT !.mem = rest]
<1>7. req' = [req EXCEPT ![r] = b]
    BY <1>2, <1>3, <1>4 DEF RolloverMove
<1>8. c = Onward("rollover", s, mem)
    BY <1>4 DEF Onward
<1>9. /\ rest \in Targets
      /\ \A t \in Students : rest[t] # None => t # s /\ rest[t] = mem[t]
    BY <1>2 DEF Targets
<1> HIDE DEF c, rest
<1>10. d = Onward("rollover", None, mem)
    BY <1>8 DEF Onward
<1> HIDE DEF d
<1>11. b = Onward("rollover", None, rest)
    BY <1>10 DEF Onward
<1> HIDE DEF b
<1>12. Puts(r, Onward("rollover", None, rest))
    BY <1>4, <1>7, <1>11, RosterPuts
<1>13. ASSUME ~raced, NEW t \in Students, rest[t] # None
       PROVE  promoted'[t] = 0 /\ rest[t] = <<enrolled'[t].section[1] + 1, enrolled'[t].section[2]>>
    <2>1. t # s /\ rest[t] = mem[t]
      BY <1>9, <1>13
    <2>2. promoted[t] = 0 /\ mem[t] = <<enrolled[t].section[1] + 1, enrolled[t].section[2]>>
      BY <1>1, <1>2, <1>4, <1>13, <2>1 DEF Rolling, Up
    <2>3. promoted'[t] = promoted[t] /\ enrolled'[t] = enrolled[t]
      BY <1>4, <1>5, <2>1 DEF RosterRows
    <2> QED
      BY <2>1, <2>2, <2>3
<1> QED
    BY <1>1, <1>4, <1>6, <1>9, <1>12, <1>13, RosterProceeds

\* The rows of a rollover: the section one semester up, if it is there.
LEMMA RolloverBegins ==
    ASSUME RosterInv, NEW r \in Reqs, UNCHANGED queue, Rollover(r)
    PROVE  RosterInv'
<1>1. PICK scope : /\ Begin(r, "rollover", None, Plan(scope))
                   /\ promoted' = [s \in Students |-> 0]
                   /\ UNCHANGED <<academics, enrolled>>
    BY DEF Rollover
<1>2. PICK mem : mem = Plan(scope)
    OBVIOUS
<1>3. ASSUME NEW s \in Students
      PROVE  /\ mem[s] \in Sections \cup {None}
             /\ mem[s] # None => mem[s] = <<enrolled[s].section[1] + 1, enrolled[s].section[2]>>
    <2>1. mem[s] = None \/ mem[s] = Target(enrolled[s].section)
      BY <1>2 DEF Plan
    <2> DEFINE next == <<enrolled[s].section[1] + 1, enrolled[s].section[2]>>
    <2>2. Target(enrolled[s].section) = None \/ (Target(enrolled[s].section) = next /\ next \in Sections)
      BY Zenon DEF Target
    <2> QED
      BY <2>1, <2>2
<1>4. mem \in Targets
    BY <1>2, <1>3 DEF Plan, Targets
<1>5. RosterRows'
    BY <1>1 DEF RosterInv, RosterRows
<1>6. "rollover" \in RosterOps /\ None \in Students \cup {None}
    BY DEF RosterOps
<1>7. Begin(r, "rollover", None, mem) /\ UNCHANGED <<academics, queue>>
    BY <1>1, <1>2
<1>8. \A s \in Students : promoted'[s] = 0 /\ enrolled'[s] = enrolled[s]
    BY <1>1
<1> QED
    BY <1>3, <1>4, <1>5, <1>6, <1>7, <1>8, RosterBegins

\* The requests that have only checked a student's row.
LEMMA RosterChecks ==
    ASSUME RosterInv, NEW r \in Reqs, UNCHANGED queue, NEW s \in Students,
           Unenroll(r, s) \/ \E section \in Sections : Enroll(r, s, section) \/ Move(r, s, section)
    PROVE  RosterInv'
<1>1. PICK op \in {"create_enrollment", "reenroll", "move", "unenroll"}, to \in Sections \cup {None} :
          CheckedRow(r, op, s, to)
    <2>1. ASSUME NEW section \in Sections, Enroll(r, s, section)
          PROVE  \E op \in {"create_enrollment", "reenroll"} : CheckedRow(r, op, s, section)
      BY <2>1, Zenon DEF Enroll
    <2>2. ASSUME NEW section \in Sections, Move(r, s, section)
          PROVE  CheckedRow(r, "move", s, section)
      BY <2>2, Zenon DEF Move
    <2>3. CASE Unenroll(r, s)
      BY <2>3, Zenon DEF Unenroll
    <2> QED
      BY <2>1, <2>2, <2>3
<1>2. PICK mem \in Targets : mem = [Nowhere EXCEPT ![s] = to]
    BY DEF Nowhere, Targets
<1>3. /\ Begin(r, op, s, mem) /\ UNCHANGED <<academics, queue>> /\ UNCHANGED <<enrolled, promoted>>
      /\ op \in RosterOps /\ op \notin {"rollover", "rollover_move"}
    BY <1>1, <1>2 DEF CheckedRow, RosterOps
<1>4. RosterRows'
    BY <1>3 DEF RosterInv, RosterRows
<1> QED
    BY <1>3, <1>4, RosterBegins

\* The writes of a student's row, and the end of a rollover.
LEMMA RosterWrites ==
    ASSUME RosterInv, NEW r \in Reqs, UNCHANGED queue,
           WriteEnroll(r) \/ WriteUnenroll(r) \/ WriteMove(r) \/ RolloverEnd(r)
    PROVE  RosterInv'
<1>1. /\ req[r].op \in {"create_enrollment", "reenroll", "unenroll", "move", "rollover"}
      /\ req[r].op \in RosterOps /\ End(r) /\ UNCHANGED <<academics, promoted>>
    BY DEF WriteEnroll, WriteUnenroll, WriteMove, RolloverEnd, RosterOps
<1>2. RosterRows /\ req[r].mem \in Targets /\ (req[r].op # "rollover" => req[r].on \in Students)
    BY <1>1, RosterWaits
<1>3. RosterRows'
    <2>1. CASE WriteEnroll(r)
      <3>1. PICK s \in Students, to \in Sections \cup {None} : s = req[r].on /\ to = req[r].mem[s]
        BY <1>2, <2>1 DEF WriteEnroll, Targets
      <3>2. UNCHANGED enrolled \/ enrolled' = [enrolled EXCEPT ![s] = [section |-> to, is_active |-> TRUE]]
        BY <2>1, <3>1 DEF WriteEnroll, Place
      <3>3. [section |-> to, is_active |-> TRUE] \in [section : Sections \cup {None}, is_active : BOOLEAN]
        OBVIOUS
      <3>4. enrolled' \in [Students -> [section : Sections \cup {None}, is_active : BOOLEAN]]
        BY <1>2, <3>2, <3>3 DEF RosterRows
      <3> QED
        BY <1>1, <1>2, <3>4 DEF RosterRows
    <2>2. CASE WriteUnenroll(r)
      BY <1>1, <1>2, <2>2 DEF WriteUnenroll, Place, RosterRows
    <2>3. CASE WriteMove(r)
      BY <1>1, <1>2, <2>3 DEF WriteMove, Place, RosterRows, Targets
    <2>4. CASE RolloverEnd(r)
      BY <1>2, <2>4 DEF RolloverEnd, RosterRows
    <2> QED
      BY <2>1, <2>2, <2>3, <2>4
<1> QED
    BY <1>1, <1>3, RosterEnds

\* A request on the nodes, among those on the roster.
LEMMA RosterNodes ==
    ASSUME RosterInv, NEW r \in Reqs, UNCHANGED queue, NodeRequest(r), UNCHANGED <<enrolled, promoted>>
    PROVE  RosterInv'
<1>1. AcademicsInv
    BY DEF RosterInv
<1>2. RosterRows'
    BY DEF RosterInv, RosterRows
<1>3. CASE WriteCreateNode(r) \/ WriteSemesters(r) \/ WriteDeactivate(r) \/ WriteReactivate(r)
    <2>1. AcademicsInv' /\ raced' = raced /\ \A s \in Reqs : Waits(s)' => req'[s] = req[s]
      BY <1>1, <1>3, NodeWrites
    <2> QED
      BY <1>2, <2>1, RosterKeeps
<1>4. CASE GenerateSemesters(r) \/ \E n \in Nodes : CreateNode(r, n) \/ Deactivate(r, n) \/ Reactivate(r, n)
    <2>1. PICK op \in AcademicsOps, n \in Nodes : Begin(r, op, n, None)
      BY <1>4 DEF GenerateSemesters, CreateNode, Deactivate, Reactivate, CheckedNode, AcademicsOps, Nodes
    <2>2. AcademicsInv'
      BY <1>1, <1>4, AcademicsChecks
    <2>3. Serving(Ops, Places, Notes) /\ op \in Ops /\ n \in Places \cup {None} /\ None \in Notes \cup {None}
      BY <1>1 DEF AcademicsInv, Ops, Places, Notes
    <2>4. /\ req'[r].op = op /\ (~raced' => ~raced)
          /\ \A s \in Reqs \ {r} : req'[s] = req[s]
      BY <2>1, <2>3, OpsNames, Begins
    <2>5. \A s \in Reqs : req'[s] = req[s] \/ req'[s].op \in AcademicsOps
      BY <2>4
    <2> QED
      BY <1>2, <2>2, <2>4, <2>5, RosterKeeps
<1> QED
    BY <1>3, <1>4 DEF NodeRequest

\* The environment ends a request, and leaves the rows.
LEMMA RosterEnvironment ==
    ASSUME RosterInv, Environment, UNCHANGED <<academics, enrolled, promoted>>
    PROVE  RosterInv'
<1>1. AcademicsInv' /\ raced' = raced /\ \A s \in Reqs : Waits(s)' => req'[s] = req[s]
    BY AcademicsEnvironment DEF RosterInv
<1>2. RosterRows'
    BY DEF RosterInv, RosterRows
<1> QED
    BY <1>1, <1>2, RosterKeeps

\* Every step of the roster keeps its invariant.
LEMMA RosterSteps ==
    ASSUME RosterInv, RosterNext
    PROVE  RosterInv'
<1>1. ASSUME NEW r \in Reqs, RosterRequest(r), UNCHANGED queue
      PROVE  RosterInv'
    <2>1. CASE \E s \in Students, section \in Sections : Enroll(r, s, section) \/ Move(r, s, section)
      BY <1>1, <2>1, RosterChecks
    <2>2. CASE \E s \in Students : Unenroll(r, s)
      BY <1>1, <2>2, RosterChecks
    <2>3. CASE \E s \in Students : RolloverRow(r, s) \/ RolloverSkip(r, s)
      BY <1>1, <2>3, RolloverGoesOn
    <2>4. CASE WriteEnroll(r) \/ WriteUnenroll(r) \/ WriteMove(r) \/ RolloverEnd(r)
      BY <1>1, <2>4, RosterWrites
    <2>5. CASE Rollover(r)
      BY <1>1, <2>5, RolloverBegins
    <2>6. CASE RolloverMove(r)
      BY <1>1, <2>6, RolloverMoves
    <2>7. CASE NodeRequest(r) /\ UNCHANGED <<enrolled, promoted>>
      BY <1>1, <2>7, RosterNodes
    <2> QED
      BY <1>1, <2>1, <2>2, <2>3, <2>4, <2>5, <2>6, <2>7 DEF RosterRequest
<1> QED
    BY <1>1, RosterEnvironment DEF RosterNext

\* A student moves up in the rollover's own step, to the section its plan has.
LEMMA PromotesOnce ==
    ASSUME RosterInv, RosterNext, NEW s \in Students, promoted'[s] > promoted[s]
    PROVE  \/ raced
           \/ /\ promoted[s] = 0
              /\ enrolled'[s].section = <<enrolled[s].section[1] + 1, enrolled[s].section[2]>>
<1>1. promoted[s] \in Nat /\ promoted \in [Students -> Nat]
    BY DEF RosterInv, RosterRows
<1>2. ~UNCHANGED promoted
    BY <1>1
<1>3. PICK r \in Reqs : RosterRequest(r) /\ UNCHANGED queue
    BY <1>2 DEF RosterNext
<1>4. CASE Rollover(r)
    <2>1. promoted'[s] = 0
      BY <1>4 DEF Rollover
    <2> QED
      BY <1>1, <2>1
<1>5. CASE RolloverMove(r)
    <2>1. req[r].op = "rollover_move" /\ req[r].op \in RosterOps
      BY <1>5 DEF RolloverMove, RosterOps
    <2>2. /\ RosterRows /\ (~raced => Rolling(r)) /\ req[r].on \in Students
      BY <2>1, RosterWaits
    <2>3. /\ promoted' = [promoted EXCEPT ![req[r].on] = promoted[req[r].on] + 1]
          /\ enrolled' = [enrolled EXCEPT ![req[r].on] = [section |-> req[r].mem[req[r].on],
                                                         is_active |-> enrolled[req[r].on].is_active]]
      BY <2>2, <1>5 DEF RolloverMove, Place, RosterRows
    <2>4. s = req[r].on
      BY <1>1, <2>3
    <2>5. enrolled'[s].section = req[r].mem[s]
      BY <2>2, <2>3, <2>4 DEF RosterRows
    <2>6. ~raced => Up(s, r)
      BY <2>1, <2>2, <2>4 DEF Rolling
    <2> QED
      BY <2>5, <2>6 DEF Up
<1>6. CASE ~Rollover(r) /\ ~RolloverMove(r)
    <2>1. UNCHANGED promoted
      BY <1>3, <1>6 DEF RosterRequest, Enroll, Move, Unenroll, CheckedRow, RolloverRow, RolloverSkip, WriteEnroll,
                        WriteUnenroll, WriteMove, RolloverEnd
    <2> QED
      BY <1>2, <2>1
<1> QED
    BY <1>4, <1>5, <1>6

----------------------------------------------------------------------------
(* The directory and its import.                                           *)

\* Nobody has a USN yet.
LEMMA DirectoryIdle ==
    DirectoryInit /\ BackendInit => DirectoryInv
<1> SUFFICES ASSUME DirectoryInit, BackendInit PROVE DirectoryInv
    OBVIOUS
<1>1. Serving(DirectoryOps, Profiles, File) /\ \A r \in Reqs : ~Waits(r)
    BY Idles
<1>2. DirectoryRows
    BY DEF DirectoryInit, DirectoryRows, File, NoRow, Report, NewReport
<1>3. \A r \in Reqs : ~report[r].ended
    BY DEF DirectoryInit, NewReport
<1> QED
    BY <1>1, <1>2, <1>3 DEF DirectoryInv

\* Operations and USNs have names of their own.
LEMMA DirectoryNone ==
    /\ None \notin DirectoryOps /\ "publish" \notin DirectoryOps
    /\ \A u \in Usns : u # None
BY DirectoryNames, DirectoryAssumption DEF DirectoryOps

\* Nothing is left of a file without rows.
LEMMA RowsNone ==
    Rows(NoRow) = {}
BY DEF Rows, NoRow

\* The first row is updated, or its USN is taken, and the rest is left.
LEMMA RowDone ==
    ASSUME NEW done \in Report, NEW rest \in File, ImportSoFar(done, rest),
           NEW p \in Profiles, rest[p] # None, First(rest, p),
           NEW next, next = [rest EXCEPT ![p] = None]
    PROVE  /\ ImportSoFar([done EXCEPT !.updated = @ \cup {p}], next)
           /\ ImportSoFar([done EXCEPT !.taken = @ \cup {p}], next)
<1>1. /\ Rows(next) = Rows(rest) \ {p} /\ p \in Rows(rest) /\ Rows(rest) \subseteq Profiles
      /\ done.valid \subseteq Profiles
    BY DEF Rows, File, Report
<1>2. done.failed = {} /\ p \in done.valid /\ p \notin done.taken /\ Rows(next) \subseteq done.valid \ done.taken
    BY <1>1 DEF ImportSoFar
<1>3. done.updated = done.valid \ (done.taken \cup Rows(rest))
    BY <1>2 DEF ImportSoFar
<1>4. ASSUME NEW x \in done.valid \ Rows(next), NEW y \in Rows(next) PROVE x < y
    <2>1. CASE x = p
      <3>1. y \in Profiles /\ y # p /\ ~(y < p)
        BY <1>1, <1>4 DEF First, Rows
      <3> QED
        BY <2>1, <3>1, DirectoryAssumption
    <2>2. CASE x # p
      BY <1>1, <1>4, <2>2 DEF ImportSoFar
    <2> QED
      BY <2>1, <2>2
<1>5. ImportSoFar([done EXCEPT !.updated = @ \cup {p}], next)
    <2> DEFINE a == [done EXCEPT !.updated = @ \cup {p}]
    <2>1. a.valid = done.valid /\ a.taken = done.taken /\ a.failed = {} /\ a.updated = done.updated \cup {p}
      BY <1>2 DEF Report
    <2> HIDE DEF a
    <2>2. a.updated = a.valid \ (a.taken \cup Rows(next))
      BY <1>1, <1>2, <1>3, <2>1
    <2>3. ImportSoFar(a, next)
      BY <1>2, <1>4, <2>1, <2>2 DEF ImportSoFar
    <2> QED
      BY <2>3 DEF a
<1>6. ImportSoFar([done EXCEPT !.taken = @ \cup {p}], next)
    <2> DEFINE a == [done EXCEPT !.taken = @ \cup {p}]
    <2>1. a.valid = done.valid /\ a.taken = done.taken \cup {p} /\ a.failed = {} /\ a.updated = done.updated
      BY <1>2 DEF Report
    <2> HIDE DEF a
    <2>2. a.updated = a.valid \ (a.taken \cup Rows(next))
      BY <1>1, <1>2, <1>3, <2>1
    <2>3. Rows(next) \subseteq a.valid \ a.taken
      BY <1>1, <1>2, <2>1
    <2>4. ImportSoFar(a, next)
      BY <1>4, <2>1, <2>2, <2>3 DEF ImportSoFar
    <2> QED
      BY <2>4 DEF a
<1> QED
    BY <1>5, <1>6

\* The first row fails, whether its USN is taken or not, and with it the rest.
LEMMA RowFailed ==
    ASSUME NEW done \in Report, NEW rest \in File, ImportSoFar(done, rest),
           NEW p \in Profiles, rest[p] # None, First(rest, p),
           NEW a \in Report, a.valid = done.valid, a.updated = done.updated, a.failed = done.failed \cup {p},
           a.taken \in {done.taken, done.taken \cup {p}}
    PROVE  ImportSoFar(a, NoRow)
<1>1. p \in Rows(rest) /\ Rows(rest) \subseteq Profiles /\ done.valid \subseteq Profiles /\ done.failed = {}
    BY DEF Rows, File, Report, ImportSoFar
<1>2. a.failed = {p}
    BY <1>1
<1>3. done.updated = done.valid \ (done.taken \cup Rows(rest))
    BY <1>1 DEF ImportSoFar
<1>4. \A x \in done.valid : x < p <=> x \notin Rows(rest)
    <2>1. ASSUME NEW x \in done.valid, x \notin Rows(rest) PROVE x < p
      BY <1>1, <2>1 DEF ImportSoFar
    <2>2. ASSUME NEW x \in Rows(rest) PROVE ~(x < p)
      BY <1>1, <2>2 DEF First, Rows
    <2> QED
      BY <2>1, <2>2
<1>5. a.updated = {x \in a.valid \ a.taken : \A q \in a.failed : x < q}
    BY <1>1, <1>2, <1>3, <1>4
<1> QED
    BY <1>5, RowsNone DEF ImportSoFar

\* A request that begins.
LEMMA DirectoryBegins ==
    ASSUME DirectoryInv, NEW r \in Reqs, NEW op \in {"upsert_profile", "import"}, NEW on \in Profiles \cup {None},
           NEW mem \in File, Begin(r, op, on, mem), UNCHANGED queue, DirectoryRows',
           op = "upsert_profile" => on \in Profiles /\ mem[on] # None,
           op = "import" => /\ ~report'[r].ended /\ ImportSoFar(report'[r], mem)
                            /\ report'[r].taken = {} /\ ImportRest(mem)',
           \A s \in Reqs \ {r} : report'[s] = report[s],
           report'[r].ended => report'[r] = report[r]
    PROVE  DirectoryInv'
<1>1. Serving(DirectoryOps, Profiles, File) /\ op \in DirectoryOps /\ mem \in File \cup {None}
    BY DEF DirectoryInv, DirectoryOps
<1>2. /\ Serving(DirectoryOps, Profiles, File)'
      /\ req'[r].op = op /\ req'[r].on = on /\ req'[r].mem = mem
      /\ \A s \in Reqs \ {r} : req'[s] = req[s]
      /\ ~Waits(r)
      /\ ~raced' => ~raced /\ Only(r)
    BY <1>1, DirectoryNone, Begins
<1>3. \A s \in Reqs : Waits(s)' => OnProfile(s)'
    <2>1. OnProfile(r)'
      BY <1>2 DEF OnProfile
    <2>2. ASSUME NEW s \in Reqs \ {r}, Waits(s)' PROVE OnProfile(s)'
      BY <1>2, <2>2 DEF DirectoryInv, OnProfile, Waits
    <2> QED
      BY <2>1, <2>2
<1>4. ASSUME ~raced', NEW s \in Reqs, Waits(s)' PROVE Only(s)' /\ ImportLeft(s)'
    <2>1. s = r /\ Only(r)'
      BY <1>2, <1>4 DEF Only, Waits
    <2>2. ImportLeft(r)'
      BY <1>2 DEF ImportLeft
    <2> QED
      BY <2>1, <2>2
<1>5. \A s \in Reqs : report'[s].ended => ImportEnded(s)'
    BY <1>2 DEF DirectoryInv, ImportEnded
<1> QED
    BY <1>2, <1>3, <1>4, <1>5 DEF DirectoryInv

\* A request that ends.
LEMMA DirectoryEnds ==
    ASSUME DirectoryInv, NEW r \in Reqs, Waits(r), End(r), UNCHANGED queue, DirectoryRows',
           \A s \in Reqs \ {r} : report'[s] = report[s],
           report'[r].ended => ImportEnded(r)'
    PROVE  DirectoryInv'
<1>1. Serving(DirectoryOps, Profiles, File)
    BY DEF DirectoryInv
<1>2. /\ Serving(DirectoryOps, Profiles, File)' /\ raced' = raced
      /\ req'[r] = NoReq /\ \A s \in Reqs \ {r} : req'[s] = req[s]
    BY <1>1, Ends
<1>3. \A s \in Reqs : Waits(s)' => s # r /\ Waits(s) /\ req'[s] = req[s]
    BY <1>2 DEF Waits, NoReq
<1>4. \A s \in Reqs : Waits(s)' => OnProfile(s)'
    BY <1>3 DEF DirectoryInv, OnProfile
<1>5. ~raced' => \A s \in Reqs : ~Waits(s)'
    BY <1>2, <1>3 DEF DirectoryInv, Only
<1>6. \A s \in Reqs : report'[s].ended => ImportEnded(s)'
    BY <1>2 DEF DirectoryInv, ImportEnded
<1> QED
    BY <1>2, <1>4, <1>5, <1>6 DEF DirectoryInv

\* An import that goes on.
LEMMA DirectoryProceeds ==
    ASSUME DirectoryInv, NEW r \in Reqs, Waits(r), NEW op \in {"import", "import_row"},
           NEW on \in Profiles \cup {None}, NEW mem \in File,
           Puts(r, Onward(op, on, mem)), UNCHANGED <<raced, faults, queue>>, DirectoryRows',
           op = "import_row" => on \in Profiles /\ mem[on] # None /\ First(mem, on),
           \A s \in Reqs \ {r} : report'[s] = report[s],
           ~report'[r].ended, ImportSoFar(report'[r], mem),
           ~raced => report'[r].taken = {} /\ ImportRest(mem)'
    PROVE  DirectoryInv'
<1>1. Serving(DirectoryOps, Profiles, File) /\ op \in DirectoryOps /\ mem \in File \cup {None}
      /\ UNCHANGED raced /\ faults' \in 0..MaxFaults /\ UNCHANGED queue
    BY DEF DirectoryInv, DirectoryOps, Serving
<1>2. /\ Serving(DirectoryOps, Profiles, File)'
      /\ req'[r].op = op /\ req'[r].on = on /\ req'[r].mem = mem
      /\ \A s \in Reqs \ {r} : req'[s] = req[s]
    BY <1>1, DirectoryNone, Proceeds
<1>3. \A s \in Reqs : Waits(s)' => OnProfile(s)'
    <2>1. OnProfile(r)'
      BY <1>2 DEF OnProfile
    <2>2. ASSUME NEW s \in Reqs \ {r}, Waits(s)' PROVE OnProfile(s)'
      BY <1>2, <2>2 DEF DirectoryInv, OnProfile, Waits
    <2> QED
      BY <2>1, <2>2
<1>4. ASSUME ~raced', NEW s \in Reqs, Waits(s)' PROVE Only(s)' /\ ImportLeft(s)'
    <2>1. Only(r) /\ ~raced
      BY <1>1, <1>4 DEF DirectoryInv
    <2>2. s = r /\ Only(r)'
      BY <1>2, <1>4, <2>1 DEF Only, Waits
    <2>3. ImportLeft(r)'
      BY <1>2, <2>1 DEF ImportLeft
    <2> QED
      BY <2>2, <2>3
<1>5. \A s \in Reqs : report'[s].ended => ImportEnded(s)'
    BY <1>2 DEF DirectoryInv, ImportEnded
<1> QED
    BY <1>2, <1>3, <1>4, <1>5 DEF DirectoryInv

\* What a request on the directory has.
LEMMA DirectoryWaits ==
    ASSUME DirectoryInv, NEW r \in Reqs, req[r].op \in DirectoryOps
    PROVE  /\ DirectoryRows /\ Waits(r) /\ OnProfile(r)
           /\ req[r] = [op |-> req[r].op, on |-> req[r].on, mem |-> req[r].mem, task |-> None]
           /\ ~raced => ImportLeft(r)
<1>1. Waits(r)
    BY DirectoryNone DEF Waits
<1>2. req[r] = [op |-> req[r].op, on |-> req[r].on, mem |-> req[r].mem, task |-> None]
    BY DEF DirectoryInv, Serving
<1> QED
    BY <1>1, <1>2 DEF DirectoryInv

\* An upsert that has checked its USN.
LEMMA ProfileChecks ==
    ASSUME DirectoryInv, NEW r \in Reqs, NEW p \in Profiles, NEW u \in Usns, UpsertProfile(r, p, u), UNCHANGED queue
    PROVE  DirectoryInv'
<1>1. PICK mem \in File : mem = [NoRow EXCEPT ![p] = u]
    BY DEF File, NoRow
<1>2. mem[p] # None
    BY <1>1, DirectoryNone DEF NoRow
<1>3. Begin(r, "upsert_profile", p, mem) /\ UNCHANGED directory
    BY <1>1 DEF UpsertProfile
<1>4. DirectoryRows' /\ UNCHANGED report
    BY <1>3 DEF DirectoryInv, DirectoryRows, directory
<1> QED
    BY <1>2, <1>3, <1>4, DirectoryBegins

\* The preview of an import is what it can write.
LEMMA ImportChecks ==
    ASSUME DirectoryInv, NEW r \in Reqs, Import(r), UNCHANGED queue
    PROVE  DirectoryInv'
<1>1. PICK file \in File :
          /\ Begin(r, "import", None, [p \in Profiles |-> IF p \in Preview(file) THEN file[p] ELSE None])
          /\ report' = [report EXCEPT ![r] = NewReport(Preview(file))]
          /\ UNCHANGED usn
    BY DEF Import
<1>2. PICK mem : mem = [p \in Profiles |-> IF p \in Preview(file) THEN file[p] ELSE None]
    OBVIOUS
<1>3. mem \in File
    BY <1>2 DEF File
<1>4. DirectoryRows
    BY DEF DirectoryInv
<1>5. Preview(file) \in SUBSET Profiles
    BY DEF Preview
<1>6. /\ DirectoryRows'
      /\ report'[r] = [valid |-> Preview(file), updated |-> {}, taken |-> {}, failed |-> {}, ended |-> FALSE]
      /\ \A s \in Reqs \ {r} : report'[s] = report[s]
    BY <1>1, <1>4, <1>5 DEF DirectoryRows, Report, NewReport
<1>7. \A p \in Profiles : p \in Preview(file) <=> mem[p] # None
    BY <1>2 DEF Preview
<1>8. \A p \in Preview(file) : mem[p] = file[p]
    BY <1>2, <1>5
<1>9. \A p, q \in Preview(file) : p # q => mem[p] # mem[q]
    <2>1. ASSUME NEW p \in Preview(file), NEW q \in Preview(file), p < q
          PROVE  mem[p] # mem[q]
      <3>1. \A x \in Profiles : x < q => file[x] # file[q]
        BY <2>1, Zenon DEF Preview
      <3> QED
        BY <2>1, <3>1, <1>5, <1>8
    <2>2. \A p, q \in Profiles : p # q => p < q \/ q < p
      <3>1. \A m, n \in Nat : m # n => m < n \/ n < m
        OBVIOUS
      <3> QED
        BY <3>1, DirectoryAssumption
    <2> QED
      BY <2>1, <2>2, <1>5
<1>10. \A p \in Preview(file) : Free(p, mem[p])'
    BY <1>1, <1>8 DEF Preview, Free
<1>11. Rows(mem) = Preview(file)
    BY <1>5, <1>7 DEF Rows
<1>12. ImportRest(mem)' /\ ImportSoFar(report'[r], mem)
    BY <1>6, <1>9, <1>10, <1>11 DEF ImportRest, ImportSoFar
<1>13. Begin(r, "import", None, mem)
    BY <1>1, <1>2
<1> QED
    BY <1>3, <1>6, <1>12, <1>13, DirectoryBegins

\* The next row of an import, if it is still free, or else the row after it.
LEMMA ImportRows ==
    ASSUME DirectoryInv, NEW r \in Reqs, NEW p \in Profiles, ImportRow(r, p), UNCHANGED queue
    PROVE  DirectoryInv'
<1>1. /\ req[r].op = "import" /\ req[r].op \in DirectoryOps /\ req[r].mem[p] # None
      /\ First(req[r].mem, p)
      /\ UNCHANGED <<usn, raced, faults>>
    BY DEF ImportRow, DirectoryOps, First
<1>2. PICK mem, on : mem = req[r].mem /\ on = req[r].on
    OBVIOUS
<1>3. /\ DirectoryRows /\ Waits(r) /\ OnProfile(r)
      /\ req[r] = [op |-> "import", on |-> on, mem |-> mem, task |-> None]
      /\ ~raced => ImportLeft(r)
    BY <1>1, <1>2, DirectoryWaits
<1>4. /\ mem \in File /\ mem[p] # None /\ First(mem, p) /\ on \in Profiles \cup {None}
      /\ report[r] \in Report /\ ~report[r].ended /\ ImportSoFar(report[r], mem)
    <2>1. on \in Profiles \cup {None}
      BY <1>2 DEF DirectoryInv, Serving
    <2> QED
      BY <2>1, <1>1, <1>2, <1>3 DEF OnProfile, DirectoryRows
<1>5. ~raced => report[r].taken = {} /\ ImportRest(mem)
    BY <1>1, <1>2, <1>3 DEF ImportLeft
<1>6. CASE Free(p, mem[p])
    <2> DEFINE a == [req[r] EXCEPT !.op = "import_row"]
               b == [a EXCEPT !.on = p]
    <2>1. req' = [req EXCEPT ![r] = b]
      BY <1>2, <1>3, <1>6 DEF ImportRow, DirectoryInv, Serving
    <2>2. a = Onward("import_row", on, mem)
      BY <1>3 DEF Onward
    <2> HIDE DEF a
    <2>3. b = Onward("import_row", p, mem)
      BY <2>2 DEF Onward
    <2> HIDE DEF b
    <2>4. Puts(r, Onward("import_row", p, mem))
      BY <2>1, <2>3 DEF Puts
    <2>5. report' = report /\ DirectoryRows'
      BY <1>1, <1>2, <1>3, <1>6 DEF ImportRow, DirectoryRows
    <2>6. ~raced => report'[r].taken = {} /\ ImportRest(mem)'
      BY <1>1, <1>5, <2>5 DEF ImportRest, Free
    <2> QED
      BY <1>1, <1>3, <1>4, <2>4, <2>5, <2>6, DirectoryProceeds
<1>7. CASE ~Free(p, mem[p])
    <2>1. raced
      BY <1>4, <1>5, <1>7 DEF ImportRest, Rows
    <2> DEFINE rest == [mem EXCEPT ![p] = None]
               b == [req[r] EXCEPT !.mem = rest]
    <2>2. req' = [req EXCEPT ![r] = b]
      BY <1>2, <1>3, <1>7 DEF ImportRow, DirectoryInv, Serving
    <2>3. report' = [report EXCEPT ![r] = [report[r] EXCEPT !.taken = @ \cup {p}]]
      BY <1>2, <1>7 DEF ImportRow
    <2>4. rest \in File /\ ImportSoFar([report[r] EXCEPT !.taken = @ \cup {p}], rest)
      BY <1>4, RowDone DEF File
    <2> HIDE DEF rest
    <2>5. b = Onward("import", on, rest)
      BY <1>3 DEF Onward
    <2> HIDE DEF b
    <2>6. Puts(r, Onward("import", on, rest))
      BY <2>2, <2>5 DEF Puts
    <2>7. /\ [report[r] EXCEPT !.taken = @ \cup {p}] \in Report
          /\ ~[report[r] EXCEPT !.taken = @ \cup {p}].ended
      BY <1>4 DEF Report
    <2>8. /\ DirectoryRows' /\ report'[r] = [report[r] EXCEPT !.taken = @ \cup {p}]
          /\ \A s \in Reqs \ {r} : report'[s] = report[s]
      BY <1>1, <1>3, <2>3, <2>7 DEF DirectoryRows
    <2> QED
      BY <1>1, <1>3, <1>4, <2>1, <2>4, <2>6, <2>7, <2>8, DirectoryProceeds
<1> QED
    BY <1>6, <1>7

\* The write of a row, and what it leaves of the file.
LEMMA ImportRowWrites ==
    ASSUME DirectoryInv, NEW r \in Reqs, WriteImportRow(r), UNCHANGED queue
    PROVE  DirectoryInv'
<1>1. req[r].op = "import_row" /\ req[r].op \in DirectoryOps /\ UNCHANGED <<raced, faults>>
    BY DEF WriteImportRow, DirectoryOps
<1>2. PICK mem, p : mem = req[r].mem /\ p = req[r].on
    OBVIOUS
<1>3. /\ DirectoryRows /\ Waits(r) /\ OnProfile(r)
      /\ req[r] = [op |-> "import_row", on |-> p, mem |-> mem, task |-> None]
      /\ ~raced => ImportLeft(r)
    BY <1>1, <1>2, DirectoryWaits
<1>4. /\ mem \in File /\ p \in Profiles /\ mem[p] # None /\ First(mem, p)
      /\ report[r] \in Report /\ ~report[r].ended /\ ImportSoFar(report[r], mem)
    BY <1>1, <1>2, <1>3 DEF OnProfile, DirectoryRows
<1>5. ~raced => report[r].taken = {} /\ ImportRest(mem)
    BY <1>1, <1>2, <1>3 DEF ImportLeft
<1>6. ASSUME NEW rest \in File, NextImportRow(r, rest) PROVE Puts(r, Onward("import", None, rest))
    <2> DEFINE a == [req[r] EXCEPT !.op = "import"]
               c == [a EXCEPT !.on = None]
               b == [c EXCEPT !.mem = rest]
    <2>1. req' = [req EXCEPT ![r] = b]
      BY <1>6 DEF NextImportRow, DirectoryInv, Serving
    <2>2. a = Onward("import", p, mem)
      BY <1>3 DEF Onward
    <2> HIDE DEF a
    <2>3. c = Onward("import", None, mem)
      BY <2>2 DEF Onward
    <2> HIDE DEF c
    <2>4. b = Onward("import", None, rest)
      BY <2>3 DEF Onward
    <2> HIDE DEF b
    <2> QED
      BY <2>1, <2>4 DEF Puts
<1>7. usn' = usn \/ usn' = [usn EXCEPT ![p] = mem[p]]
    BY <1>2 DEF WriteImportRow, RowWritten, RowFails, Upserted
<1>8. usn' \in File
    BY <1>3, <1>4, <1>7 DEF DirectoryRows, File
<1>9. CASE RowWritten(r, p)
    <2>1. PICK rest \in File : rest = [mem EXCEPT ![p] = None]
      BY <1>4 DEF File
    <2>2. /\ Free(p, mem[p]) /\ usn' = [usn EXCEPT ![p] = mem[p]]
          /\ report' = [report EXCEPT ![r] = [report[r] EXCEPT !.updated = @ \cup {p}]]
          /\ NextImportRow(r, rest)
      BY <1>2, <1>9, <2>1 DEF RowWritten, Upserted
    <2>3. ImportSoFar([report[r] EXCEPT !.updated = @ \cup {p}], rest)
      BY <1>4, <2>1, RowDone
    <2>4. /\ [report[r] EXCEPT !.updated = @ \cup {p}] \in Report
          /\ ~[report[r] EXCEPT !.updated = @ \cup {p}].ended
          /\ [report[r] EXCEPT !.updated = @ \cup {p}].taken = report[r].taken
      BY <1>4 DEF Report
    <2>5. /\ DirectoryRows' /\ report'[r] = [report[r] EXCEPT !.updated = @ \cup {p}]
          /\ \A s \in Reqs \ {r} : report'[s] = report[s]
      BY <1>3, <1>8, <2>2, <2>4 DEF DirectoryRows
    <2>6. Rows(mem) = Rows(rest) \cup {p} /\ p \notin Rows(rest) /\ \A q \in Rows(rest) : rest[q] = mem[q]
      BY <1>4, <2>1 DEF Rows, File
    <2>7. ASSUME ~raced PROVE ImportRest(rest)'
      <3>1. ImportRest(mem)
        BY <1>5, <2>7
      <3>2. ASSUME NEW q \in Rows(rest), NEW x \in Profiles \ {q} PROVE usn'[x] # rest[q]
        <4>1. mem[q] # mem[p] /\ usn[x] # mem[q] /\ rest[q] = mem[q]
          BY <2>6, <3>1, <3>2 DEF ImportRest, Free
        <4>2. usn'[x] \in {usn[x], mem[p]}
          BY <1>3, <2>2, <3>2 DEF DirectoryRows, File
        <4> QED
          BY <4>1, <4>2
      <3>3. \A q, x \in Rows(rest) : q # x => rest[q] # rest[x]
        BY <2>6, <3>1 DEF ImportRest
      <3> QED
        BY <3>2, <3>3 DEF ImportRest, Free
    <2>8. Puts(r, Onward("import", None, rest))
      BY <1>6, <2>2
    <2>9. ~raced => report'[r].taken = {} /\ ImportRest(rest)'
      BY <1>5, <2>4, <2>5, <2>7
    <2> QED
      BY <1>1, <1>3, <2>3, <2>4, <2>5, <2>8, <2>9, DirectoryProceeds
<1>10. CASE RowFails(r, p)
    <2> DEFINE taken == report[r].taken \cup IF Free(p, mem[p]) THEN {} ELSE {p}
               done == WithFailure(report[r], p, Free(p, mem[p]))
    <2>1. report' = [report EXCEPT ![r] = done]
      BY <1>2, <1>10, Zenon DEF RowFails
    <2>2. taken \in {report[r].taken, report[r].taken \cup {p}} /\ taken \subseteq Profiles
      BY <1>4 DEF Report
    <2>3. done = [valid |-> report[r].valid, updated |-> report[r].updated, failed |-> report[r].failed \cup {p},
                  taken |-> taken, ended |-> report[r].ended]
      BY DEF WithFailure
    <2> HIDE DEF taken, done
    <2>4. /\ done \in Report /\ ~done.ended /\ done.taken = taken /\ done.valid = report[r].valid
          /\ done.updated = report[r].updated /\ done.failed = report[r].failed \cup {p}
      BY <1>4, <2>2, <2>3 DEF Report
    <2>5. ImportSoFar(done, NoRow)
      BY <1>4, <2>2, <2>4, RowFailed
    <2>6. DirectoryRows' /\ report'[r] = done /\ \A s \in Reqs \ {r} : report'[s] = report[s]
      BY <1>3, <1>8, <2>1, <2>4 DEF DirectoryRows
    <2>7. NoRow \in File
      BY DEF NoRow, File
    <2>8. Puts(r, Onward("import", None, NoRow))
      BY <1>6, <1>10, <2>7 DEF RowFails
    <2>9. ~raced => report'[r].taken = {} /\ ImportRest(NoRow)'
      <3>1. ~raced => Free(p, mem[p])
        BY <1>4, <1>5 DEF ImportRest, Rows
      <3>2. ImportRest(NoRow)'
        BY RowsNone DEF ImportRest
      <3> QED
        BY <1>5, <2>4, <2>6, <3>1, <3>2 DEF taken
    <2> QED
      BY <1>1, <1>3, <2>4, <2>5, <2>6, <2>7, <2>8, <2>9, DirectoryProceeds
<1> QED
    BY <1>2, <1>9, <1>10 DEF WriteImportRow

\* The end of an upsert, and of an import.
LEMMA DirectoryWrites ==
    ASSUME DirectoryInv, NEW r \in Reqs, WriteProfile(r) \/ ImportEnd(r), UNCHANGED queue
    PROVE  DirectoryInv'
<1>1. req[r].op \in {"upsert_profile", "import"} /\ req[r].op \in DirectoryOps /\ End(r)
    BY DEF WriteProfile, ImportEnd, DirectoryOps
<1>2. DirectoryRows /\ Waits(r) /\ OnProfile(r) /\ (~raced => ImportLeft(r))
    BY <1>1, DirectoryWaits
<1>3. CASE WriteProfile(r)
    <2>1. PICK p \in Profiles, u \in Usns \cup {None} : p = req[r].on /\ u = req[r].mem[p]
      BY <1>2, <1>3 DEF WriteProfile, OnProfile, File
    <2>2. usn' = usn \/ usn' = [usn EXCEPT ![p] = u]
      BY <1>3, <2>1 DEF WriteProfile, Upserted
    <2>3. DirectoryRows' /\ report' = report
      BY <1>2, <1>3, <2>2 DEF WriteProfile, DirectoryRows, File
    <2>4. report'[r].ended => ImportEnded(r)'
      BY <1>1, <1>2, <2>3 DEF DirectoryInv, ImportEnded, End
    <2> QED
      BY <1>1, <1>2, <2>3, <2>4, DirectoryEnds
<1>4. CASE ImportEnd(r)
    <2>1. /\ usn' = usn /\ report' = [report EXCEPT ![r].ended = TRUE]
          /\ req[r].op = "import" /\ req[r].mem = NoRow
      BY <1>4 DEF ImportEnd
    <2>2. /\ DirectoryRows'
          /\ report'[r] = [report[r] EXCEPT !.ended = TRUE]
          /\ \A s \in Reqs \ {r} : report'[s] = report[s]
      BY <1>2, <2>1 DEF DirectoryRows, Report
    <2>3. ImportSoFar(report[r], NoRow) /\ (~raced => report[r].taken = {})
      BY <1>2, <2>1 DEF OnProfile, ImportLeft
    <2>4. ImportEnded(r)'
      <3>1. report[r].updated = {p \in report[r].valid \ report[r].taken : \A q \in report[r].failed : p < q}
        BY <2>3, RowsNone DEF ImportSoFar
      <3>2. /\ report'[r].updated = report[r].updated /\ report'[r].valid = report[r].valid
            /\ report'[r].taken = report[r].taken /\ report'[r].failed = report[r].failed
        BY <1>2, <2>2 DEF DirectoryRows, Report
      <3>3. raced' = raced
        BY <1>1 DEF End
      <3> QED
        BY <2>3, <3>1, <3>2, <3>3 DEF ImportEnded
    <2> QED
      BY <1>1, <1>2, <2>2, <2>4, DirectoryEnds
<1> QED
    BY <1>3, <1>4

\* The environment ends a request, and leaves the rows.
LEMMA DirectoryEnvironment ==
    ASSUME DirectoryInv, Environment, UNCHANGED directory
    PROVE  DirectoryInv'
<1>1. Serving(DirectoryOps, Profiles, File)
    BY DEF DirectoryInv
<1>2. PICK r \in Reqs : /\ Serving(DirectoryOps, Profiles, File)' /\ raced' = raced
                        /\ req'[r] = NoReq /\ \A s \in Reqs \ {r} : req'[s] = req[s]
    BY <1>1, DirectoryNone, Abandons
<1>3. \A s \in Reqs : Waits(s)' => s # r /\ Waits(s) /\ req'[s] = req[s]
    BY <1>2 DEF Waits, NoReq
<1>4. report' = report /\ usn' = usn /\ DirectoryRows'
    BY DEF DirectoryInv, DirectoryRows, directory
<1>5. \A s \in Reqs : Waits(s)' => OnProfile(s)'
    BY <1>3, <1>4 DEF DirectoryInv, OnProfile
<1>6. ASSUME ~raced', NEW s \in Reqs, Waits(s)' PROVE Only(s)' /\ ImportLeft(s)'
    <2>1. Only(s) /\ ImportLeft(s) /\ req'[s] = req[s]
      BY <1>2, <1>3, <1>6 DEF DirectoryInv
    <2>2. Only(s)'
      BY <1>3, <2>1 DEF Only
    <2>3. ImportLeft(s)'
      BY <1>4, <2>1 DEF ImportLeft, ImportRest, Free
    <2> QED
      BY <2>2, <2>3
<1>7. \A s \in Reqs : report'[s].ended => ImportEnded(s)'
    BY <1>2, <1>4 DEF DirectoryInv, ImportEnded
<1> QED
    BY <1>2, <1>4, <1>5, <1>6, <1>7 DEF DirectoryInv

\* Every step of the directory keeps its invariant.
LEMMA DirectorySteps ==
    ASSUME DirectoryInv, DirectoryNext
    PROVE  DirectoryInv'
<1>1. ASSUME NEW r \in Reqs, DirectoryRequest(r), UNCHANGED queue
      PROVE  DirectoryInv'
    BY <1>1, ProfileChecks, ImportChecks, ImportRows, ImportRowWrites, DirectoryWrites DEF DirectoryRequest
<1> QED
    BY <1>1, DirectoryEnvironment DEF DirectoryNext

\* The invariant is as strong as ImportComplete.
LEMMA DirectorySafe ==
    DirectoryInv => ImportComplete
BY DEF DirectoryInv, ImportEnded, ImportComplete

----------------------------------------------------------------------------
(* The accounts.                                                           *)

\* A row as the table holds it.
AccountRow == [exists : BOOLEAN, identifier : Identifiers \cup {None}]

\* Operations and identifiers have names of their own.
LEMMA AccountNone ==
    None \notin AccountOps /\ "publish" \notin AccountOps /\ None \notin Identifiers
BY AccountNames DEF AccountOps

\* What a request writes, by its addresses.
LEMMA InsertsAre ==
    /\ \A emails \in SUBSET Email : \A f :
          f = [e \in emails |-> f[e]] /\ (\A e \in emails : \E i \in Identifiers \cup {None} : f[e] = Account(i))
          => f \in Inserts
    /\ \A f \in Inserts : /\ DOMAIN f \in SUBSET Email /\ f = [e \in DOMAIN f |-> f[e]]
                          /\ \A e \in DOMAIN f : f[e] \in AccountRow /\ f[e].exists
<1>1. ASSUME NEW emails \in SUBSET Email, NEW f, f = [e \in emails |-> f[e]],
             \A e \in emails : \E i \in Identifiers \cup {None} : f[e] = Account(i)
      PROVE  f \in Inserts
    <2>1. f \in [emails -> {Account(i) : i \in Identifiers \cup {None}}]
      BY <1>1
    <2> QED
      BY <2>1 DEF Inserts
<1>2. ASSUME NEW f \in Inserts
      PROVE  /\ DOMAIN f \in SUBSET Email /\ f = [e \in DOMAIN f |-> f[e]]
             /\ \A e \in DOMAIN f : f[e] \in AccountRow /\ f[e].exists
    <2>1. PICK emails \in SUBSET Email : f \in [emails -> {Account(i) : i \in Identifiers \cup {None}}]
      BY DEF Inserts
    <2>2. \A i \in Identifiers \cup {None} : Account(i) \in AccountRow /\ Account(i).exists
      BY DEF Account, AccountRow
    <2> QED
      BY <2>1, <2>2
<1> QED
    BY <1>1, <1>2

\* Nobody has an account yet.
LEMMA OnboardingIdle ==
    AccountInit /\ BackendInit => OnboardingInv
<1> SUFFICES ASSUME AccountInit, BackendInit PROVE OnboardingInv
    OBVIOUS
<1>1. Serving(AccountOps, {}, Inserts) /\ \A r \in Reqs : ~Waits(r)
    BY Idles
<1>2. \A e \in Email : account[e] = NoAccount /\ ~account[e].exists
    BY DEF AccountInit, NoAccount
<1>3. account \in [Email -> [exists : BOOLEAN, identifier : Identifiers \cup {None}]]
    BY DEF AccountInit, NoAccount
<1>4. Existing = {}
    BY <1>2 DEF Existing
<1>5. manual = {} /\ kept = TRUE
    BY DEF AccountInit
<1> QED
    BY <1>1, <1>2, <1>3, <1>4, <1>5 DEF OnboardingInv

\* A request that begins with accounts that are new.
LEMMA OnboardingBegins ==
    ASSUME OnboardingInv, NEW r \in Reqs, NEW op \in AccountOps, NEW mem \in Inserts,
           Begin(r, op, None, mem), UNCHANGED queue, UNCHANGED accounts, NewAccounts(mem)
    PROVE  OnboardingInv'
<1>1. Serving(AccountOps, {}, Inserts) /\ mem \in Inserts \cup {None}
    BY DEF OnboardingInv
<1>2. /\ Serving(AccountOps, {}, Inserts)'
      /\ req'[r].op = op /\ req'[r].mem = mem
      /\ \A s \in Reqs \ {r} : req'[s] = req[s]
      /\ ~Waits(r)
      /\ ~raced' => ~raced /\ Only(r)
    BY <1>1, AccountNone, Begins
<1>3. account' = account /\ manual' = manual /\ kept' = kept /\ Existing' = Existing
    BY DEF accounts, Existing
<1>4. \A s \in Reqs : Waits(s)' => req'[s].mem \in Inserts
    BY <1>2 DEF OnboardingInv, Waits
<1>5. NewAccounts(mem)'
    BY <1>3 DEF NewAccounts, Same
<1>6. ASSUME ~raced', NEW s \in Reqs, Waits(s)' PROVE Only(s)' /\ NewAccounts(req[s].mem)'
    <2>1. s = r /\ Only(r)'
      BY <1>2, <1>6 DEF Only, Waits
    <2> QED
      BY <2>1, <1>2, <1>5 DEF NewAccounts
<1>7. ~raced' => \A e, f \in Existing' :
          Same(e, f, account'[e].identifier, account'[f].identifier) => {e, f} \cap manual' # {}
    BY <1>2, <1>3 DEF OnboardingInv
<1> QED
    BY <1>2, <1>3, <1>4, <1>6, <1>7 DEF OnboardingInv

\* The requests end, or go on as they are, and the table changes.
LEMMA OnboardingRests ==
    ASSUME OnboardingInv, Serving(AccountOps, {}, Inserts)', raced => raced',
           account' \in [Email -> AccountRow],
           \A e \in Email : ~account'[e].exists => account'[e] = NoAccount,
           manual' \subseteq Email, kept',
           \A s \in Reqs : Waits(s)' => Waits(s) /\ req'[s] = req[s],
           ~raced' => \/ \A s \in Reqs : ~Waits(s)'
                      \/ account' = account,
           ~raced' => \A e, f \in Existing' :
               Same(e, f, account'[e].identifier, account'[f].identifier) => {e, f} \cap manual' # {}
    PROVE  OnboardingInv'
<1>1. \A s \in Reqs : Waits(s)' => req'[s].mem \in Inserts
    BY DEF OnboardingInv
<1>2. ASSUME ~raced', NEW s \in Reqs, Waits(s)' PROVE Only(s)' /\ NewAccounts(req[s].mem)'
    <2>1. Only(s) /\ NewAccounts(req[s].mem) /\ req'[s] = req[s]
      BY <1>2 DEF OnboardingInv
    <2>2. account' = account /\ Existing' = Existing
      BY <1>2 DEF Existing
    <2>3. Only(s)'
      BY <2>1 DEF Only
    <2>4. PICK mem : mem = req[s].mem
      OBVIOUS
    <2>5. NewAccounts(mem)'
      BY <2>1, <2>2, <2>4 DEF NewAccounts, Same
    <2> QED
      BY <2>1, <2>3, <2>4, <2>5 DEF NewAccounts
<1>3. kept' = TRUE
    <2>1. raced' \in BOOLEAN
      BY DEF Serving
    <2> QED
      OBVIOUS
<1> QED
    BY <1>1, <1>2, <1>3 DEF OnboardingInv, AccountRow

\* A preview whose rows are new to the table and to each other.
LEMMA NewRows ==
    ASSUME NEW mem,
           \A e \in DOMAIN mem : /\ e.box \notin ExistingBoxes
                                 /\ mem[e].identifier \notin ExistingIdentifiers,
           \A e, f \in DOMAIN mem : e # f =>
               e.box # f.box /\ (mem[e].identifier # mem[f].identifier \/ mem[e].identifier = None)
    PROVE  NewAccounts(mem)
<1>1. ASSUME NEW e \in DOMAIN mem, NEW f \in Existing
      PROVE  e.box # f.box /\ e # f /\ (mem[e].identifier # account[f].identifier \/ mem[e].identifier = None)
    <2>1. f.box \in ExistingBoxes
      BY DEF ExistingBoxes
    <2>2. account[f].identifier # None => account[f].identifier \in ExistingIdentifiers
      BY DEF ExistingIdentifiers
    <2> QED
      BY <2>1, <2>2
<1>2. DOMAIN mem \cap Existing = {}
    BY <1>1
<1> QED
    BY <1>1, <1>2 DEF NewAccounts, Same

\* The numbered students that are not there yet.
LEMMA GeneratedAreNew ==
    ASSUME OnboardingInv, NEW r \in Reqs, GenerateStudents(r), UNCHANGED queue
    PROVE  OnboardingInv'
<1>1. PICK box \in [Identifiers -> Boxes] :
          LET new == {i \in Identifiers : i \notin ExistingIdentifiers /\ box[i] \notin ExistingBoxes} IN
          /\ Begin(r, "generate_students", None,
                 [e \in {[box |-> box[i], upper |-> FALSE] : i \in new} |->
                     Account(CHOOSE i \in new : box[i] = e.box)])
          /\ UNCHANGED accounts
    BY DEF GenerateStudents
<1> DEFINE new == {i \in Identifiers : i \notin ExistingIdentifiers /\ box[i] \notin ExistingBoxes}
           emails == {[box |-> box[i], upper |-> FALSE] : i \in new}
<1>2. PICK mem : mem = [e \in emails |-> Account(CHOOSE i \in new : box[i] = e.box)]
    OBVIOUS
<1>3. Begin(r, "generate_students", None, mem) /\ UNCHANGED accounts
    BY <1>1, <1>2
<1>4. ASSUME NEW e \in emails
      PROVE  /\ e \in Email /\ e = [box |-> e.box, upper |-> FALSE] /\ e.box \notin ExistingBoxes
             /\ \E i \in new : box[i] = e.box /\ mem[e] = Account(i)
    <2>1. PICK j \in new : e = [box |-> box[j], upper |-> FALSE]
      OBVIOUS
    <2>2. e.box = box[j] /\ e \in Email
      BY <2>1 DEF Email
    <2>3. PICK i : i = CHOOSE k \in new : box[k] = e.box
      OBVIOUS
    <2>4. i \in new /\ box[i] = e.box
      BY <2>2, <2>3
    <2>5. mem[e] = Account(i)
      BY <1>2, <2>3
    <2> QED
      BY <2>1, <2>2, <2>4, <2>5
<1>5. DOMAIN mem = emails /\ emails \in SUBSET Email
    BY <1>2, <1>4
<1>6. new \subseteq Identifiers /\ \A i \in new : i \notin ExistingIdentifiers
    OBVIOUS
<1> HIDE DEF new, emails
<1>7. \A i : Account(i).identifier = i
    BY DEF Account
<1>8. mem \in Inserts
    <2>1. \A e \in emails : \E i \in Identifiers \cup {None} : mem[e] = Account(i)
      BY <1>4, <1>6
    <2>2. mem = [e \in emails |-> mem[e]]
      BY <1>2
    <2> QED
      BY <1>5, <2>1, <2>2, InsertsAre
<1>9. \A e, f \in emails : e # f => e.box # f.box
    BY <1>4
<1>10. ASSUME NEW e \in emails
       PROVE  mem[e].identifier \in new /\ box[mem[e].identifier] = e.box
    BY <1>4, <1>7
<1>11. \A e, f \in emails : e # f => mem[e].identifier # mem[f].identifier
    BY <1>9, <1>10
<1>12. \A e \in emails : e.box \notin ExistingBoxes /\ mem[e].identifier \notin ExistingIdentifiers
    BY <1>4, <1>6, <1>10
<1>13. NewAccounts(mem)
    BY <1>5, <1>9, <1>11, <1>12, NewRows
<1> QED
    BY <1>3, <1>8, <1>13, OnboardingBegins DEF AccountOps

\* The valid rows of a file.
LEMMA ValidRowsAreNew ==
    ASSUME OnboardingInv, NEW r \in Reqs, CommitFile(r), UNCHANGED queue
    PROVE  OnboardingInv'
<1>1. PICK file \in Files :
          /\ Begin(r, "commit_file", None,
                 [e \in {file[n].email : n \in PreviewFile(file)} |->
                     Account(file[CHOOSE n \in PreviewFile(file) : file[n].email = e].identifier)])
          /\ UNCHANGED accounts
    BY DEF CommitFile
<1>2. PICK valid : valid = PreviewFile(file)
    OBVIOUS
<1>3. PICK mem : mem = [e \in {file[n].email : n \in valid} |->
                            Account(file[CHOOSE n \in valid : file[n].email = e].identifier)]
    OBVIOUS
<1>4. Begin(r, "commit_file", None, mem) /\ UNCHANGED accounts
    BY <1>1, <1>2, <1>3
<1>5. PICK rows \in Nat : file \in [1..rows -> FileRow]
    <2>1. PICK n \in 1..MaxRows : file \in [1..n -> FileRow]
      BY DEF Files
    <2> QED
      BY <2>1
<1>6. ASSUME NEW n \in valid
      PROVE  /\ n \in 1..rows /\ file[n].email \in Email /\ file[n].identifier \in Identifiers \cup {None}
             /\ file[n].email.box \notin ExistingBoxes /\ file[n].identifier \notin ExistingIdentifiers
             /\ \A m \in 1..(n - 1) :
                   /\ file[m].email.box # file[n].email.box
                   /\ file[n].identifier \in {None} \cup (Identifiers \ {file[m].identifier})
    BY <1>2, <1>5 DEF PreviewFile, FreeInFile, FreeInTable, FileRow
<1>7. \A m, n \in valid : m # n =>
          /\ file[m].email.box # file[n].email.box
          /\ file[m].identifier # file[n].identifier \/ file[m].identifier = None
    <2>1. \A m, n \in valid : m # n => m \in 1..(n - 1) \/ n \in 1..(m - 1)
      <3>1. \A m, n \in 1..rows : m # n => m \in 1..(n - 1) \/ n \in 1..(m - 1)
        BY <1>5
      <3> QED
        BY <3>1, <1>6
    <2>2. \A m, n \in valid : m \in 1..(n - 1) =>
              /\ file[m].email.box # file[n].email.box
              /\ file[m].identifier # file[n].identifier \/ file[n].identifier = None
      BY <1>6
    <2> QED
      BY <2>1, <2>2
<1> DEFINE emails == {file[n].email : n \in valid}
<1>8. ASSUME NEW e \in emails
      PROVE  \E n \in valid : file[n].email = e /\ mem[e] = Account(file[n].identifier)
    <2>1. PICK k : k = CHOOSE n \in valid : file[n].email = e
      OBVIOUS
    <2>2. k \in valid /\ file[k].email = e
      BY <2>1
    <2>3. mem[e] = Account(file[k].identifier)
      BY <1>3, <2>1
    <2> QED
      BY <2>2, <2>3
<1>9. DOMAIN mem = emails /\ emails \in SUBSET Email /\ mem = [e \in emails |-> mem[e]]
    BY <1>3, <1>6
<1> HIDE DEF emails
<1>10. \A i : Account(i).identifier = i
    BY DEF Account
<1>11. mem \in Inserts
    <2>1. \A e \in emails : \E i \in Identifiers \cup {None} : mem[e] = Account(i)
      BY <1>6, <1>8
    <2> QED
      BY <1>9, <2>1, InsertsAre
<1>12. ASSUME NEW e \in emails
       PROVE  \E n \in valid : file[n].email = e /\ mem[e].identifier = file[n].identifier
    BY <1>8, <1>10
<1>13. \A e \in emails : e.box \notin ExistingBoxes /\ mem[e].identifier \notin ExistingIdentifiers
    BY <1>6, <1>12
<1>14. \A e, f \in emails : e # f =>
          e.box # f.box /\ (mem[e].identifier # mem[f].identifier \/ mem[e].identifier = None)
    BY <1>7, <1>12
<1>15. NewAccounts(mem)
    BY <1>9, <1>13, <1>14, NewRows
<1> QED
    BY <1>4, <1>11, <1>15, OnboardingBegins DEF AccountOps

\* The write, in one transaction.
LEMMA OnboardingWrites ==
    ASSUME OnboardingInv, NEW r \in Reqs, WriteAccounts(r), UNCHANGED queue
    PROVE  OnboardingInv'
<1>1. /\ Waits(r) /\ End(r) /\ manual' = manual
      /\ Serving(AccountOps, {}, Inserts)
    BY DEF WriteAccounts, Waits, OnboardingInv
<1>2. /\ Serving(AccountOps, {}, Inserts)' /\ raced' = raced
      /\ req'[r] = NoReq /\ \A s \in Reqs \ {r} : req'[s] = req[s]
    BY <1>1, Ends
<1>3. \A s \in Reqs : Waits(s)' => s # r /\ Waits(s) /\ req'[s] = req[s]
    BY <1>2 DEF Waits, NoReq
<1>4. ~raced' => \A s \in Reqs : ~Waits(s)'
    BY <1>1, <1>2, <1>3 DEF OnboardingInv, Only
<1>5. PICK new \in Inserts : new = req[r].mem
    BY <1>1 DEF OnboardingInv
<1>6. /\ account' = IF DOMAIN new \cap Existing = {}
                     THEN [e \in Email |-> IF e \in DOMAIN new THEN new[e] ELSE account[e]] ELSE account
      /\ kept' = (kept /\ (DOMAIN new \cap Existing = {} \/ raced))
    BY <1>5 DEF WriteAccounts
<1>7. /\ account \in [Email -> AccountRow] /\ kept /\ manual \subseteq Email
      /\ \A e \in Email : ~account[e].exists => account[e] = NoAccount
    BY DEF OnboardingInv, AccountRow
<1>8. ~raced => NewAccounts(new)
    BY <1>1, <1>5 DEF OnboardingInv
<1>9. kept'
    BY <1>6, <1>7, <1>8 DEF NewAccounts
<1>10. CASE DOMAIN new \cap Existing = {}
    <2>1. DOMAIN new \in SUBSET Email /\ \A e \in DOMAIN new : new[e] \in AccountRow /\ new[e].exists
      BY <1>5, InsertsAre
    <2>2. account' = [e \in Email |-> IF e \in DOMAIN new THEN new[e] ELSE account[e]]
      BY <1>6, <1>10
    <2>3. account' \in [Email -> AccountRow] /\ \A e \in Email : ~account'[e].exists => account'[e] = NoAccount
      BY <1>7, <2>1, <2>2
    <2>4. \A e \in Existing' : \/ e \in DOMAIN new /\ account'[e] = new[e]
                               \/ e \in Existing /\ account'[e] = account[e]
      BY <2>1, <2>2 DEF Existing
    <2>5. ASSUME ~raced', NEW e \in Existing', NEW f \in Existing',
                 Same(e, f, account'[e].identifier, account'[f].identifier)
          PROVE  {e, f} \cap manual' # {}
      <3>1. NewAccounts(new)
        BY <1>2, <1>8, <2>5
      <3>2. e \in Existing /\ account'[e] = account[e] /\ f \in Existing /\ account'[f] = account[f]
        BY <2>4, <2>5, <3>1 DEF NewAccounts, Same
      <3> QED
        BY <1>1, <1>2, <2>5, <3>2 DEF OnboardingInv
    <2> QED
      BY <1>1, <1>2, <1>3, <1>4, <1>7, <1>9, <2>3, <2>5, OnboardingRests
<1>11. CASE DOMAIN new \cap Existing # {}
    <2>1. account' = account /\ Existing' = Existing
      BY <1>6, <1>11 DEF Existing
    <2>2. ~raced' => \A e, f \in Existing' :
              Same(e, f, account'[e].identifier, account'[f].identifier) => {e, f} \cap manual' # {}
      BY <1>1, <1>2, <2>1 DEF OnboardingInv
    <2> QED
      BY <1>1, <1>2, <1>3, <1>4, <1>7, <1>9, <2>1, <2>2, OnboardingRests
<1> QED
    BY <1>10, <1>11

\* An administrator writes an account.
LEMMA OnboardingByHand ==
    ASSUME OnboardingInv, NEW e \in Email, NEW f \in Email, NEW identifier \in Identifiers \cup {None},
           \/ ByHand(e, {}, [account EXCEPT ![e] = Account(identifier)])
           \/ ByHand(f, {e}, [account EXCEPT ![e] = NoAccount, ![f] = Account(identifier)])
    PROVE  OnboardingInv'
<1>1. /\ account \in [Email -> AccountRow] /\ kept /\ manual \subseteq Email
      /\ \A g \in Email : ~account[g].exists => account[g] = NoAccount
      /\ Serving(AccountOps, {}, Inserts)
    BY DEF OnboardingInv, AccountRow
<1>2. /\ kept' = kept /\ req' = req /\ UNCHANGED <<queue, faults>>
      /\ raced' = (raced \/ \E r \in Reqs : req[r] # NoReq)
    BY DEF ByHand
<1>3. /\ Serving(AccountOps, {}, Inserts)' /\ (raced => raced')
      /\ ~raced' => ~raced /\ \A r \in Reqs : ~Waits(r)'
    <2>1. raced' \in BOOLEAN
      BY <1>2
    <2>2. raced => raced'
      BY <1>2
    <2>3. ~raced' => ~raced /\ \A r \in Reqs : req[r] = NoReq
      BY <1>2
    <2>4. \A r \in Reqs : req[r] = NoReq => ~Waits(r)
      BY DEF Waits, NoReq
    <2>5. \A r \in Reqs : Waits(r)' <=> Waits(r)
      BY <1>2 DEF Waits
    <2> QED
      BY <1>1, <1>2, <2>1, <2>2, <2>3, <2>4, <2>5 DEF Serving, queue
<1>4. Account(identifier) \in AccountRow /\ Account(identifier).exists /\ NoAccount \in AccountRow
      /\ ~NoAccount.exists
    BY DEF Account, AccountRow, NoAccount
<1>5. \A s \in Reqs : Waits(s)' => Waits(s) /\ req'[s] = req[s]
    BY <1>2 DEF Waits
<1>6. PICK g \in Email : /\ account' \in [Email -> AccountRow]
                         /\ \A h \in Email : ~account'[h].exists => account'[h] = NoAccount
                         /\ manual' \subseteq Email /\ g \in manual'
                         /\ \A h \in Existing' \ {g} : /\ h \in Existing /\ account'[h] = account[h]
                                                       /\ h \in manual => h \in manual'
    <2>1. CASE ByHand(e, {}, [account EXCEPT ![e] = Account(identifier)])
      <3>1. account' = [account EXCEPT ![e] = Account(identifier)] /\ manual' = manual \cup {e}
        BY <2>1 DEF ByHand
      <3>2. /\ account' \in [Email -> AccountRow]
            /\ \A h \in Email : account'[h] = IF h = e THEN Account(identifier) ELSE account[h]
        BY <1>1, <1>4, <3>1
      <3> QED
        BY <1>1, <1>4, <3>1, <3>2 DEF Existing
    <2>2. CASE ByHand(f, {e}, [account EXCEPT ![e] = NoAccount, ![f] = Account(identifier)])
      <3>1. /\ account' = [account EXCEPT ![e] = NoAccount, ![f] = Account(identifier)]
            /\ manual' = (manual \ {e}) \cup {f}
        BY <2>2 DEF ByHand
      <3>2. /\ account' \in [Email -> AccountRow]
            /\ \A h \in Email : account'[h] = IF h = f THEN Account(identifier)
                                              ELSE IF h = e THEN NoAccount ELSE account[h]
        BY <1>1, <1>4, <3>1
      <3> QED
        BY <1>1, <1>4, <3>1, <3>2 DEF Existing
    <2> QED
      BY <2>1, <2>2
<1>7. ASSUME ~raced', NEW h \in Existing', NEW k \in Existing',
             Same(h, k, account'[h].identifier, account'[k].identifier)
      PROVE  {h, k} \cap manual' # {}
    <2>1. CASE h = g \/ k = g
      BY <1>6, <2>1
    <2>2. CASE h # g /\ k # g
      <3>1. /\ h \in Existing /\ account'[h] = account[h] /\ (h \in manual => h \in manual')
            /\ k \in Existing /\ account'[k] = account[k] /\ (k \in manual => k \in manual')
        BY <1>6, <1>7, <2>2
      <3>2. {h, k} \cap manual # {}
        BY <1>3, <1>7, <3>1 DEF OnboardingInv
      <3> QED
        BY <3>1, <3>2
    <2> QED
      BY <2>1, <2>2
<1> QED
    BY <1>1, <1>2, <1>3, <1>5, <1>6, <1>7, OnboardingRests

\* The environment ends a request, and leaves the rows.
LEMMA OnboardingEnvironment ==
    ASSUME OnboardingInv, Environment, UNCHANGED accounts
    PROVE  OnboardingInv'
<1>1. /\ account \in [Email -> AccountRow] /\ kept /\ manual \subseteq Email
      /\ \A g \in Email : ~account[g].exists => account[g] = NoAccount
      /\ Serving(AccountOps, {}, Inserts)
    BY DEF OnboardingInv, AccountRow
<1>2. PICK r \in Reqs : /\ Serving(AccountOps, {}, Inserts)' /\ raced' = raced
                        /\ req'[r] = NoReq /\ \A s \in Reqs \ {r} : req'[s] = req[s]
    BY <1>1, AccountNone, Abandons
<1>3. \A s \in Reqs : Waits(s)' => Waits(s) /\ req'[s] = req[s]
    BY <1>2 DEF Waits, NoReq
<1>4. account' = account /\ manual' = manual /\ kept' = kept /\ Existing' = Existing
    BY DEF accounts, Existing
<1>5. ~raced' => \A e, f \in Existing' :
          Same(e, f, account'[e].identifier, account'[f].identifier) => {e, f} \cap manual' # {}
    BY <1>2, <1>4 DEF OnboardingInv
<1> QED
    BY <1>1, <1>2, <1>3, <1>4, <1>5, OnboardingRests

\* Every step of the accounts keeps their invariant.
LEMMA OnboardingSteps ==
    ASSUME OnboardingInv, AccountNext
    PROVE  OnboardingInv'
<1>1. CASE \E r \in Reqs : (GenerateStudents(r) \/ CommitFile(r) \/ WriteAccounts(r)) /\ UNCHANGED queue
    BY <1>1, GeneratedAreNew, ValidRowsAreNew, OnboardingWrites
<1>2. ASSUME NEW e \in Email, CreateUser(e) \/ \E f \in Email : UpdateAccount(e, f)
      PROVE  OnboardingInv'
    <2>1. PICK f \in Email, identifier \in Identifiers \cup {None} :
              \/ ByHand(e, {}, [account EXCEPT ![e] = Account(identifier)])
              \/ ByHand(f, {e}, [account EXCEPT ![e] = NoAccount, ![f] = Account(identifier)])
      <3>1. account[e].identifier \in Identifiers \cup {None}
        BY DEF OnboardingInv
      <3> QED
        BY <1>2, <3>1 DEF CreateUser, UpdateAccount
    <2> QED
      BY <2>1, OnboardingByHand
<1> QED
    BY <1>1, <1>2, OnboardingEnvironment DEF AccountNext

\* The invariant is as strong as OnboardingComplete.
LEMMA OnboardingSafe ==
    OnboardingInv => OnboardingComplete
<1> SUFFICES ASSUME OnboardingInv PROVE OnboardingComplete
    OBVIOUS
<1>1. kept
    BY DEF OnboardingInv
<1>2. ASSUME ~raced, NEW e \in Existing, NEW f \in Existing, e # f,
             e.box = f.box \/ (account[e].identifier = account[f].identifier /\ account[e].identifier # None)
      PROVE  {e, f} \cap manual # {}
    BY <1>2 DEF OnboardingInv, Same
<1> QED
    BY <1>1, <1>2 DEF OnboardingComplete

----------------------------------------------------------------------------
(* The components together.                                                *)

\* The rows of the components that a behaviour is not of.
TenantsSound ==
    \A t \in Tenants \ touched : Provisioned(t) /\ tenant[t].is_active = (tenant[t].status = "ACTIVE")

\* The nodes of a behaviour that is of another component.
NodesSound == AcademicsTypeOK /\ Hierarchy

\* The records of a behaviour that is of another component.
AttendanceSound == AttendanceRows /\ Timely

\* The imports of a behaviour that is of another component.
NothingImported == \A r \in Reqs : ~report[r].ended

\* The accounts of a behaviour that is of another component.
AccountsSound ==
    /\ kept
    /\ \A e, f \in Existing : Same(e, f, account[e].identifier, account[f].identifier) => {e, f} \cap manual # {}

\* The invariant of the component a behaviour is of, and what the others started with.
AdministrationInv ==
    /\ IF component = "tenants" THEN TenantInv ELSE TenantsSound
    /\ IF component = "roster" THEN RosterInv
       ELSE RosterRows /\ IF component = "academics" THEN AcademicsInv ELSE NodesSound
    /\ IF component = "attendance" THEN AttendanceInv ELSE AttendanceSound
    /\ IF component = "directory" THEN DirectoryInv ELSE NothingImported
    /\ IF component = "accounts" THEN OnboardingInv ELSE AccountsSound

\* The roster has the nodes in itself.
LEMMA RosterSafe ==
    RosterInv => HierarchySound
BY AcademicsSafe DEF RosterInv

\* Every component starts with its invariant.
LEMMA SoundInit ==
    Init => AdministrationInv
<1> SUFFICES ASSUME Init PROVE AdministrationInv
    OBVIOUS
<1>1. TenantInit /\ BackendInit /\ ~raced /\ \A r \in Reqs : ~Waits(r)
    <2>1. BackendInit
      BY DEF Init, TenantInit
    <2> QED
      BY <2>1 DEF Init, BackendInit, NoReq, Waits
<1>2. TenantInv /\ TenantsSound
    <2>1. TenantInv
      BY <1>1, TenantIdle
    <2> QED
      BY <1>1, <2>1 DEF TenantInv, TenantsSound
<1>3. RosterInv /\ RosterRows /\ AcademicsInv /\ NodesSound
    <2>1. RosterInv
      BY <1>1, RosterIdle DEF Init
    <2> QED
      BY <1>1, <2>1 DEF RosterInv, AcademicsInv, NodesSound
<1>4. AttendanceInv /\ AttendanceSound
    <2>1. AttendanceInv
      BY <1>1, AttendanceIdle DEF Init
    <2> QED
      BY <1>1, <2>1 DEF AttendanceInv, AttendanceSound
<1>5. DirectoryInv /\ NothingImported
    <2>1. DirectoryInv
      BY <1>1, DirectoryIdle DEF Init
    <2> QED
      BY <2>1 DEF NewReport, NothingImported, Init, DirectoryInit
<1>6. OnboardingInv /\ AccountsSound
    <2>1. OnboardingInv
      BY <1>1, OnboardingIdle DEF Init
    <2> QED
      BY <1>1, <2>1 DEF OnboardingInv, AccountsSound
<1> QED
    BY <1>2, <1>3, <1>4, <1>5, <1>6 DEF AdministrationInv

\* Rows that nobody writes stay what they are.
LEMMA RowsRest ==
    /\ TenantsSound /\ UNCHANGED tenants => TenantsSound'
    /\ RosterRows /\ UNCHANGED <<enrolled, promoted>> => RosterRows'
    /\ NodesSound /\ UNCHANGED academics => NodesSound'
    /\ AttendanceSound /\ UNCHANGED attendance => AttendanceSound'
    /\ NothingImported /\ UNCHANGED directory => NothingImported'
    /\ AccountsSound /\ UNCHANGED accounts => AccountsSound'
<1>1. TenantsSound /\ UNCHANGED tenants => TenantsSound'
    BY DEF TenantsSound, Provisioned, tenants
<1>2. RosterRows /\ UNCHANGED <<enrolled, promoted>> => RosterRows'
    BY DEF RosterRows
<1>3. NodesSound /\ UNCHANGED academics => NodesSound'
    BY DEF NodesSound, AcademicsTypeOK, Hierarchy, Primaries, academics
<1>4. AttendanceSound /\ UNCHANGED attendance => AttendanceSound'
    BY DEF AttendanceSound, AttendanceRows, Timely, Past, InWindow, Reference, Explained, attendance
<1>5. NothingImported /\ UNCHANGED directory => NothingImported'
    BY DEF NothingImported, directory
<1>6. AccountsSound /\ UNCHANGED accounts => AccountsSound'
    BY DEF AccountsSound, Existing, Same, accounts
<1> QED
    BY <1>1, <1>2, <1>3, <1>4, <1>5, <1>6

\* And a component that does nothing at all keeps its invariant.
LEMMA ComponentsRest ==
    ASSUME UNCHANGED administration
    PROVE  /\ TenantInv => TenantInv'
           /\ AcademicsInv => AcademicsInv'
           /\ RosterInv => RosterInv'
           /\ AttendanceInv => AttendanceInv'
           /\ DirectoryInv => DirectoryInv'
           /\ OnboardingInv => OnboardingInv'
<1> USE DEF administration, Waits, Only, Serving, backend, queue
<1>1. TenantInv => TenantInv'
    BY DEF TenantInv, Provisioned, ProvisionedSoFar, TenantRead, Row, tenants
<1>2. AcademicsInv => AcademicsInv'
    BY DEF AcademicsInv, AcademicsTypeOK, Hierarchy, Primaries, NodeRead, Named, academics, roster
<1>3. RosterInv => RosterInv'
    BY <1>2 DEF RosterInv, RosterRows, Rostered, Rolling, Up, roster
<1>4. AttendanceInv => AttendanceInv'
    BY DEF AttendanceInv, AttendanceRows, Timely, Past, InWindow, Reference, Explained, SessionRead,
           WindowRead, Editable, attendance
<1>5. DirectoryInv => DirectoryInv'
    BY DEF DirectoryInv, DirectoryRows, OnProfile, ImportLeft, ImportEnded, ImportRest, Free, directory
<1>6. OnboardingInv => OnboardingInv'
    BY DEF OnboardingInv, NewAccounts, Existing, Same, accounts
<1> QED
    BY <1>1, <1>2, <1>3, <1>4, <1>5, <1>6

\* A step is one of the component's, and the others rest.
LEMMA SoundSteps ==
    ASSUME AdministrationInv, [Next]_administration
    PROVE  AdministrationInv'
<1>1. CASE UNCHANGED administration
    BY <1>1, RowsRest, ComponentsRest DEF AdministrationInv, administration, roster
<1>2. CASE Next
    <2>1. CASE component = "tenants"
      <3>1. TenantNext /\ UNCHANGED <<component, academics, enrolled, promoted, attendance, directory, accounts>>
        BY <1>2, <2>1 DEF Next, roster
      <3> QED
        BY <2>1, <3>1, RowsRest, TenantSteps DEF AdministrationInv
    <2>2. CASE component = "academics"
      <3>1. AcademicsNext /\ UNCHANGED <<component, tenants, enrolled, promoted, attendance, directory, accounts>>
        BY <1>2, <2>2 DEF Next
      <3> QED
        BY <2>2, <3>1, RowsRest, AcademicsSteps DEF AdministrationInv
    <2>3. CASE component = "roster"
      <3>1. RosterNext /\ UNCHANGED <<component, tenants, attendance, directory, accounts>>
        BY <1>2, <2>3 DEF Next
      <3> QED
        BY <2>3, <3>1, RowsRest, RosterSteps DEF AdministrationInv
    <2>4. CASE component = "attendance"
      <3>1. /\ AttendanceNext
            /\ UNCHANGED <<component, tenants, academics, enrolled, promoted, directory, accounts>>
        BY <1>2, <2>4 DEF Next, roster
      <3> QED
        BY <2>4, <3>1, RowsRest, AttendanceSteps DEF AdministrationInv
    <2>5. CASE component = "directory"
      <3>1. /\ DirectoryNext
            /\ UNCHANGED <<component, tenants, academics, enrolled, promoted, attendance, accounts>>
        BY <1>2, <2>5 DEF Next, roster
      <3> QED
        BY <2>5, <3>1, RowsRest, DirectorySteps DEF AdministrationInv
    <2>6. CASE component = "accounts"
      <3>1. /\ AccountNext
            /\ UNCHANGED <<component, tenants, academics, enrolled, promoted, attendance, directory>>
        BY <1>2, <2>6 DEF Next, roster
      <3> QED
        BY <2>6, <3>1, RowsRest, OnboardingSteps DEF AdministrationInv
    <2>7. CASE component \in {"gates", "schema"}
      <3>1. UNCHANGED <<component, tenants, academics, enrolled, promoted, attendance, directory, accounts>>
        BY <1>2, <2>7 DEF Next, roster
      <3> QED
        BY <2>7, <3>1, RowsRest DEF AdministrationInv
    <2> QED
      BY <1>2, <2>1, <2>2, <2>3, <2>4, <2>5, <2>6, <2>7 DEF Next
<1> QED
    BY <1>1, <1>2

\* The invariant holds in every reachable state, for any number of requests, tenants,
\* students, rows of a file and faults.
THEOREM AdministrationInvariant == Spec => []AdministrationInv
<1>1. Init => AdministrationInv
    BY SoundInit
<1>2. AdministrationInv /\ [Next]_administration => AdministrationInv'
    BY SoundSteps
<1> QED
    BY <1>1, <1>2, PTL DEF Spec

\* A tenant users can reach has its schema and its administrator, whatever step of the
\* provisioning failed or was repeated (TenantUsable).
THEOREM UsableAlways == Spec => []TenantUsable
<1>1. AdministrationInv => TenantUsable
    BY TenantSafe DEF AdministrationInv, TenantsSound, TenantUsable, Provisioned
<1> QED
    BY <1>1, AdministrationInvariant, PTL

\* Unless requests overlapped, no active semester or section lies below an inactive node, and
\* no course has two PRIMARY faculty (HierarchySound).
THEOREM HierarchyAlways == Spec => []HierarchySound
<1>1. AdministrationInv => HierarchySound
    BY AcademicsSafe, RosterSafe, HierarchySafe DEF AdministrationInv, NodesSound
<1> QED
    BY <1>1, AdministrationInvariant, PTL

\* A rollover moves a student up once, into the section of the same name (PromotedOnce).
THEOREM PromotedOnceAlways == Spec => PromotedOnce
<1>1. AdministrationInv /\ [Next]_administration =>
          [\A s \in Students :
              promoted'[s] > promoted[s] =>
                  \/ raced
                  \/ /\ promoted[s] = 0
                     /\ enrolled'[s].section = <<enrolled[s].section[1] + 1, enrolled[s].section[2]>>]_rosterVars
    <2> SUFFICES ASSUME AdministrationInv, [Next]_administration, NEW s \in Students, promoted'[s] > promoted[s]
                 PROVE  \/ raced
                        \/ /\ promoted[s] = 0
                           /\ enrolled'[s].section = <<enrolled[s].section[1] + 1, enrolled[s].section[2]>>
      OBVIOUS
    <2>1. promoted[s] \in Nat
      BY DEF AdministrationInv, RosterInv, RosterRows
    <2>2. promoted' # promoted
      BY <2>1
    <2>3. component = "roster" /\ RosterNext
      BY <2>2 DEF Next, administration, roster
    <2> QED
      BY <2>3, PromotesOnce DEF AdministrationInv
<1> QED
    BY <1>1, AdministrationInvariant, PTL DEF Spec, PromotedOnce

\* No mark is saved outside its window, and none is edited without a reason (SavesInWindow).
THEOREM WindowAlways == Spec => []SavesInWindow
<1>1. AdministrationInv => SavesInWindow
    BY AttendanceSafe
       DEF AdministrationInv, AttendanceSound, AttendanceRows, SavesInWindow, Timely, InWindow, Explained
<1> QED
    BY <1>1, AdministrationInvariant, PTL

\* An import of USNs updates its valid rows up to the first that fails, and a commit of
\* accounts whose statements succeed creates all it found valid (ImportsComplete).
THEOREM ImportsAlways == Spec => []ImportsComplete
<1>1. AdministrationInv => ImportComplete
    BY DirectorySafe DEF AdministrationInv, NothingImported, ImportComplete
<1>2. AdministrationInv => OnboardingComplete
    <2> SUFFICES ASSUME AdministrationInv PROVE OnboardingComplete
      OBVIOUS
    <2>1. CASE component = "accounts"
      BY <2>1, OnboardingSafe DEF AdministrationInv
    <2>2. CASE component # "accounts"
      BY <2>2 DEF AdministrationInv, AccountsSound, OnboardingComplete, Same
    <2> QED
      BY <2>1, <2>2
<1> QED
    BY <1>1, <1>2, AdministrationInvariant, PTL DEF ImportsComplete

----------------------------------------------------------------------------
(* Gatekeepers: TwoPeople, for any number of people.  The property alone is *)
(* not inductive: a record behind its gate has two hands only because it    *)
(* was made by one role before it was judged by another.  The invariant     *)
(* keeps for every stage what is known of the hands, by role.               *)

\* The roles of which a person has made a record that is past Unmade.
Makers ==
    [program |-> {"ADMIN", "DEAN"}, syllabus |-> {"ADMIN", "FACULTY"},
     kit |-> {"ADMIN", "FACULTY"}, lab |-> {"STUDENT"}, research |-> {"STUDENT"},
     board_paper |-> {"ADMIN", "FACULTY"}, internal_paper |-> {"ADMIN", "FACULTY"},
     marks |-> {"ADMIN", "FACULTY"}, script |-> {"ADMIN", "FACULTY"},
     component |-> {"FACULTY"}, results |-> {"DEAN"}]

\* The roles of which a person let a record through its last gate.
Judges ==
    [program |-> {"DEAN"}, syllabus |-> {"DEAN"}, kit |-> {"ADMIN", "FACULTY"},
     lab |-> {"ADMIN", "FACULTY"}, research |-> {"ADMIN", "FACULTY", "GUIDE"},
     board_paper |-> {"ADMIN", "BOARD"}, internal_paper |-> {"ADMIN", "BOARD"},
     marks |-> {"ADMIN", "DEAN"}, script |-> {"ADMIN", "BOARD"},
     component |-> {"ADMIN", "DEAN"}, results |-> {"ADMIN"}]

\* The stages of a kind in which no maker need have touched the record yet.
Unmade ==
    [program |-> {"NONE"}, syllabus |-> {"NONE", "DRAFT", "AI_GENERATING"}, kit |-> {"NONE"},
     lab |-> {"NONE", "DRAFT", "PUBLISHED", "CLOSED"}, research |-> {"NONE", "DRAFT"},
     board_paper |-> {"NONE", "DRAFT", "GENERATING", "GENERATED", "FAILED", "BOARD_RETURNED"},
     internal_paper |-> {"NONE", "DRAFT", "GENERATING", "GENERATED", "FAILED", "BOARD_RETURNED"},
     marks |-> {"NONE"},
     script |-> {"NONE", "PENDING", "QUALITY_FAILED", "FAILED", "SCORED", "REVIEW_REQUIRED"},
     component |-> {"NONE"}, results |-> {"NONE", "DRAFT"}]

By(R) == \E p \in hands : p \in moved \/ office[p] \in R \cup {Platform}

PeopleTypeOK ==
    /\ office \in [People -> Offices]
    /\ kind \in Kinds
    /\ hands \in SUBSET People

Made == stage \notin Unmade[kind] => By(Makers[kind])

Judged == stage \in Through[kind] => By(Judges[kind])

GatesInv == PeopleTypeOK /\ Made /\ Judged

----------------------------------------------------------------------------
(* What one step keeps.                                                    *)

\* A hand that moves the record on keeps the invariant when it has the role the
\* new stage calls for, or the old stage already did.
LEMMA HandlesKeeps ==
    ASSUME GatesInv, NEW p \in People, NEW s, Handles(p, s),
           \/ s \in Unmade[kind]
           \/ stage \notin Unmade[kind]
           \/ office[p] \in Makers[kind] \cup {Platform},
           \/ s \notin Through[kind]
           \/ stage \in Through[kind]
           \/ office[p] \in Judges[kind] \cup {Platform}
    PROVE  GatesInv'
<1>1. PeopleTypeOK'
  BY DEF GatesInv, PeopleTypeOK, Handles
<1>2. Made'
  BY DEF GatesInv, Made, By, Handles
<1>3. Judged'
  BY DEF GatesInv, Judged, By, Handles
<1> QED
  BY <1>1, <1>2, <1>3 DEF GatesInv

\* A new record has one hand, and no gate behind it.
LEMMA StartsKeeps ==
    ASSUME GatesInv, NEW p \in People, NEW s, NEW o, NEW G, Starts(p, s, o, G),
           s \in Unmade[kind] \/ office[p] \in Makers[kind] \cup {Platform},
           s \notin Through[kind]
    PROVE  GatesInv'
<1>1. PeopleTypeOK'
  BY DEF GatesInv, PeopleTypeOK, Starts
<1>2. Made'
  BY DEF GatesInv, Made, By, Starts
<1>3. Judged'
  BY DEF GatesInv, Judged, By, Starts
<1> QED
  BY <1>1, <1>2, <1>3 DEF GatesInv

\* A record that is gone has no stage to speak of.
LEMMA RemovesKeeps ==
    ASSUME GatesInv, Removes
    PROVE  GatesInv'
<1>1. "NONE" \in Unmade[kind] /\ "NONE" \notin Through[kind]
  BY DEF GatesInv, PeopleTypeOK, Kinds, Unmade, Through
<1> QED
  BY <1>1 DEF GatesInv, PeopleTypeOK, Made, Judged, By, Removes

\* A task passes no gate.
LEMMA BecomesKeeps ==
    ASSUME GatesInv, NEW s, Becomes(s),
           s \in Unmade[kind] \/ stage \notin Unmade[kind],
           s \notin Through[kind] \/ stage \in Through[kind]
    PROVE  GatesInv'
  BY DEF GatesInv, PeopleTypeOK, Made, Judged, By, Becomes

\* Nor does it matter whom the record names.
LEMMA GivesKeeps ==
    ASSUME GatesInv, NEW G, Gives(G)
    PROVE  GatesInv'
  BY DEF GatesInv, PeopleTypeOK, Made, Judged, By, Gives

\* Whoever has another role now is in moved.
LEMMA UpdateUserKeeps ==
    ASSUME GatesInv, NEW p \in People, NEW u \in People, NEW o \in Offices, UpdateUser(p, u, o)
    PROVE  GatesInv'
  BY DEF GatesInv, PeopleTypeOK, Made, Judged, By, UpdateUser

\* Nothing that changes is in the invariant.
LEMMA StutterKeeps ==
    ASSUME GatesInv, UNCHANGED duties
    PROVE  GatesInv'
  BY DEF GatesInv, PeopleTypeOK, Made, Judged, By, duties

----------------------------------------------------------------------------
(* One step for each operation.                                            *)

USE DEF Platform, May, Is, Teachers, Papers, IsPaper, Unmade, Through, Makers, Judges

\* What a person may do to a program keeps the invariant.
LEMMA ProgramStepKeeps ==
    ASSUME GatesInv, NEW p \in People, ProgramStep(p)
    PROVE  GatesInv'
<1>1. ASSUME CreateProgram(p) PROVE GatesInv'
  BY <1>1, StartsKeeps DEF CreateProgram, WritesPrograms
<1>2. ASSUME UpdateProgram(p) PROVE GatesInv'
  BY <1>2, HandlesKeeps DEF UpdateProgram, WritesPrograms
<1>3. ASSUME DeleteProgram(p) PROVE GatesInv'
  BY <1>3, RemovesKeeps DEF DeleteProgram, WritesPrograms
<1>4. ASSUME DispatchAiGeneration(p) PROVE GatesInv'
  BY <1>4, HandlesKeeps DEF DispatchAiGeneration, WritesPrograms
<1>5. ASSUME ApproveProgram(p) PROVE GatesInv'
  BY <1>5, HandlesKeeps DEF ApproveProgram, DecidesPrograms
<1>6. ASSUME RejectProgram(p) PROVE GatesInv'
  BY <1>6, HandlesKeeps DEF RejectProgram, DecidesPrograms
<1>7. ASSUME ForkProgram(p) PROVE GatesInv'
  BY <1>7, StartsKeeps DEF ForkProgram, WritesPrograms
<1>8. ASSUME EditProgramOutcomes(p) PROVE GatesInv'
  BY <1>8, HandlesKeeps DEF EditProgramOutcomes, WritesPrograms
<1>9. ASSUME EditCourses(p) PROVE GatesInv'
  BY <1>9, HandlesKeeps DEF EditCourses, WritesPrograms
<1> QED
  BY <1>1, <1>2, <1>3, <1>4, <1>5, <1>6, <1>7, <1>8, <1>9 DEF ProgramStep

\* What a person may do to a syllabus keeps the invariant.
LEMMA SyllabusStepKeeps ==
    ASSUME GatesInv, NEW p \in People, SyllabusStep(p)
    PROVE  GatesInv'
<1>1. ASSUME CreateSyllabus(p) PROVE GatesInv'
  BY <1>1, StartsKeeps DEF CreateSyllabus, WritesSyllabi
<1>2. ASSUME UpdateSyllabus(p) PROVE GatesInv'
  BY <1>2, HandlesKeeps DEF UpdateSyllabus, EditsSyllabi, WritesSyllabi
<1>3. ASSUME DeleteSyllabus(p) PROVE GatesInv'
  BY <1>3, RemovesKeeps DEF DeleteSyllabus, WritesSyllabi
<1>4. ASSUME GenerateSyllabus(p) PROVE GatesInv'
  BY <1>4, HandlesKeeps DEF GenerateSyllabus, WritesSyllabi
<1>5. ASSUME SubmitSyllabusForReview(p) PROVE GatesInv'
  BY <1>5, HandlesKeeps DEF SubmitSyllabusForReview, WritesSyllabi
<1>6. ASSUME ApproveSyllabus(p) PROVE GatesInv'
  BY <1>6, HandlesKeeps DEF ApproveSyllabus, DecidesSyllabi
<1>7. ASSUME RejectSyllabus(p) PROVE GatesInv'
  BY <1>7, StartsKeeps DEF RejectSyllabus, DecidesSyllabi
<1>8. ASSUME LockSyllabus(p) PROVE GatesInv'
  BY <1>8, HandlesKeeps DEF LockSyllabus, DecidesSyllabi
<1>9. ASSUME UnlockSyllabus(p) PROVE GatesInv'
  BY <1>9, HandlesKeeps DEF UnlockSyllabus, DecidesSyllabi
<1>10. ASSUME ForkSyllabus(p) PROVE GatesInv'
  BY <1>10, StartsKeeps DEF ForkSyllabus, WritesSyllabi
<1>11. ASSUME EditOutcomes(p) PROVE GatesInv'
  BY <1>11, HandlesKeeps DEF EditOutcomes, EditsSyllabi, WritesSyllabi
<1>12. ASSUME EditMappings(p) PROVE GatesInv'
  BY <1>12, HandlesKeeps DEF EditMappings, EditsSyllabi, WritesSyllabi
<1>13. ASSUME EditUnits(p) PROVE GatesInv'
  BY <1>13, HandlesKeeps DEF EditUnits, EditsSyllabi, WritesSyllabi
<1>14. ASSUME EditReferences(p) PROVE GatesInv'
  BY <1>14, HandlesKeeps DEF EditReferences, EditsSyllabi, WritesSyllabi
<1> QED
  BY <1>1, <1>2, <1>3, <1>4, <1>5, <1>6, <1>7, <1>8, <1>9, <1>10, <1>11, <1>12, <1>13, <1>14 DEF SyllabusStep

\* What a person may do to a course kit keeps the invariant.
LEMMA KitStepKeeps ==
    ASSUME GatesInv, NEW p \in People, KitStep(p)
    PROVE  GatesInv'
<1>1. ASSUME CreateKit(p) PROVE GatesInv'
  BY <1>1, StartsKeeps DEF CreateKit, WritesKits
<1>2. ASSUME UpdateKit(p) PROVE GatesInv'
  BY <1>2, HandlesKeeps DEF UpdateKit, EditsKits, WritesKits
<1>3. ASSUME DeleteKit(p) PROVE GatesInv'
  BY <1>3, RemovesKeeps DEF DeleteKit, WritesKits
<1>4. ASSUME GenerateKit(p) PROVE GatesInv'
  BY <1>4, HandlesKeeps DEF GenerateKit, WritesKits
<1>5. ASSUME PublishKit(p) PROVE GatesInv'
  BY <1>5, HandlesKeeps DEF PublishKit, WritesKits
<1>6. ASSUME ArchiveKit(p) PROVE GatesInv'
  BY <1>6, HandlesKeeps DEF ArchiveKit, WritesKits
<1>7. ASSUME ForkKit(p) PROVE GatesInv'
  BY <1>7, StartsKeeps DEF ForkKit, WritesKits
<1>8. ASSUME EditSlides(p) PROVE GatesInv'
  BY <1>8, HandlesKeeps DEF EditSlides, EditsKits, WritesKits
<1>9. ASSUME EditQuizlets(p) PROVE GatesInv'
  BY <1>9, HandlesKeeps DEF EditQuizlets, EditsKits, WritesKits
<1>10. ASSUME EditAssignments(p) PROVE GatesInv'
  BY <1>10, HandlesKeeps DEF EditAssignments, EditsKits, WritesKits
<1> QED
  BY <1>1, <1>2, <1>3, <1>4, <1>5, <1>6, <1>7, <1>8, <1>9, <1>10 DEF KitStep

\* What a person may do to a lab keeps the invariant.
LEMMA LabStepKeeps ==
    ASSUME GatesInv, NEW p \in People, LabStep(p)
    PROVE  GatesInv'
<1>1. ASSUME CreateLab(p) PROVE GatesInv'
  BY <1>1, StartsKeeps DEF CreateLab, EditsLab
<1>2. ASSUME UpdateLab(p) PROVE GatesInv'
  BY <1>2, HandlesKeeps DEF UpdateLab, EditsLab
<1>3. ASSUME PublishLab(p) PROVE GatesInv'
  BY <1>3, HandlesKeeps DEF PublishLab, EditsLab
<1>4. ASSUME CloseLab(p) PROVE GatesInv'
  BY <1>4, HandlesKeeps DEF CloseLab, EditsLab
<1>5. ASSUME SubmitLab(p) PROVE GatesInv'
  BY <1>5, StartsKeeps DEF SubmitLab
<1>6. ASSUME NEW e \in People, AssignLabEvaluator(p, e) PROVE GatesInv'
  BY <1>6, GivesKeeps DEF AssignLabEvaluator, EditsLab, AnyLab, Handed
<1>7. ASSUME NEW e \in People, RemoveLabEvaluator(p, e) PROVE GatesInv'
  BY <1>7, GivesKeeps DEF RemoveLabEvaluator, EditsLab, AnyLab, Handed
<1>8. ASSUME OpenReviewPanel(p) PROVE GatesInv'
  BY <1>8, BecomesKeeps DEF OpenReviewPanel
<1>9. ASSUME EvaluatorReviewPanel(p) PROVE GatesInv'
  BY <1>9, BecomesKeeps DEF EvaluatorReviewPanel
<1>10. ASSUME UpdateScores(p) PROVE GatesInv'
  BY <1>10, HandlesKeeps DEF UpdateScores, EditsLab
<1>11. ASSUME RecommendScores(p) PROVE GatesInv'
  BY <1>11, HandlesKeeps DEF RecommendScores
<1>12. ASSUME RatifySubmission(p) PROVE GatesInv'
  BY <1>12, HandlesKeeps DEF RatifySubmission, EditsLab
<1> QED
  BY <1>1, <1>2, <1>3, <1>4, <1>5, <1>6, <1>7, <1>8, <1>9, <1>10, <1>11, <1>12 DEF LabStep

\* What a person may do to a research project keeps the invariant.
LEMMA ResearchStepKeeps ==
    ASSUME GatesInv, NEW p \in People, ResearchStep(p)
    PROVE  GatesInv'
<1>1. ASSUME NEW g \in People, SubmitProposal(p, g) PROVE GatesInv'
  BY <1>1, StartsKeeps DEF SubmitProposal
<1>2. ASSUME StoreAiProblem(p) PROVE GatesInv'
  BY <1>2, StartsKeeps DEF StoreAiProblem
<1>3. ASSUME NEW s \in {"ACCEPTED", "REVISION_REQUESTED", "REJECTED"}, DecideProblem(p, s) PROVE GatesInv'
  BY <1>3, HandlesKeeps DEF DecideProblem, Guides
<1>4. ASSUME SubmitResearchDocument(p) PROVE GatesInv'
  BY <1>4, HandlesKeeps DEF SubmitResearchDocument, IsStudentOf, Documented
<1>5. ASSUME SetFileUrl(p) PROVE GatesInv'
  BY <1>5, HandlesKeeps DEF SetFileUrl, IsStudentOf, Documented
<1>6. ASSUME NEW s \in {"DOC_APPROVED", "DOC_REVISION_REQUESTED"}, ReviewResearchDocument(p, s) PROVE GatesInv'
  BY <1>6, HandlesKeeps DEF ReviewResearchDocument, Guides
<1>7. ASSUME ScheduleViva(p) PROVE GatesInv'
  BY <1>7, HandlesKeeps DEF ScheduleViva, Guides
<1>8. ASSUME ConsentToViva(p) PROVE GatesInv'
  BY <1>8, HandlesKeeps DEF ConsentToViva, IsStudentOf, Consented
<1>9. ASSUME RespondInViva(p) PROVE GatesInv'
  BY <1>9, HandlesKeeps DEF RespondInViva, IsStudentOf
<1>10. ASSUME CompleteViva(p) PROVE GatesInv'
  BY <1>10, HandlesKeeps DEF CompleteViva, IsStudentOf, Consented
<1>11. ASSUME ConductViva(p) PROVE GatesInv'
  BY <1>11, HandlesKeeps DEF ConductViva, Guides
<1>12. ASSUME RatifyVivaSession(p) PROVE GatesInv'
  BY <1>12, HandlesKeeps DEF RatifyVivaSession, Guides
<1> QED
  BY <1>1, <1>2, <1>3, <1>4, <1>5, <1>6, <1>7, <1>8, <1>9, <1>10, <1>11, <1>12 DEF ResearchStep

\* What a person may do to an exam paper keeps the invariant.
LEMMA PaperStepKeeps ==
    ASSUME GatesInv, NEW p \in People, PaperStep(p)
    PROVE  GatesInv'
<1>1. ASSUME CreateExamPaper(p) PROVE GatesInv'
  BY <1>1, StartsKeeps DEF CreateExamPaper
<1>2. ASSUME EditQuestion(p) PROVE GatesInv'
  BY <1>2, HandlesKeeps DEF EditQuestion, SetsPapers, Unsubmitted
<1>3. ASSUME DeleteQuestion(p) PROVE GatesInv'
  BY <1>3, HandlesKeeps DEF DeleteQuestion, EditQuestion, SetsPapers, Unsubmitted
<1>4. ASSUME RegenerateQuestion(p) PROVE GatesInv'
  BY <1>4, HandlesKeeps DEF RegenerateQuestion, EditQuestion, SetsPapers, Unsubmitted
<1>5. ASSUME ConfigureSections(p) PROVE GatesInv'
  BY <1>5, HandlesKeeps DEF ConfigureSections, SetsPapers, Unsubmitted
<1>6. ASSUME SubmitPaper(p) PROVE GatesInv'
  BY <1>6, HandlesKeeps DEF SubmitPaper, SetsPapers, Unsubmitted
<1>7. ASSUME FacultyApprove(p) PROVE GatesInv'
  BY <1>7, HandlesKeeps DEF FacultyApprove, SetsPapers, Unsubmitted
<1>8. ASSUME NEW s \in {"BOARD_APPROVED", "BOARD_RETURNED"}, BoardDecision(p, s) PROVE GatesInv'
  BY <1>8, HandlesKeeps DEF BoardDecision, BoardOf
<1>9. ASSUME NEW u \in People, AssignScrutinizer(p, u) PROVE GatesInv'
  BY <1>9, GivesKeeps DEF AssignScrutinizer, BoardOf
<1>10. ASSUME NEW s \in {"SUBMITTED", "BOARD_RETURNED"}, Scrutinize(p, s) PROVE GatesInv'
  BY <1>10, HandlesKeeps DEF Scrutinize, SetsPapers
<1>11. ASSUME SealPaper(p) PROVE GatesInv'
  BY <1>11, HandlesKeeps DEF SealPaper, BoardOf
<1>12. ASSUME ReleasePaper(p) PROVE GatesInv'
  BY <1>12, HandlesKeeps DEF ReleasePaper, BoardOf
<1> QED
  BY <1>1, <1>2, <1>3, <1>4, <1>5, <1>6, <1>7, <1>8, <1>9, <1>10, <1>11, <1>12 DEF PaperStep

\* What a person may do to internal marks keeps the invariant.
LEMMA MarksStepKeeps ==
    ASSUME GatesInv, NEW p \in People, MarksStep(p)
    PROVE  GatesInv'
<1>1. ASSUME CreateInternalMarks(p) PROVE GatesInv'
  BY <1>1, HandlesKeeps, StartsKeeps DEF CreateInternalMarks, EntersMarks
<1>2. ASSUME UpdateInternalMarks(p) PROVE GatesInv'
  BY <1>2, HandlesKeeps DEF UpdateInternalMarks, EntersMarks
<1>3. ASSUME SubmitInternalMarks(p) PROVE GatesInv'
  BY <1>3, HandlesKeeps DEF SubmitInternalMarks, EntersMarks
<1>4. ASSUME LockInternalMarks(p) PROVE GatesInv'
  BY <1>4, HandlesKeeps DEF LockInternalMarks
<1> QED
  BY <1>1, <1>2, <1>3, <1>4 DEF MarksStep

\* What a person may do to a script keeps the invariant.
LEMMA ScriptStepKeeps ==
    ASSUME GatesInv, NEW p \in People, ScriptStep(p)
    PROVE  GatesInv'
<1>1. ASSUME UploadScript(p) PROVE GatesInv'
  BY <1>1, StartsKeeps DEF UploadScript
<1>2. ASSUME OverrideQualityFailed(p) PROVE GatesInv'
  BY <1>2, HandlesKeeps DEF OverrideQualityFailed
<1>3. ASSUME NEW e \in People, NEW f \in People, AssignScriptEvaluators(p, e, f) PROVE GatesInv'
  BY <1>3, GivesKeeps DEF AssignScriptEvaluators, Unfinished, Reviewable
<1>4. ASSUME UpdateMarks(p) PROVE GatesInv'
  BY <1>4, HandlesKeeps DEF UpdateMarks, Evaluates, Reviewable
<1>5. ASSUME AcceptSuggestions(p) PROVE GatesInv'
  BY <1>5, HandlesKeeps DEF AcceptSuggestions, Evaluates, Reviewable
<1>6. ASSUME SubmitScriptMarks(p) PROVE GatesInv'
  BY <1>6, HandlesKeeps DEF SubmitScriptMarks, Evaluates, Reviewable
<1>7. ASSUME BoardFinalise(p) PROVE GatesInv'
  BY <1>7, HandlesKeeps DEF BoardFinalise
<1> QED
  BY <1>1, <1>2, <1>3, <1>4, <1>5, <1>6, <1>7 DEF ScriptStep

\* What a person may do to a marks component keeps the invariant.
LEMMA ComponentStepKeeps ==
    ASSUME GatesInv, NEW p \in People, ComponentStep(p)
    PROVE  GatesInv'
<1>1. ASSUME CreateComponent(p) PROVE GatesInv'
  BY <1>1, StartsKeeps DEF CreateComponent
<1>2. ASSUME UpdateComponent(p) PROVE GatesInv'
  BY <1>2, HandlesKeeps DEF UpdateComponent, OwnsComponent
<1>3. ASSUME DeleteComponent(p) PROVE GatesInv'
  BY <1>3, RemovesKeeps DEF DeleteComponent, OwnsComponent
<1>4. ASSUME PublishComponent(p) PROVE GatesInv'
  BY <1>4, HandlesKeeps DEF PublishComponent, OwnsComponent
<1>5. ASSUME BulkEnterMarks(p) PROVE GatesInv'
  BY <1>5, HandlesKeeps DEF BulkEnterMarks, EntersEntries, OwnsComponent
<1>6. ASSUME EditEntry(p) PROVE GatesInv'
  BY <1>6, HandlesKeeps DEF EditEntry, EntersEntries, OwnsComponent
<1>7. ASSUME ImportCommit(p) PROVE GatesInv'
  BY <1>7, HandlesKeeps DEF ImportCommit, EntersEntries, OwnsComponent
<1>8. ASSUME LockComponent(p) PROVE GatesInv'
  BY <1>8, HandlesKeeps DEF LockComponent, ManagesComponent
<1>9. ASSUME ReopenComponent(p) PROVE GatesInv'
  BY <1>9, HandlesKeeps DEF ReopenComponent, ManagesComponent
<1> QED
  BY <1>1, <1>2, <1>3, <1>4, <1>5, <1>6, <1>7, <1>8, <1>9 DEF ComponentStep

\* What a person may do to results keeps the invariant.
LEMMA DeclarationStepKeeps ==
    ASSUME GatesInv, NEW p \in People, DeclarationStep(p)
    PROVE  GatesInv'
<1>1. ASSUME CreateDeclaration(p) PROVE GatesInv'
  BY <1>1, StartsKeeps DEF CreateDeclaration, Manages
<1>2. ASSUME UpdateDeclaration(p) PROVE GatesInv'
  BY <1>2, HandlesKeeps DEF UpdateDeclaration, Manages
<1>3. ASSUME DeleteDeclaration(p) PROVE GatesInv'
  BY <1>3, RemovesKeeps DEF DeleteDeclaration, Manages
<1>4. ASSUME EnterExternalMarks(p) PROVE GatesInv'
  BY <1>4, HandlesKeeps DEF EnterExternalMarks, Manages, Open
<1>5. ASSUME ComputeResults(p) PROVE GatesInv'
  BY <1>5, HandlesKeeps DEF ComputeResults, Manages, Open
<1>6. ASSUME ComputeSgpaCgpa(p) PROVE GatesInv'
  BY <1>6, HandlesKeeps DEF ComputeSgpaCgpa, Manages, Open
<1>7. ASSUME ComputeRanks(p) PROVE GatesInv'
  BY <1>7, HandlesKeeps DEF ComputeRanks, Manages, Open
<1>8. ASSUME ApplyGrace(p) PROVE GatesInv'
  BY <1>8, HandlesKeeps DEF ApplyGrace, Deans
<1>9. ASSUME RevokeGrace(p) PROVE GatesInv'
  BY <1>9, HandlesKeeps DEF RevokeGrace, Deans
<1>10. ASSUME VerifyDeclaration(p) PROVE GatesInv'
  BY <1>10, HandlesKeeps DEF VerifyDeclaration, Deans
<1>11. ASSUME RevertToDraft(p) PROVE GatesInv'
  BY <1>11, HandlesKeeps DEF RevertToDraft, Manages
<1>12. ASSUME PublishDeclaration(p) PROVE GatesInv'
  BY <1>12, HandlesKeeps DEF PublishDeclaration, Manages
<1>13. ASSUME LockDeclaration(p) PROVE GatesInv'
  BY <1>13, HandlesKeeps DEF LockDeclaration
<1> QED
  BY <1>1, <1>2, <1>3, <1>4, <1>5, <1>6, <1>7, <1>8, <1>9, <1>10, <1>11, <1>12, <1>13 DEF DeclarationStep

\* A task moves a record to no gate: the invariant stays.
LEMMA TaskKeeps ==
    ASSUME GatesInv,
           \/ ProgramGenerated \/ SyllabusGenerated \/ KitGenerated
           \/ LabEvaluated \/ DocumentEvaluated \/ VivaEvaluated
           \/ PaperGenerated \/ ReleaseOnTime \/ ScriptProcessed
    PROVE  GatesInv'
<1>1. CASE ProgramGenerated
  BY <1>1, BecomesKeeps DEF ProgramGenerated
<1>2. CASE SyllabusGenerated
  BY <1>2, BecomesKeeps DEF SyllabusGenerated
<1>3. CASE KitGenerated
  BY <1>3, BecomesKeeps DEF KitGenerated
<1>4. CASE LabEvaluated
  BY <1>4, BecomesKeeps DEF LabEvaluated
<1>5. CASE DocumentEvaluated
  BY <1>5, BecomesKeeps DEF DocumentEvaluated
<1>6. CASE VivaEvaluated
  BY <1>6, BecomesKeeps DEF VivaEvaluated
<1>7. CASE PaperGenerated
  BY <1>7, BecomesKeeps DEF PaperGenerated
<1>8. CASE ReleaseOnTime
  BY <1>8, BecomesKeeps DEF ReleaseOnTime
<1>9. CASE ScriptProcessed
  BY <1>9, BecomesKeeps DEF ScriptProcessed, Reviewable
<1> QED
  BY <1>1, <1>2, <1>3, <1>4, <1>5, <1>6, <1>7, <1>8, <1>9

----------------------------------------------------------------------------
\* The invariant holds at first and is kept by every step.
THEOREM GatesInvariant == DutiesSpec => []GatesInv
<1>1. DutiesInit => GatesInv
  BY DEF DutiesInit, GatesInv, PeopleTypeOK, Made, Judged, Unmade, Through, Kinds
<1>2. ASSUME GatesInv, [DutiesNext]_duties PROVE GatesInv'
  <2>1. CASE CurriculumStep
    BY <1>2, <2>1, ProgramStepKeeps, SyllabusStepKeeps, KitStepKeeps, TaskKeeps DEF CurriculumStep
  <2>2. CASE StudentWorkStep
    BY <1>2, <2>2, LabStepKeeps, ResearchStepKeeps, TaskKeeps DEF StudentWorkStep
  <2>3. CASE ExamStep
    BY <1>2, <2>3, PaperStepKeeps, MarksStepKeeps, ScriptStepKeeps, ComponentStepKeeps,
       DeclarationStepKeeps, TaskKeeps DEF ExamStep
  <2>4. CASE \E p, u \in People, o \in Offices : UpdateUser(p, u, o)
    BY <1>2, <2>4, UpdateUserKeeps
  <2>5. CASE UNCHANGED duties
    BY <1>2, <2>5, StutterKeeps
  <2> QED
    BY <1>2, <2>1, <2>2, <2>3, <2>4, <2>5 DEF DutiesNext
<1> QED
  BY <1>1, <1>2, PTL DEF DutiesSpec

\* No record leaves through one person's hand, however many people there are,
\* except for the roles of Alone, the platform's administrators and people whose
\* role was changed: a maker and a judge that are one person have a role that
\* is both.
THEOREM TwoPeopleAlways == DutiesSpec => []TwoPeople
<1>1. ASSUME GatesInv PROVE TwoPeople
  <2> SUFFICES ASSUME stage \in Through[kind] PROVE
        \/ \E p, q \in hands : p # q
        \/ \E p \in hands : p \in moved \/ office[p] \in Alone[kind] \cup {Platform}
    BY DEF TwoPeople
  <2>1. kind \in Kinds
    BY <1>1 DEF GatesInv, PeopleTypeOK
  <2>2. stage \notin Unmade[kind]
    BY <2>1 DEF Kinds, Unmade, Through
  <2>3. PICK p \in hands : p \in moved \/ office[p] \in Makers[kind] \cup {Platform}
    BY <1>1, <2>2 DEF GatesInv, Made, By
  <2>4. PICK q \in hands : q \in moved \/ office[q] \in Judges[kind] \cup {Platform}
    BY <1>1 DEF GatesInv, Judged, By
  <2>5. Makers[kind] \cap Judges[kind] \subseteq Alone[kind]
    BY <2>1 DEF Kinds, Makers, Judges, Alone
  <2> QED
    BY <2>3, <2>4, <2>5
<1> QED
  BY <1>1, GatesInvariant, PTL
=============================================================================
