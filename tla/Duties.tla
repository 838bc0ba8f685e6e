-------------------------------- MODULE Duties --------------------------------
(***************************************************************************)
(* The people of a tenant and one record they work on: who may take which  *)
(* step is the office the router asks for, and where the service asks for  *)
(* more, the person the record names.  A request is one step here; how two *)
(* requests or a task overlap is in the module of each component.          *)
(***************************************************************************)
EXTENDS FiniteSets

CONSTANTS
    People,
    NoOne

ASSUME PeopleAssumption == NoOne \notin People

VARIABLES
    office, \* the role of a person
    kind,   \* what the record is
    stage,  \* its status, NONE when there is no record
    owner,  \* created_by, or the guide
    given,  \* evaluators, the scrutinizer or the student the record names
    hands,  \* history: those who made the record, changed it or let it pass
    moved   \* history: people whose role was changed

duties == <<office, kind, stage, owner, given, hands, moved>>

TenantRole == {"ADMIN", "DEAN", "FACULTY", "STUDENT", "BOARD", "GUIDE", "EVALUATOR"}

Platform == "SUPER_ADMIN"

\* A user that is not active has no office.
Offices == TenantRole \cup {Platform, "NONE"}

----------------------------------------------------------------------------
\* require_roles: the platform's own administrators pass everywhere.
May(p, R) == office[p] \in R \cup {Platform}

Is(k, S) == kind = k /\ stage \in S

Handles(p, s) ==
    /\ stage' = s
    /\ hands' = hands \cup {p}
    /\ UNCHANGED <<office, kind, owner, given, moved>>

\* Assigning or removing someone does not touch what the record says.
Gives(G) ==
    /\ given' = G
    /\ UNCHANGED <<office, kind, stage, owner, hands, moved>>

Starts(p, s, o, G) ==
    /\ stage' = s
    /\ owner' = o
    /\ given' = G
    /\ hands' = {p}
    /\ UNCHANGED <<office, kind, moved>>

\* The row is deleted.
Removes ==
    /\ stage' = "NONE"
    /\ owner' = NoOne
    /\ given' = {}
    /\ hands' = {}
    /\ UNCHANGED <<office, kind, moved>>

\* A task moves the record: nobody's hand.
Becomes(s) ==
    /\ stage' = s
    /\ UNCHANGED <<office, kind, owner, given, hands, moved>>

----------------------------------------------------------------------------
\* An ADMIN of the tenant, which a platform administrator is not, gives a user
\* another role, or takes or returns the account.
UpdateUser(p, u, o) ==
    /\ office[p] = "ADMIN" /\ office[u] # Platform
    /\ o \in Offices \ {Platform}
    /\ office' = [office EXCEPT ![u] = o]
    /\ moved' = moved \cup {u}
    /\ UNCHANGED <<kind, stage, owner, given, hands>>
=============================================================================
