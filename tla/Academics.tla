------------------------------ MODULE Academics ------------------------------
(***************************************************************************)
(* The academic hierarchy of a tenant and the faculty assigned to a course *)
(* in its semesters.  A node is its path: <<>> the batch, <<n>> its        *)
(* semester n, <<n, name>> a section of it.  Departments and programs are  *)
(* two more levels of the same code and are left out.                      *)
(***************************************************************************)
EXTENDS Backend, Sequences

CONSTANTS
    Semesters,   \* the numbers of the batch's semesters
    Names,       \* the names of sections
    Faculties,
    MaxChanges   \* bound: changes of nodes and assignments

ASSUME AcademicsAssumption ==
    /\ Semesters \subseteq Nat
    /\ MaxChanges \in Nat

VARIABLES
    node,     \* NONE, ACTIVE or INACTIVE
    faculty,  \* the active assignments of a semester, as faculty and role
    orphaned, \* history: nodes made active without a look at their parent
    changes

academics == <<node, faculty, orphaned, changes>>

Sections == Semesters \X Names

Batch == <<>>

Nodes == {Batch} \cup {<<n>> : n \in Semesters} \cup Sections

AcademicsOps == {"create_node", "generate_semesters", "deactivate", "reactivate", "assign", "revoke"}

ASSUME AcademicsNames == None \notin AcademicsOps

Roles == {"PRIMARY", "CO_FACULTY"}

AcademicsTypeOK ==
    /\ node \in [Nodes -> {"NONE", "ACTIVE", "INACTIVE"}]
    /\ faculty \in [Semesters -> SUBSET (Faculties \X Roles)]
    /\ orphaned \in SUBSET Nodes
    /\ changes \in 0..MaxChanges

\* A batch that is new, or whose semesters and sections are all there.
AcademicsInit ==
    /\ \E there \in {{Batch}, Nodes} :
          node = [n \in Nodes |-> IF n \in there THEN "ACTIVE" ELSE "NONE"]
    /\ faculty = [n \in Semesters |-> {}]
    /\ orphaned = {} /\ changes = 0

----------------------------------------------------------------------------
(* Nodes.                                                                  *)

Parent(n) == SubSeq(n, 1, Len(n) - 1)

Children(n) == {c \in Nodes \ {Batch} : Parent(c) = n}

Change == changes < MaxChanges /\ changes' = changes + 1

CheckedNode(r, op, n) == Begin(r, op, n, None) /\ UNCHANGED academics

CreateNode(r, n) ==
    /\ n # Batch /\ node[n] = "NONE" /\ node[Parent(n)] = "ACTIVE"
    /\ CheckedNode(r, "create_node", n)

\* Its unique constraint refuses a node that is there by now.
WriteCreateNode(r) ==
    LET n == req[r].on IN
    /\ req[r].op = "create_node"
    /\ Change
    /\ node' = IF node[n] = "NONE" THEN [node EXCEPT ![n] = "ACTIVE"] ELSE node
    /\ End(r)
    /\ UNCHANGED <<faculty, orphaned>>

\* Nobody asks whether the batch is active.
GenerateSemesters(r) == CheckedNode(r, "generate_semesters", Batch)

WriteSemesters(r) ==
    LET missing == {c \in Children(Batch) : node[c] = "NONE"} IN
    /\ req[r].op = "generate_semesters"
    /\ Change
    /\ node' = [n \in Nodes |-> IF n \in missing THEN "ACTIVE" ELSE node[n]]
    /\ orphaned' = IF node[Batch] = "ACTIVE" THEN orphaned ELSE orphaned \cup missing
    /\ End(r)
    /\ UNCHANGED faculty

\* Mutant: nobody asks for active children.
DeactivateMutant(r, n) ==
    /\ node[n] = "ACTIVE"
    /\ CheckedNode(r, "deactivate", n)

\* A node with active children is not deactivated.
Deactivate(r, n) ==
    /\ node[n] = "ACTIVE"
    /\ \A c \in Children(n) : node[c] # "ACTIVE"
    /\ CheckedNode(r, "deactivate", n)

WriteDeactivate(r) ==
    /\ req[r].op = "deactivate"
    /\ Change
    /\ node' = [node EXCEPT ![req[r].on] = "INACTIVE"]
    /\ End(r)
    /\ UNCHANGED <<faculty, orphaned>>

\* Nobody asks whether the parent is active.
Reactivate(r, n) == node[n] = "INACTIVE" /\ CheckedNode(r, "reactivate", n)

WriteReactivate(r) ==
    /\ req[r].op = "reactivate"
    /\ Change
    /\ node' = [node EXCEPT ![req[r].on] = "ACTIVE"]
    /\ orphaned' = IF req[r].on = Batch THEN orphaned ELSE orphaned \cup {req[r].on}
    /\ End(r)
    /\ UNCHANGED faculty

----------------------------------------------------------------------------
(* The faculty of a course in a semester.                                  *)

Unassigned(n, f) == \A role \in Roles : <<f, role>> \notin faculty[n]

Primaries(n) == {f \in Faculties : <<f, "PRIMARY">> \in faculty[n]}

\* One assignment per faculty, one PRIMARY per course and semester, by checks only.
Assign(r, n, f, role) ==
    /\ node[<<n>>] # "NONE" /\ Unassigned(n, f)
    /\ role = "PRIMARY" => Primaries(n) = {}
    /\ Begin(r, "assign", <<n>>, <<f, role>>)
    /\ UNCHANGED academics

WriteAssign(r) ==
    /\ req[r].op = "assign"
    /\ Change
    /\ faculty' = [faculty EXCEPT ![req[r].on[1]] = @ \cup {req[r].mem}]
    /\ End(r)
    /\ UNCHANGED <<node, orphaned>>

Revoke(r, n) ==
    /\ \E a \in faculty[n] : Begin(r, "revoke", <<n>>, a)
    /\ UNCHANGED academics

WriteRevoke(r) ==
    /\ req[r].op = "revoke"
    /\ Change
    /\ faculty' = [faculty EXCEPT ![req[r].on[1]] = @ \ {req[r].mem}]
    /\ End(r)
    /\ UNCHANGED <<node, orphaned>>

NodeRequest(r) ==
    \/ \E n \in Nodes : CreateNode(r, n) \/ Deactivate(r, n) \/ Reactivate(r, n)
    \/ GenerateSemesters(r) \/ WriteCreateNode(r) \/ WriteSemesters(r)
    \/ WriteDeactivate(r) \/ WriteReactivate(r)

AssignmentRequest(r) ==
    \/ \E n \in Semesters, f \in Faculties, role \in Roles : Assign(r, n, f, role)
    \/ \E n \in Semesters : Revoke(r, n)
    \/ WriteAssign(r) \/ WriteRevoke(r)

AcademicsNext ==
    \/ \E r \in Reqs : (NodeRequest(r) \/ AssignmentRequest(r)) /\ UNCHANGED queue
    \/ Environment /\ UNCHANGED academics

AcademicsSpec == AcademicsInit /\ BackendInit /\ [][AcademicsNext]_<<academics, backend>>
----------------------------------------------------------------------------
(* Properties.                                                             *)

\* Unless requests overlapped, an active node has an active parent, save the
\* ones that were made active without a look at it, and a course has one PRIMARY
\* in a semester.
HierarchySound ==
    raced \/ /\ \A n \in Nodes \ {Batch} :
                   node[n] = "ACTIVE" => node[Parent(n)] = "ACTIVE" \/ n \in orphaned
             /\ \A n \in Semesters :
                   Cardinality(Primaries(n)) <= 1
=============================================================================
