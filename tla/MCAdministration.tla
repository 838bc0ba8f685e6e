--------------------------- MODULE MCAdministration ---------------------------
(***************************************************************************)
(* The administration of the platform and of a tenant in one run.  The     *)
(* components share no row (Enrollment has the nodes of Academics in       *)
(* itself), so a behaviour is one of one component: the run covers the     *)
(* union of their state spaces, not the product.                           *)
(***************************************************************************)
EXTENDS TenantProvisioning, Enrollment, Attendance, StudentDirectory, Gatekeepers,
        SchemaLifecycle, Onboarding, TLC

VARIABLE component

tenants == <<tenant, touched>>
roster == <<academics, enrolled, promoted>>

administration == <<component, tenants, roster, attendance, directory, backend, duties,
                    schemaState, accounts>>

Symmetry == Permutations(Reqs) \cup Permutations(Students) \cup Permutations(Boxes)

Init ==
    /\ component \in {"tenants", "academics", "roster", "attendance", "directory", "gates", "schema", "accounts"}
    /\ TenantInit /\ RosterInit /\ AttendanceInit /\ DirectoryInit /\ DutiesInit
    /\ AccountInit /\ SchemaInit /\ (component # "schema" => chain = "public")
    /\ component \notin {"academics", "roster"} => node[Batch] = "ACTIVE" /\ node[<<1>>] = "NONE"
    /\ component # "gates" => kind = "program" /\ \A p \in People : office[p] = "ADMIN"

Next ==
    /\ UNCHANGED component
    /\ \/ component = "tenants" /\ TenantNext /\ UNCHANGED <<roster, attendance, directory, duties, schemaState, accounts>>
       \/ component = "academics" /\ AcademicsNext
              /\ UNCHANGED <<tenants, enrolled, promoted, attendance, directory, duties, schemaState, accounts>>
       \/ component = "roster" /\ RosterNext /\ UNCHANGED <<tenants, attendance, directory, duties, schemaState, accounts>>
       \/ component = "attendance" /\ AttendanceNext /\ UNCHANGED <<tenants, roster, directory, duties, schemaState, accounts>>
       \/ component = "directory" /\ DirectoryNext /\ UNCHANGED <<tenants, roster, attendance, duties, schemaState, accounts>>
       \/ component = "gates" /\ DutiesNext
              /\ UNCHANGED <<tenants, roster, attendance, directory, backend, schemaState, accounts>>
       \/ component = "schema" /\ SchemaNext
              /\ UNCHANGED <<tenants, roster, attendance, directory, backend, duties, accounts>>
       \/ component = "accounts" /\ AccountNext
              /\ UNCHANGED <<tenants, roster, attendance, directory, duties, schemaState>>

Spec == Init /\ [][Next]_administration

\* Every component keeps the types of its rows and of its requests.
TypeOK ==
    CASE component = "tenants" -> TenantTypeOK
      [] component \in {"academics", "roster"} -> RosterTypeOK
      [] component = "attendance" -> AttendanceTypeOK
      [] component = "directory" -> DirectoryTypeOK
      [] component = "gates" -> DutiesTypeOK
      [] component = "schema" -> SchemaTypeOK
      [] component = "accounts" -> AccountTypeOK

\* What an import's preview found is what its commit does, for the student directory up
\* to the first row that fails and for the accounts as a whole.
ImportsComplete == ImportComplete /\ OnboardingComplete

\* The migrations and the code agree: SchemaServesCode, in the behaviours that are
\* the schema's.
SchemaAgrees == component = "schema" => SchemaServesCode
=============================================================================
