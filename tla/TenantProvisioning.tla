------------------------- MODULE TenantProvisioning -------------------------
(***************************************************************************)
(* The tenants of the platform: their creation (a row, the migrations of   *)
(* the schema, the administrator, the activation: four transactions), the  *)
(* retry after a failure, the changes of their status, and the deletions.  *)
(* A tenant is named by its slug.                                          *)
(***************************************************************************)
EXTENDS Backend

CONSTANT Tenants

VARIABLES
    tenant,   \* its row: status and is_active; its schema and the user seeded into it
    touched   \* history: tenants provisioned by a retry, or whose status or is_active was PATCHed

tenantVars == <<tenant, touched, backend>>

TenantOps == {"create_tenant", "retry", "migrate", "migrate_again", "seed", "activate",
              "provisioning_failed", "patch", "delete", "restore", "delete_permanently"}

ASSUME TenantNames == None \notin TenantOps

TenantStatus == {"PROVISIONING", "ACTIVE", "INACTIVE", "ARCHIVED", "FAILED", "DELETED",
                 "PERMANENTLY_DELETED"}

\* What a session of the ORM holds of the row.
Loaded == [status : TenantStatus, is_active : BOOLEAN]

NoTenant == [status |-> "NONE", is_active |-> FALSE, migrated |-> FALSE, admin |-> FALSE]

TenantTypeOK ==
    /\ tenant \in [Tenants -> [status : TenantStatus \cup {"NONE"}, is_active : BOOLEAN,
                               migrated : BOOLEAN, admin : BOOLEAN]]
    /\ touched \in SUBSET Tenants
    /\ BackendTypeOK(TenantOps, {}, Tenants, {}, Loaded, {})

TenantInit ==
    /\ tenant = [t \in Tenants |-> NoTenant]
    /\ touched = {}
    /\ BackendInit

----------------------------------------------------------------------------
Row(t) == [status |-> tenant[t].status, is_active |-> tenant[t].is_active]

\* An attribute that is set to what the session has loaded is not written.
Flushed(t, seen, new) ==
    [tenant EXCEPT ![t].status = IF new.status = seen.status THEN @ ELSE new.status,
                   ![t].is_active = IF new.is_active = seen.is_active THEN @ ELSE new.is_active]

\* The request goes on with another transaction, its session keeps what it holds.
Proceed(r, op, seen) ==
    /\ req' = [req EXCEPT ![r].op = op, ![r].mem = seen]
    /\ UNCHANGED <<raced, faults>>

CreateTenant(r, t) ==
    /\ tenant[t].status = "NONE"
    /\ Begin(r, "create_tenant", t, None)
    /\ UNCHANGED <<tenant, touched>>

\* The slug is unique: a second row is refused.
WriteTenant(r) ==
    LET t == req[r].on IN
    /\ req[r].op = "create_tenant"
    /\ \/ /\ tenant[t].status = "NONE"
          /\ tenant' = [tenant EXCEPT ![t].status = "PROVISIONING"]
          /\ Proceed(r, "migrate", [status |-> "PROVISIONING", is_active |-> FALSE])
       \/ /\ tenant[t].status # "NONE"
          /\ End(r)
          /\ UNCHANGED tenant
    /\ UNCHANGED touched

RetryProvisioning(r, t) ==
    /\ tenant[t].status = "FAILED"
    /\ Begin(r, "retry", t, Row(t))
    /\ UNCHANGED <<tenant, touched>>

WriteRetry(r) ==
    LET new == [req[r].mem EXCEPT !.status = "PROVISIONING"] IN
    /\ req[r].op = "retry"
    /\ tenant' = Flushed(req[r].on, req[r].mem, new)
    /\ touched' = touched \cup {req[r].on}
    /\ Proceed(r, "migrate_again", new)

\* run_tenant_migrations; a retry seeds no administrator.
Migrate(r) ==
    /\ req[r].op \in {"migrate", "migrate_again"}
    /\ tenant' = [tenant EXCEPT ![req[r].on].migrated = TRUE]
    /\ Proceed(r, IF req[r].op = "migrate" THEN "seed" ELSE "activate", req[r].mem)
    /\ UNCHANGED touched

SeedAdmin(r) ==
    /\ req[r].op = "seed"
    /\ tenant' = [tenant EXCEPT ![req[r].on].admin = TRUE]
    /\ Proceed(r, "activate", req[r].mem)
    /\ UNCHANGED touched

Activate(r) ==
    /\ req[r].op = "activate"
    /\ tenant' = Flushed(req[r].on, req[r].mem, [status |-> "ACTIVE", is_active |-> TRUE])
    /\ End(r)
    /\ UNCHANGED touched

\* Whichever of the three raises.
FailProvisioning(r) ==
    /\ req[r].op \in {"migrate", "migrate_again", "seed", "activate"}
    /\ Fault
    /\ req' = [req EXCEPT ![r].op = "provisioning_failed"]
    /\ UNCHANGED <<tenant, touched, raced>>

WriteFailed(r) ==
    /\ req[r].op = "provisioning_failed"
    /\ tenant' = Flushed(req[r].on, req[r].mem, [req[r].mem EXCEPT !.status = "FAILED"])
    /\ End(r)
    /\ UNCHANGED touched

----------------------------------------------------------------------------
(* The super admin's other requests.                                       *)

\* PATCH asks for no status.
PatchTenant(r, t) ==
    /\ tenant[t].status # "NONE"
    /\ Begin(r, "patch", t, Row(t))
    /\ UNCHANGED <<tenant, touched>>

\* With a status, is_active follows it; with is_active alone only FALSE has a status.
WritePatch(r) ==
    /\ req[r].op = "patch"
    /\ \E new \in {[status |-> s, is_active |-> s = "ACTIVE"] : s \in {"ACTIVE", "INACTIVE", "ARCHIVED"}}
                     \cup {[req[r].mem EXCEPT !.is_active = TRUE]} :
          tenant' = Flushed(req[r].on, req[r].mem, new)
    /\ touched' = touched \cup {req[r].on}
    /\ End(r)

\* Any status may be deleted.
DeleteTenant(r, t) ==
    /\ tenant[t].status # "NONE"
    /\ Begin(r, "delete", t, Row(t))
    /\ UNCHANGED <<tenant, touched>>

RestoreTenant(r, t) ==
    /\ tenant[t].status = "DELETED"
    /\ Begin(r, "restore", t, Row(t))
    /\ UNCHANGED <<tenant, touched>>

PermanentlyDeleteTenant(r, t) ==
    /\ tenant[t].status = "DELETED"
    /\ Begin(r, "delete_permanently", t, Row(t))
    /\ UNCHANGED <<tenant, touched>>

StatusAfter == [delete |-> "DELETED", restore |-> "INACTIVE", delete_permanently |-> "PERMANENTLY_DELETED"]

\* All three set is_active to FALSE.
WriteStatusMutant(r) ==
    /\ req[r].op \in DOMAIN StatusAfter
    /\ tenant' = Flushed(req[r].on, req[r].mem, [req[r].mem EXCEPT !.status = StatusAfter[req[r].op]])
    /\ End(r)
    /\ UNCHANGED touched

WriteStatus(r) ==
    /\ req[r].op \in DOMAIN StatusAfter
    /\ tenant' = Flushed(req[r].on, req[r].mem,
                         [status |-> StatusAfter[req[r].op], is_active |-> FALSE])
    /\ End(r)
    /\ UNCHANGED touched

----------------------------------------------------------------------------
TenantRequest(r) ==
    \/ \E t \in Tenants :
          \/ CreateTenant(r, t) \/ RetryProvisioning(r, t) \/ PatchTenant(r, t)
          \/ DeleteTenant(r, t) \/ RestoreTenant(r, t) \/ PermanentlyDeleteTenant(r, t)
    \/ WriteTenant(r) \/ WriteRetry(r) \/ Migrate(r) \/ SeedAdmin(r) \/ Activate(r)
    \/ FailProvisioning(r) \/ WriteFailed(r) \/ WritePatch(r) \/ WriteStatus(r)

TenantNext ==
    \/ \E r \in Reqs : TenantRequest(r) /\ UNCHANGED queue
    \/ Environment /\ UNCHANGED <<tenant, touched>>

TenantSpec == TenantInit /\ [][TenantNext]_tenantVars
----------------------------------------------------------------------------
(* Properties.                                                             *)

\* A tenant that lets users in (is_active, what resolve_tenant asks for) has a
\* migrated schema and an administrator, and is ACTIVE; an ACTIVE tenant lets
\* users in.  A retry, which seeds no administrator, and a PATCH may break this,
\* requests that overlap may leave a DELETED tenant open.
TenantUsable ==
    \A t \in Tenants \ touched :
        /\ tenant[t].is_active => tenant[t].migrated /\ tenant[t].admin
        /\ raced \/ tenant[t].is_active = (tenant[t].status = "ACTIVE")
=============================================================================
