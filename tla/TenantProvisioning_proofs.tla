---------------------- MODULE TenantProvisioning_proofs ----------------------
(***************************************************************************)
(* Proofs, for every number of requests and slugs, of the safety           *)
(* properties of TenantProvisioning.                                       *)
(***************************************************************************)
EXTENDS TenantProvisioning, TLAPS

\* A request's tenant is there from its commit on, and until then holds its slug alone.
TenantInv ==
    \A r \in Requests :
        /\ pc[r] \in {"idle", "insert"} \cup InTransaction => r \notin tenants
        /\ pc[r] \in {"migrate", "wait"} => r \in tenants
        /\ pc[r] \in InTransaction => ~ Taken(slug[r])
        /\ \A q \in Requests \ {r} :
               pc[r] \in InTransaction /\ pc[q] \in InTransaction => slug[r] # slug[q]

\* The public schema is migrated before anybody is served, and stays so.
PublicInv ==
    /\ schemas[Public] # "absent"
    /\ Up => schemas[Public] = "migrated"

IInv ==
    /\ TypeOK
    /\ TenantInv
    /\ PublicInv
    /\ SchemaIffTenant
    /\ MigrationFindsSchema
    /\ SlugIsUnique
    /\ ServedWhenMigrated

LEMMA InitIInv == Init => IInv
  BY PublicAssumption DEF Init, IInv, TypeOK, TenantInv, PublicInv, SchemaIffTenant, Up,
     MigrationFindsSchema, SlugIsUnique, ServedWhenMigrated, Schemas, InTransaction

LEMMA InductiveStep == IInv /\ [Next]_vars => IInv'
<1> SUFFICES ASSUME IInv, [Next]_vars PROVE IInv'
  OBVIOUS
<1> USE PublicAssumption
        DEF IInv, TypeOK, TenantInv, PublicInv, SchemaIffTenant, MigrationFindsSchema,
            SlugIsUnique, ServedWhenMigrated, Taken, Up, Goto, Schemas, InTransaction,
            Working, Finished
<1>1. CASE Boot
  BY <1>1 DEF Boot
<1>2. CASE Crash
  BY <1>2 DEF Crash
<1>3. ASSUME NEW r \in Requests, NEW s \in Slugs, Arrive(r, s) PROVE IInv'
  BY <1>3 DEF Arrive
<1>4. ASSUME NEW r \in Requests, InsertTenant(r) PROVE IInv'
  BY <1>4 DEF InsertTenant, SlugLocked
<1>5. ASSUME NEW r \in Requests, CreateSchema(r) PROVE IInv'
  BY <1>5 DEF CreateSchema
<1>6. ASSUME NEW r \in Requests, Commit(r) PROVE IInv'
  BY <1>6 DEF Commit
<1>7. ASSUME NEW r \in Requests, RunMigrations(r) PROVE IInv'
  BY <1>7 DEF RunMigrations
<1>8. ASSUME NEW r \in Requests, Finish(r) PROVE IInv'
  BY <1>8 DEF Finish
<1>9. ASSUME NEW r \in Requests, Fail(r) PROVE IInv'
  BY <1>9 DEF Fail
<1>10. ASSUME NEW s \in Schemas, Upgrade(s) PROVE IInv'
  BY <1>10 DEF Upgrade
<1>11. ASSUME NEW s \in Schemas, Close(s) PROVE IInv'
  BY <1>11 DEF Close, InsideTransaction
<1>12. ASSUME NEW s \in Schemas, Abort(s) PROVE IInv'
  BY <1>12 DEF Abort
<1>13. CASE UNCHANGED vars
  BY <1>13 DEF vars
<1> QED
  BY <1>1, <1>2, <1>3, <1>4, <1>5, <1>6, <1>7, <1>8, <1>9, <1>10, <1>11, <1>12, <1>13 DEF Next, Serve, Migrate

LEMMA AlwaysIInv == Spec => []IInv
  BY InitIInv, InductiveStep, PTL DEF Spec

\* Tables, processes and requests stay in their states.
THEOREM TypeCorrect == Spec => []TypeOK
  BY AlwaysIInv, PTL DEF IInv

\* No failure or crash leaves a tenant without a schema or a schema without a tenant.
THEOREM SchemasComeWithTenants == Spec => []SchemaIffTenant
  BY AlwaysIInv, PTL DEF IInv

\* Alembic only ever looks for schemas that are there.
THEOREM MigrationsFindTheirSchema == Spec => []MigrationFindsSchema
  BY AlwaysIInv, PTL DEF IInv

\* No two tenants get one slug, whatever races and fails.
THEOREM SlugsAreUnique == Spec => []SlugIsUnique
  BY AlwaysIInv, PTL DEF IInv

\* Requests meet a migrated public schema.
THEOREM ServersAreMigrated == Spec => []ServedWhenMigrated
  BY AlwaysIInv, PTL DEF IInv

-----------------------------------------------------------------------------
\* In schema mode no tenant is ever given its tables, also where the request was
\* answered 201: what alembic did in the tenant's schema is rolled back each time.
NeverProvisioned == \A r \in Requests : schemas[r] # "migrated"

\* The schema of a tenant stays as CREATE SCHEMA made it: run_migrations_for_schema
\* succeeds and leaves nothing behind, for every tenant and not only in the run that
\* shows one.
THEOREM TenantsStayEmpty == Spec => []NeverProvisioned
<1>1. Init => NeverProvisioned
  BY PublicAssumption DEF Init, NeverProvisioned, Schemas
<1>2. IInv /\ NeverProvisioned /\ [Next]_vars => NeverProvisioned'
  <2> SUFFICES ASSUME IInv, NeverProvisioned, [Next]_vars PROVE NeverProvisioned'
    OBVIOUS
  <2>1. ASSUME NEW r \in Requests, Commit(r) PROVE NeverProvisioned'
    BY <2>1 DEF Commit, NeverProvisioned, IInv, TypeOK, Schemas
  <2>2. ASSUME NEW s \in Schemas, Close(s) PROVE NeverProvisioned'
    BY <2>2, PublicAssumption DEF Close, InsideTransaction, NeverProvisioned, IInv, TypeOK, Schemas
  <2>3. CASE UNCHANGED schemas
    BY <2>3 DEF NeverProvisioned
  <2> QED
    BY <2>1, <2>2, <2>3 DEF Next, Boot, Crash, Serve, InsertTenant, CreateSchema,
       RunMigrations, Finish, Fail, Arrive, Migrate, Upgrade, Abort, vars
<1> QED
  BY <1>1, <1>2, AlwaysIInv, PTL DEF Spec
=============================================================================
