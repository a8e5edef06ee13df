------------------------- MODULE TenantProvisioning -------------------------
(***************************************************************************)
(* POST /api/v1/tenants with MULTI_TENANT_MODE=schema: create_tenant with  *)
(* TenantSchemaService, and alembic/env.py, which runs in a process of its *)
(* own with a connection of its own, for a tenant and, when the container  *)
(* starts, for the public schema.                                          *)
(*                                                                         *)
(* A request makes one tenant, so the request stands for the tenant's key  *)
(* and for the schema named after it.                                      *)
(***************************************************************************)
EXTENDS Integers

CONSTANTS
    Requests,  \* requests to create a tenant; each runs once
    Slugs,     \* what they name it
    Public,    \* the public schema
    None       \* no slug

ASSUME PublicAssumption == Public \notin Requests /\ None \notin Slugs

VARIABLES
    tenants,  \* keys of the rows committed
    schemas,  \* schema -> "absent", "empty" or "migrated", as committed
    alembic,  \* what the alembic process of a schema is doing
    slug,     \* argument of the request
    pc        \* where the request is

vars == <<tenants, schemas, alembic, slug, pc>>

Schemas == Requests \cup {Public}

InTransaction == {"schema", "commit"}  \* the slug is inserted and locked
Working  == {"insert", "migrate", "wait"} \cup InTransaction
Finished == {"done", "failed"}         \* answered 201, or with an error

Goto(r, label) == pc' = [pc EXCEPT ![r] = label]

\* docker-compose starts the server once `alembic upgrade head` has succeeded.
Up == alembic[Public] = "ok"

\* Mutant of Taken: tenants.slug without its unique index.
TakenNever(s) == FALSE

\* The unique index on slug refuses another row.
Taken(s) == \E t \in tenants : slug[t] = s

SlugLocked(s) == \E q \in Requests : pc[q] \in InTransaction /\ slug[q] = s

\* Mutant of InsideTransaction: SET search_path is sent for every schema.
InsideAlways(schema) == TRUE

\* do_run_migrations sends SET search_path for a tenant's schema, and with it
\* begins a transaction before context.configure looks for one.
InsideTransaction(schema) == schema # Public

-----------------------------------------------------------------------------
Init ==
    /\ tenants = {}
    /\ schemas = [s \in Schemas |-> IF s = Public THEN "empty" ELSE "absent"]
    /\ alembic = [s \in Schemas |-> "idle"]
    /\ slug = [r \in Requests |-> None]
    /\ pc = [r \in Requests |-> "idle"]

\* The container starts with the migrations of the public schema.
Boot ==
    /\ alembic[Public] \in {"idle", "error"}
    /\ alembic' = [alembic EXCEPT ![Public] = "started"]
    /\ UNCHANGED <<tenants, schemas, slug, pc>>

Arrive(r, s) ==
    /\ Up
    /\ pc[r] = "idle"
    /\ Goto(r, "insert")
    /\ slug' = [slug EXCEPT ![r] = s]
    /\ UNCHANGED <<tenants, schemas, alembic>>

\* The INSERT is flushed; it waits for a transaction that holds the slug.
InsertTenant(r) ==
    /\ pc[r] = "insert"
    /\ ~ SlugLocked(slug[r])
    /\ Goto(r, IF Taken(slug[r]) THEN "failed" ELSE "schema")
    /\ UNCHANGED <<tenants, schemas, alembic, slug>>

\* Mutant of CreateSchema: the DDL is committed by itself.
CreateSchemaAutocommit(r) ==
    /\ pc[r] = "schema"
    /\ Goto(r, "commit")
    /\ schemas' = [schemas EXCEPT ![r] = "empty"]
    /\ UNCHANGED <<tenants, alembic, slug>>

\* create_schema: CREATE SCHEMA, in the transaction of the INSERT.
CreateSchema(r) ==
    /\ pc[r] = "schema"
    /\ Goto(r, "commit")
    /\ UNCHANGED <<tenants, schemas, alembic, slug>>

\* Mutant of Commit: the commit comes after the migrations.
CommitLater(r) ==
    /\ pc[r] = "commit"
    /\ Goto(r, "migrate")
    /\ UNCHANGED <<tenants, schemas, alembic, slug>>

Commit(r) ==
    /\ pc[r] = "commit"
    /\ tenants' = tenants \cup {r}
    /\ schemas' = [schemas EXCEPT ![r] = "empty"]
    /\ Goto(r, "migrate")
    /\ UNCHANGED <<alembic, slug>>

\* run_migrations_for_schema starts alembic and waits for it in a thread.
RunMigrations(r) ==
    /\ pc[r] = "migrate"
    /\ alembic' = [alembic EXCEPT ![r] = "started"]
    /\ Goto(r, "wait")
    /\ UNCHANGED <<tenants, schemas, slug>>

\* Mutant of Finish: the exit status is returned for the tenant.
FinishWithStatus(r) ==
    /\ pc[r] = "wait"
    /\ alembic[r] \in {"ok", "error"}
    /\ Goto(r, alembic[r])
    /\ UNCHANGED <<tenants, schemas, alembic, slug>>

\* Mutant of Finish: the thread ends for a successful alembic only.
FinishOnSuccess(r) ==
    /\ pc[r] = "wait"
    /\ alembic[r] = "ok"
    /\ Goto(r, "done")
    /\ UNCHANGED <<tenants, schemas, alembic, slug>>

\* check=True: an exit status raises.  The tenant is there all the same.
Finish(r) ==
    /\ pc[r] = "wait"
    /\ alembic[r] \in {"ok", "error"}
    /\ Goto(r, IF alembic[r] = "ok" THEN "done" ELSE "failed")
    /\ UNCHANGED <<tenants, schemas, alembic, slug>>

\* Any exception in the request; a process it has started runs on.
Fail(r) ==
    /\ pc[r] \in Working
    /\ Goto(r, "failed")
    /\ UNCHANGED <<tenants, schemas, alembic, slug>>

\* The server dies with the requests it serves, and perhaps (Abort) the processes.
Crash ==
    /\ alembic[Public] # "idle"
    /\ alembic' = [alembic EXCEPT ![Public] = "idle"]
    /\ pc' = [r \in Requests |-> IF pc[r] \in Working THEN "failed" ELSE pc[r]]
    /\ UNCHANGED <<tenants, schemas, slug>>

-----------------------------------------------------------------------------
\* run_migrations: every revision the schema has not had.  The version table
\* cannot be made in a schema that is not there.
Upgrade(s) ==
    /\ alembic[s] = "started"
    /\ alembic' = [alembic EXCEPT ![s] = IF schemas[s] = "absent" THEN "error" ELSE "upgraded"]
    /\ UNCHANGED <<tenants, schemas, slug, pc>>

\* The end of begin_transaction commits, unless it found a transaction begun: then
\* it leaves that one alone and the connection rolls it back as it closes.
Close(s) ==
    /\ alembic[s] = "upgraded"
    /\ alembic' = [alembic EXCEPT ![s] = "ok"]
    /\ schemas' = IF InsideTransaction(s) THEN schemas
                  ELSE [schemas EXCEPT ![s] = "migrated"]
    /\ UNCHANGED <<tenants, slug, pc>>

Abort(s) ==
    /\ alembic[s] \in {"started", "upgraded"}
    /\ alembic' = [alembic EXCEPT ![s] = "error"]
    /\ UNCHANGED <<tenants, schemas, slug, pc>>

Serve(r) ==
    \/ InsertTenant(r)
    \/ CreateSchema(r)
    \/ Commit(r)
    \/ RunMigrations(r)
    \/ Finish(r)

Migrate(s) == Upgrade(s) \/ Close(s)

Next ==
    \/ Boot
    \/ Crash
    \/ \E r \in Requests : Serve(r) \/ Fail(r) \/ \E s \in Slugs : Arrive(r, s)
    \/ \E s \in Schemas : Migrate(s) \/ Abort(s)

Spec == Init /\ [][Next]_vars

\* The event loop resumes every request, and alembic comes to an end.
FairSpec ==
    /\ Spec
    /\ \A r \in Requests : WF_vars(Serve(r))
    /\ \A s \in Schemas : WF_vars(Migrate(s))

-----------------------------------------------------------------------------
\* The tables, the processes and the requests are in one of their states.
TypeOK ==
    /\ tenants \subseteq Requests
    /\ schemas \in [Schemas -> {"absent", "empty", "migrated"}]
    /\ alembic \in [Schemas -> {"idle", "started", "upgraded", "ok", "error"}]
    /\ slug \in [Requests -> Slugs \cup {None}]
    /\ pc \in [Requests -> {"idle"} \cup Working \cup Finished]

\* A tenant and its schema come into being together, wherever create_tenant or
\* the server is cut off: no tenant without a schema, no schema without a tenant.
SchemaIffTenant == \A r \in Requests : r \in tenants <=> schemas[r] # "absent"

\* Alembic, on a connection of its own, never looks for a schema that is not there
\* or not yet visible.
MigrationFindsSchema == \A s \in Schemas : alembic[s] # "idle" => schemas[s] # "absent"

\* A slug is given to one tenant, also when requests race for it and some of them fail.
SlugIsUnique == \A t, u \in tenants : slug[t] = slug[u] => t = u

\* Requests are served only on a database whose public schema has been migrated.
ServedWhenMigrated ==
    \A r \in Requests : pc[r] # "idle" => schemas[Public] = "migrated"

\* A request ends, whatever becomes of its alembic and of the requests whose slug
\* it waits for: it is answered, or cut off with the server.
Answered == \A r \in Requests : pc[r] \in Working ~> pc[r] \in Finished

\* README.md:145 says of schema mode that it "Requires schema provisioning on tenant
\* creation": a tenant answered with 201 has its tables.
CreatedIsProvisioned == \A r \in Requests : pc[r] = "done" => schemas[r] = "migrated"
=============================================================================
