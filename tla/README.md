# Verification of the multi-tenant authentication API

TLA+ models of `app/`, the FastAPI service of this repository: what its concurrent
requests do to sessions, accounts and their recovery, rate-limit buckets, tenants,
members and invitations, admin rights, tenant schemas, and what they pass before they
reach a handler; TLC runs that check them on small instances; and TLAPS proofs of the
safety properties for every value of the constants.

Paths below are relative to the repository root; `auth_service.py:89` is short for
`app/services/auth_service.py`, line 89, and so on.

## 1. The system

One uvicorn process (`docker/Dockerfile:21`, no `--workers`) runs an asyncio event loop.
A request passes `tenant_context_middleware` (outermost: it is added last,
`main.py:31`), `RateLimitMiddleware`, the router's dependencies, and the handler, which
calls a service. Every request has an `AsyncSession` of its own (`deps.py:8`), one
PostgreSQL transaction at the default READ COMMITTED that is rolled back unless the
handler commits. A handler gives up control at each `await`, so handlers interleave
between database statements; nothing else is shared but the tables and the limiter's
dictionary. In schema mode a request also starts Alembic, a process with a database
connection of its own.

| Component | State | Operations | Correct when | Here |
|---|---|---|---|---|
| Sessions: `AuthService.login`, `refresh`, `logout` | `refresh_tokens` | login, refresh (rotation), logout | a spent row is not spent again later; rotation is atomic; removed members get no token; no row without its user; a logged-out token is dead; a session stays one user's in one tenant and ends for good | `AuthSession`, `Sessions` |
| Token service | none (JWTs) | create, decode, hash, `issue_token_pair` | a token's claims and expiry are what its row says | refresh tokens in `AuthSession`, typed tokens in `AccountRecovery`, access tokens in `RequestGate` |
| Account recovery: register, verify-email, forgot- and reset-password | `users`, `email_verification_tokens`, `password_reset_tokens`, letters | as named | one account per address; a dead token is refused; an account can be verified from the answer of its registration until the token expires; only letters to its address change it | `AccountRecovery`, `Accounts` |
| Rate limiter: `RateLimitMiddleware` | `_buckets`, in memory | `_allow` | no window of time exceeds burst + rate; refused requests cost nothing; clients are independent; a restart gives one burst more, no rate | `RateLimit`, `ArrivalCurve` |
| Tenants, members, invitations: `TenantService`, `require_tenant_admin` | `tenants`, `tenant_members`, `tenant_invitations` | create, update, delete, invite, accept, change role, remove | members come from founding or an invitation made out to them, once; nobody acts after being removed; a tenant has its owner; a deactivated tenant stays so | `Tenancy`, `Membership`, `Directory` |
| Audit log | `audit_logs` | `AuditLogger.log` after the commit | (its entries are never committed) | `Audit` of `Tenancy` |
| Admin: users, roles, permissions | `users`, `user_roles`, `role_permissions` | assign, remove, update, delete, list | every effect was ordered by somebody active and permitted when the order was taken; nothing is left of a deleted user; rights come only from rights | `AdminRbac`, `Delegation`, `Directory`; the commits also in `AuthSession` |
| Tenant context middleware, `get_current_user`, `require_permission` | `request.state` | read and refuse | what came too late gets no tenant and no handler; a tenant is the one named, of somebody who has stood in it | `RequestGate`; the permission in `AdminRbac` |
| Schema provisioning (`MULTI_TENANT_MODE=schema`), `alembic/env.py` | PostgreSQL schemas | `create_schema`, Alembic subprocess, boot | tenant and schema come together; Alembic finds its schema; a server has a migrated database | `TenantProvisioning` |
| Request and response schemas, bcrypt, SMTP, settings, health, container, CI | none | | | left out (section 6) |

Interactions: login and refresh read `users` and `tenant_members`, which the account and
tenant handlers write; `delete_user` cascades to sessions, recovery tokens, roles,
memberships and owned tenants; `register` fills `users`; the tenant middleware and the
limiter stand in front of the handlers and read what these write; the audit log runs
inside tenant handlers, after their commit; Alembic reads what `create_tenant` has
committed.

What makes this hard: check-then-act over several awaits, row locks and unique indexes
that decide who waits and who fails, failures before and after a commit, handlers of two
or three commits, second-granular token strings, deletions under a running request,
objects of the session's identity map that are older than the row, a second process that
sees committed data only, and restarts that forget the buckets. `PROJECT.json` lists
each hazard at its line with the properties that cover it.

## 2. The modules

### AuthSession: login, refresh, logout

State: `account` is `users.is_active` or the deleted row; `membership` the
`tenant_members` row of a user and a tenant; `refresh_tokens` the table; `now` the clock
in whole seconds, the resolution of `exp`. A request adds at most one row, so the
request itself stands for the row's uuid. Per request: `pc`, `call` (endpoint and
arguments) and the locals `picked` (`token_record`) and `issued` (the new token).
`preceding` and `barred` are history: who had been answered, and whether the membership
was already removed, when the request arrived.

A refresh token is the record of its claims `[sub, tenant, exp]`, because that is all
the JWT holds (`token_service.py:36-38`): two tokens made for one user and tenant within
a second are equal, as the strings are. `token_hash` is taken as injective.

| Action | Code |
|---|---|
| `ArriveLogin`, `ArriveWithToken` | `routers/auth.py`; tokens are those the service handed out |
| `LoginCheckUser`, `CheckMember`, `LoginIssue`, `CommitLogin` | `AuthService.login`, `_require_active_tenant_membership`, `issue_token_pair` with its foreign key, the commit |
| `DecodeToken`, `SelectToken` | `decode_token`; the SELECT, where `scalar()` returns any one of several matches, and the check of `expires_at` |
| `RotateToken`, `CommitRefresh` | flush of `revoked_at` (waits for the row lock; a row deleted meanwhile raises), the new row, the commit of both |
| `RevokeToken` | `logout`'s UPDATE and commit |
| `Fail` | any exception before the commit: the session rolls back |
| `UpdateUser`, `DeleteUser`, `AddMember`, `RemoveMember` | the commits of `admin.py` and of the tenant handlers |

`Locked` and the guard of `DeleteUser` are PostgreSQL's row and foreign-key locks. A
deadlock, which PostgreSQL ends by failing one transaction, is a case of `Fail`.

`LogoutEndsTheSession` says when a logged-out token may still refresh: the service had
given its string to two sessions before. The refresh itself is not counted as one of
them, although it makes that same string again if it comes within the second.

### Sessions: what the token endpoints promise

`Sessions` has neither tokens nor a clock nor transactions. A session is opened for a
user who was active, and in a tenant only for one who was a member of it; a claim made
while it was open, whose user was a member then, continues it once, for the same user
and tenant, and that ends it; a logout ends it; a deleted user's sessions are gone.
Several claims may hold one session and all be answered: the spec says so, because the
code's SELECT takes no lock, and an UPDATE that waited for another revokes the row once
more. What it excludes is a claim made after the session had ended.

The refinement (`SessionOf`, `ClaimOf`) maps a committed row of `refresh_tokens` to the
session of the request that inserted it, open while `revoked_at` is NULL, and a request
past its SELECT to a claim: asked while it waits for `CheckMember`, cleared afterwards.
A row whose user was deleted is a session that is gone. Everything before the SELECT,
the flushes, the clock and failures of what claims nothing are stutters.
`SessionsOnlyEnd` states on the rows what follows for each of them: it keeps its user
and its tenant, and once ended it is never open again.

### Directory: users and members, between the components

`Directory` has the two tables that several components share, `users` and
`tenant_members`, with the four changes they may go through: a user's `is_active` set, a
user deleted with the memberships, a member admitted to a membership there never was, a
member removed. `AuthSession` and `Sessions` only read these tables, and what they allow
their surroundings to do is what `Directory` says: each of `AuthSession`'s account
actions is a step of it (`AccountsChange`), and it admits all but deletions at any time
(`DirectoryIsFree`): its guards assume nothing, except that a deletion waits for the
locks that logins and refreshes in flight hold on rows of its user. That the writers
stay inside it is shown where they are modelled: `AdminRbac` implements `Directory` for
the users and `Tenancy` for the members (`ImplementsDirectory` in both).

### RateLimit and ArrivalCurve

`_allow` has no await, so a request is one step: `Serve` or `Refuse`
(`ratelimit.py:26-44`). Time is in ticks and tokens are counted in units of rate per
tick, so a request costs `Cost = 1/rate` units and a full bucket is `Burst * Cost`; the
sums are then exact. The rounding of Python's float is not modelled. `Restart` is the
loss of the process's memory; `served` and `limited` are what the present process has
decided, while the history variables `passed` and `restarts` outlive it. `Exhausted`
stands for the service after the last step the bounds allow. Only the requests that
reach the middleware count: those the tenant middleware refuses have not reached it.

`ArrivalCurve` says what is promised without a bucket: a request is served exactly when
every stretch of time ending now holds at most `Burst` requests plus one per `Cost`
ticks. `ImplementsArrivalCurve` is the refinement, both ways: nothing more is served and
nothing else refused. It is a promise of one process: its windows do not reach behind
the last restart, since nothing of the buckets is stored. What is left of it over
restarts is `RestartsAreBursts`: each gives a client at most one more full bucket, and
the rate counts from the start of the first process, not once for each.

### Tenancy and Membership

`Slots` are the requests in service at one time; a slot takes a new request once the
last is answered, so executions are unbounded in length. A slug is unique and stands for
its tenant; an email stands for its user. `handed` holds the invitations whose token
some client was given: an answer lost to a failing audit entry hands out nothing.
`stale` marks a request that arrived when its actor had already been removed, or its
invitation been used or expired.

| Action | Code |
|---|---|
| `Authorize` | `require_tenant_admin`: membership, then role |
| `ReadTenant`, `CommitUpdate` | `update_tenant` and `delete_tenant` (`is_active = FALSE`) |
| `CommitInvite` | `invite_member` |
| `ReadMember`, `CommitRole`, `CommitRemove` | `update_member_role`, `remove_member` |
| `InsertTenant`, `CommitCreate` | `create_tenant`: the flush against the unique slug, then owner and membership |
| `FindInvitation`, `MarkAccepted`, `CheckExisting`, `CommitJoin` | `accept_invitation`: the SELECT and its checks, the autoflush of `accepted_at` that locks the row, the 409, the INSERT against the unique pair |
| `Audit`, `Fail`, `Expire` | `AuditLogger.log` and the answer; rollback at any await; `expires_at` passes |

SQLAlchemy writes changed columns only; `CommitUpdate`, `CommitRole` and `CommitRemove`
therefore write one column and overwrite nothing another request wrote since the read.
What was read with the value it is to get is not written at all: a request to activate
an active tenant, or to give a member the role he was read with (`ReadMember` sends it
on to the audit entry).
The handlers that only read (`list`, `get`, `members`) change no state and are no
actions. Users are not deleted here (an owner cannot be: `owner_id` is NOT NULL and the
ORM would set it to NULL); `DeleteUser` of `AuthSession` covers deletion.

`Abandoned` is the state of a tenant that nobody can administer again: it has no active
member with an admin role, no admin request past `Authorize`, no unused offer of an
admin role, not even one whose acceptance is under way. `AbandonmentIsFinal` says that
every step leaves it so: rights in a tenant come only from rights in it, and
`tenant_service.py` gives the owner none without a membership.

`Membership` is the promise: a user enters by founding the tenant or by taking an open
offer made out to that user, an offer admits once, and whoever was removed stays
removed. The refinement maps `tenant_members` rows to standings and `tenant_invitations`
rows to offers. Expiry and roles are invisible at that level.

### AccountRecovery and Accounts: register, verify, forgot, reset

A request inserts at most one user and one token row, so it stands for both uuid4 keys
and for the password it brings. `tokens` holds the rows of both token tables (the kind
of the token says which), `mailed` the letters SMTP has taken; tokens that clients
present have come in a letter. As in `AuthSession` a token is its claims and its expiry
a whole second, while the row's `expires_at` keeps the fraction: `SelectToken` allows
both outcomes in the second of expiry. `late` records the requests whose token was dead
on arrival: expired, or all its rows used and none to come.

| Action | Code |
|---|---|
| `ArriveWithEmail`, `ArriveWithToken` | the four routes of `routers/auth.py`; a token may go to the wrong endpoint |
| `Lookup` | the SELECT by address: a 400 for `register`, the same answer with or without an account for `forgot_password` |
| `InsertUser`, `IssueVerification` | `register`'s first commit, against the unique address, and the `refresh` after it |
| `StoreToken`, `SendEmail` | the token's row and its commit, with its foreign key; the letter |
| `DecodeToken`, `SelectToken`, `SelectUser`, `CommitToken` | `verify_email` and `reset_password`; the commit writes the user and `used_at` together |
| `Fail`, `DeleteUser`, `Tick` | an exception at any await; the cascade of a deletion; time |

`VerifiableInTime` is what an answered registration is worth: as long as its token has
not expired, the account is verified or a letter with a token that `verify_email`
accepts has been sent. `Stranded` is an account that no letter verifies any more,
because its registration failed before the letter (`auth_service.py:37-53`) or because
the token expired unused: no endpoint sends another one. `StrandedIsFinal` says that it
stays unverified until an admin deletes it, whatever old letters are presented where.
Its address cannot be registered meanwhile (`auth_service.py:26-28`).

`Accounts` is what the owner of an address may rely on: one open account has the
address, letters about an account go to its address only, nobody but a reader of those
letters verifies the account or changes its password, a closed account stays closed. The
refinement maps a user's row to an account, whose address outlives the row.

### AdminRbac and Delegation: admin endpoints behind `require_permission`

`grants` are the rows of `user_roles` and `role_permissions`, seeded as the migrations
do; `owners` the users that own a tenant. A slot is a request in service, as in
`Tenancy`. `seen` is the `is_active` its SELECT returned. Two points of the code shape
the model. The gate and the handler share a session, so `update_user` of one's own
account works on the object `get_current_user` loaded (`SeenActive`), and SQLAlchemy
writes `is_active` only if it differs from what that object holds. And `delete_user`
loads `owned_tenants` to set `owner_id` to NULL, which is NOT NULL, so deleting an owner
ends in a 500 (`LoadOwned`), while a tenant founded after the load goes with the
cascade.

| Action | Code |
|---|---|
| `Identify`, `Permit` | `get_current_user`, `require_permission` and `check_permission`'s join |
| `FindPair`, `InsertPair` | `assign_role_to_user`, `assign_permission_to_role`: the 409, then INSERT against the primary key and the user's foreign key |
| `DeletePair`, `CommitRemoval` | `remove_role_from_user`, `remove_permission_from_role`: the DELETE holds the row until the commit |
| `FindUser`, `CommitUpdate`, `LoadOwned`, `CommitDelete` | `update_user`, `delete_user` |
| `Read` | the six handlers that only read, one of them for each permission they need |
| `CreateTenant`, `Fail` | the commit of `create_tenant`; rollback |

`Pairs` bounds which pairs requests name; it is a parameter and the theorems hold for
every subset of the possible ones. `Delegation` is the promise: a desk takes an order
from a user who was active and then held the permission the order calls for, carries it
out once or withdraws it, nothing else changes grants or users, and nobody lifts his own
deactivation. An order is taken when `Permit` has let it pass: the code does not check
again at the effect.

### TenantProvisioning: schema mode

A request makes one tenant and stands for its key and schema. `schemas` is what is
committed of each schema; `alembic` what the process of a schema is doing.
`InsertTenant`, `CreateSchema` and `Commit` are one transaction of the request;
`RunMigrations` and `Finish` are the thread that starts Alembic and waits for it.
`Upgrade` and `Close` are `env.py`: for a tenant's schema `SET search_path` has begun a
transaction before Alembic looks for one, so its own commits nothing and the connection
rolls back (`InsideTransaction`). `Boot` is `docker-compose.yml`'s command, migrations
and then the server; `Crash` ends the server with its requests, `Abort` an Alembic
process, `Fail` a request whose process may run on.

### RequestGate: what a request passes before its handler

`Middleware`, `FindTenant` and `FindMember` are `tenant_context_middleware` with its two
queries in a session of its own, `Limit` the limiter (which may serve or refuse:
`RateLimit` has its state), `Identify` is `get_current_user`. `call` is the request's
header, bearer token and whether its endpoint is for users only. A malformed header
raises outside the handlers of errors: the request ends in `crashed`. Around it,
`MembersChange` is `Membership!Next`: members come and go as the abstract specification
says, which `Tenancy` is proved to implement, so the gate is composed with the promise
and not with the statements. A user who owns a tenant is not deleted (see `AdminRbac`),
hence the guard of `DeleteUser`. `late` records the requests that came after their
tenant was deactivated, or their user removed from it or deleted.

The `*MC` modules add symmetry sets and values for TLC. The `*_proofs` modules hold the
theorems. In the models, a definition headed "Mutant of" is a variant with a plausible
bug, used to show that a property can fail; no specification refers to it.

## 3. The runs

| Run | Instance | Shows |
|---|---|---|
| `AuthSession_all` | 3 requests, 1 user, 1 tenant, lifetime 1, clock to 1 | `TypeOK`, `NoLateSpend`, `RotationAtomic`, `NoTokenAfterRemoval`, `NoOrphanSession`, `LogoutEndsTheSession` (a token survives its logout only if two earlier sessions share its string), `ImplementsSessions`, and `RequestsAnswered` under `FairSpec` |
| `AuthSession_readme_logout` | 4 requests, 1 user, no tenant, lifetime 1, clock to 1 | violation, finding 1 |
| `AccountRecovery_all` | 4 requests, 1 address, lifetimes 2, clock to 2 | `TypeOK`, `VerifiableInTime`, `DeadTokenIsRefused`, `StrandedIsFinal`, `ImplementsAccounts` |
| `AccountRecovery_readme_reset` | 4 requests, 1 address, lifetimes 1, clock still | violation, finding 2 |
| `RateLimit_bucket` | 2 clients, burst 2, cost 3, 7 ticks, 4 requests each and process, 1 restart | `TypeOK`, `WindowBound`, `RestartsAreBursts`, `RefusalHasCause`, `ImplementsArrivalCurve` |
| `Tenancy_invitations` | 2 slots, 2 users, 1 tenant, 2 invitations, 1 role | `ImplementsMembership` |
| `Tenancy_roles` | 2 slots, 2 users, 1 tenant, 1 invitation, 2 roles | `TypeOK`, `TenantHasOwner`, `NoStaleEffect`, `DeactivationIsFinal`, `AbandonmentIsFinal`, `ImplementsDirectory` |
| `Tenancy_live` | 2 slots, 2 users, 1 tenant, 1 invitation | `RequestsAnswered` under `FairSpec` |
| `AdminRbac_delegation` | 2 slots, 2 users, 2 roles, 4 permissions, 3 pairs | `TypeOK`, `NothingOfTheDeleted`, `LockoutIsFinal`, `ImplementsDelegation`, `ImplementsDirectory` |
| `TenantProvisioning_all` | 3 requests, 2 slugs | `TypeOK`, `SchemaIffTenant`, `MigrationFindsSchema`, `SlugIsUnique`, `ServedWhenMigrated`, and `Answered` under `FairSpec` |
| `TenantProvisioning_readme` | 3 requests, 2 slugs | violation, finding 3 |
| `RequestGate_late` | 1 request, 2 tenants, 2 users, 1 invitation | `TypeOK`, `LateStaysOut`, `ContextHasStood` |

**Bounds.** Three requests give a login whose token two others fight over, and a login,
a logout and a refresh; four give two logins of one second, a logout and a refresh,
which is what a logout needs to go wrong, and a registration, a request for a reset and
two resets that race, or two registrations of one address with a verification each. One
user, one address, is enough: rows of different users share nothing (every query names
the user or the address). The clock reaches the second of expiry and the one before, and
with lifetime 2 a token outlives another and is spent before it expires. In
`RateLimit_bucket` seven ticks with burst 2 and cost 3 let a bucket run dry, refill
partly and wholly, and hit its cap; `MaxRequests` bounds the requests of one client to
one process, and one restart is what `RestartsAreBursts` needs to tell a burst more from
the rate counted twice. Two slots let any two statements of any two handlers interleave,
for executions of any length; two invitations may both be made out to one user, and two
users are an admin who leaves and one who is offered his place. In
`AdminRbac_delegation` the pairs are the manager's own role, the same role for the other
user, and the permission to manage: enough to lose the last manager in either table. Two
of the three creations in `TenantProvisioning_all` must share a slug. In `RequestGate`
requests share nothing, since they only read, so one sees every interleaving with the
changes around it; two tenants make a token and a header disagree, two users make a
member other than the owner.

`MaxTime`, `MaxRequests`, `MaxRestarts` and `Pairs` are the only bounds the modules
contain. All are parameters, and every safety property above is a theorem for every
value of them and of the sets.

**Fairness.** `FairSpec` of `AuthSession` and `TenantProvisioning` has weak fairness of
each request's next step: the event loop resumes a coroutine whose statement has been
answered, and PostgreSQL answers every statement. Nothing is assumed of arrivals,
account changes, failures, crashes or the clock. Waiting on a row lock is an action that
is disabled; in `Tenancy` it may be disabled again and again by newcomers, and strong
fairness of `InsertTenant` and `MarkAccepted` says that PostgreSQL grants a lock in the
order of requests. In `TenantProvisioning` an open transaction's slug is the only thing
waited for, and the requests are finite, so weak fairness does; Alembic is a program
that runs to its end, which is weak fairness of `Migrate`. `RequestsAnswered` and
`Answered` then exclude waits in a circle, waiting for a row that has gone, and waiting
for a process that was killed.

**Deadlock** is checked in every run but one. `Quiescent` of `AuthSession` and
`AccountRecovery` stands for a service with no request left, `Exhausted` of `RateLimit`
for one that has reached every bound; a server of `TenantProvisioning` can always crash,
and a slot of `Tenancy` or `AdminRbac` is always free for, or busy with, a request.
`RequestGate_late` switches the check off: its request arrives once, no request waits
for anything, and the world around it may come to rest.

## 4. Findings

1. **A logout may leave its token valid.** `README.md:73` says logout "invalidates
   refresh token". Two logins of one user in one second get the same string and two rows
   (`token_hash` is indexed, not unique); logout revokes one, and refresh then accepts
   the string for the other. `LogoutEndsTheSession` shows that this is the only way.
2. **A reset token may work twice.** `README.md:11` promises "one-time tokens". Two
   resets with one token both SELECT it unused, and both are answered with success; the
   later one decides the password. `DeadTokenIsRefused` shows what does hold: a request
   that comes after the token is spent is refused.
3. **A tenant's migrations are rolled back.** `README.md:145` requires "schema
   provisioning on tenant creation". `env.py:44` executes `SET search_path` before
   `context.configure`, which begins a transaction that Alembic then takes for its
   caller's and does not commit. The process exits 0, the client gets 201, and the
   schema is empty. The run shows it of one tenant; `TenantsStayEmpty` proves that it
   is so of every tenant in every execution: no tenant's schema is ever migrated.

Noticed while modelling and recorded as hazards or comments: audit entries are flushed
and never committed; a removed member cannot be invited back (the unique pair makes the
acceptance fail with a 500); the only admin of a tenant can remove himself, and the
tenant is then without one for good unless an offer of the role is still open
(`AbandonmentIsFinal`), as is a service whose last manager of roles steps down
(`LockoutIsFinal`); a user who owns a tenant cannot be deleted (always a 500); a
malformed `X-Tenant-ID` is a 500, not a 400; a password reset leaves the sessions of the
account alive; a registration that fails after its first commit, or whose letter is not
used within a day, leaves an address that can be neither verified nor registered again
until an admin deletes the account (`StrandedIsFinal`); `README.md:84` gives the list of
users to `super_admin` while any role with `users.read` has it; `tests/test_api.sh` logs
out with a token its refresh has revoked, and calls `/api/v1/auth` six times in a row
where the limiter serves five.

## 5. The proofs

All safety properties of the passing runs above are theorems, for any sets of requests,
addresses, users, roles, tenants and invitations and any limiter parameters. Assumed are
only the named assumptions on constants: `NoTenant` is no tenant and `None` no row,
session or claim (`NoTenantAssumption`, `NoneAssumption`, `PromiseAssumption`),
lifetimes and bounds are naturals (`TimeAssumption`, `BoundsAssumption`), burst and cost
are positive (`BurstAssumption`, `CostAssumption`), `NoBucket` is no bucket
(`NoBucketAssumption`), `tenant_admin` is a role and an admin role (`RolesAssumption`),
lifetimes of recovery tokens are naturals (`LifetimeAssumption`), `super_admin` is a
role, the users made so by hand are users, no user is a role and requests name possible
pairs (`RbacAssumption`), and the public schema is no tenant's (`PublicAssumption`).

**AuthSession_proofs.** The properties are not inductive: `NoLateSpend` compares
answered requests only, while the harm is done when a row is picked. `IInv` adds
`LocalsInv` (a stage implies its locals), `PickedInv` (a picked row belongs to another,
answered request and carries the caller's token), `RowInv` (a row holds what its request
issued, and its user exists), `CommitInv` (open transactions keep their rows and users),
`EarlierInv` (a request past its SELECT holds no row that a preceding request spent: the
SELECT saw it revoked; nor is its own row one of those) and `BarredInv` (a removal
stays, and stops the request at its check). `InductiveStep` has one step per action.

For `SessionsAreImplemented`, `SessionsInv` adds what a claim is made of: a login holds
no row, a request with a token is for its token's tenant, and what is issued is for the
tenant asked for. `IInv` supplies the rest: `PickedInv` that the row a claim names was
committed, `CommitInv` that the user of an open transaction is not deleted under it. One
lemma per commit (`LoginOpens`, `RefreshContinues`, `LogoutEnds`) finds the effect, one
per check the claim it makes or clears (`CheckedLogin`, `SelectedToken`,
`CheckedMember`), `AccountsChange` covers the surroundings, and `QuietStep` the stutters
and withdrawals. `SessionsAreNotRevived` is then about the specification `Sessions`
alone (`AnswersOnlyEnd`, `DeletionsOnlyEnd`), carried over by the refinement.

**RateLimit_proofs.** `UpperInv`: for every window ending now, what was paid in it plus
what is in the bucket is at most the allowance. `LowerInv`: for some window they are
equal, or the bucket is full. The first gives `WindowBound`; the two together give that
a bucket can pay exactly when `ArrivalCurve` allows the request, hence
`BucketImplementsArrivalCurve`. `RefusalHasCause` follows from `LowerInv`: a window that
is used up ends with a request less than one refill ago.

`LifeInv` is for `RestartsGiveBursts`: all that a client was ever served, with what is
in its bucket, is at most a burst per process and what came in since the first. A
restart adds to both sides at most a full bucket; a refill adds to the left at most what
time adds to the right.

**Tenancy_proofs.** `RowsStay` says what no step undoes: rows, owners, removals,
acceptances and expiries. So what made a request too late persists until the check that
stops it (`StaleInv`), and what a request has read is still there at its commit
(`ReadInv`). `SlugInv` and `KeyInv` are the unique slug and the fresh key; `TenantInv`,
`AcceptedInv` and `MemberHasOrigin` relate the tables. `TenancyImplementsMembership` has
one lemma per commit (`InviteOffers`, `RemoveRemoves`, `CreateFounds`, `JoinJoins`) that
maps it to its abstract action; all other steps are stutters.

`AbandonedTenantsStaySo` looks at the three sources of rights in turn. A request that
was not let in cannot be while nobody in the tenant is an admin (`ReadsKeepAbandoned`);
the commits that make members or roles need a request let in, or an open offer
(`CommitsKeepAbandoned`); so do the ones that make or take offers
(`OffersKeepAbandoned`). `ReadInv` is needed there: an acceptance that has read an offer
and not yet marked it still sees it unused.

`TenancyImplementsDirectory` does not go through the statements again. A step that
`Membership` allows makes, for each tenant and user, a member out of nobody, a removed
one out of a member, or nothing, and at most for one pair (`MembersComeAndGo`), which is
`Admit` or `Dismiss` (`MembershipIsDirectory`); `TenancyImplementsMembership` does the
rest. Users are constant in `Tenancy`, so this is the part of `Directory` about members;
`RbacImplementsDirectory` is the part about users, in which a committed update sets
`is_active` of a user who is still there (`UpdateSets`) and a deletion deletes a user
who was not (`DeleteDeletes`) or comes second and changes nothing.

**AccountRecovery_proofs.** `VerifiableInTime` speaks of answered registrations, so
`RegisteredInv` follows a registration's token from its commit to its letter, and
`RowInv` adds that a spent verification row has its user verified.
`StrandedAccountsStaySo` asks what could verify the account: a request past
`decode_token`, of which there is none by definition and which an expired letter does
not become (`NothingKeepsStranded`; `PresentedInv` says that its token came in a
letter), a commit of such a request (`WritesKeepStranded`), or a new letter, which only
the registration itself sends (`LettersKeepStranded`; `IssuedInv` says that
`forgot_password` makes no verification tokens). For `DeadTokenIsRefused`, `LateInv`
says that a dead token stays dead: once the clock has passed the second of issue no
request makes that string again, and none is about to store it. `UserInv` (a user's row
comes from the registration that is its key), `UniqueInv`, `IssuedInv`, `MailInv`,
`PresentedInv` and `PickedInv` tie rows, letters and requests in flight to one address,
which is what the steps of `RecoveryImplementsAccounts` need; `StageInv` ties a stage to
its endpoint.

**AdminRbac_proofs.** `SessionInv` holds what a request has read, above all that the
actor's own row was seen active; `TableInv` contains `NothingOfTheDeleted`.
`LockoutStays` follows because an assignment past the gate is the only way to a grant.
In the refinement each commit carries out its order, and a step that does nothing
withdraws it.

**TenantProvisioning_proofs.** `TenantInv` (a tenant is there from its commit on, and
its open transaction holds the slug alone) and `PublicInv` (a server that is up has a
migrated public schema) make the five properties inductive together. `TenantsStayEmpty`
needs no more than that Alembic, for a schema other than the public one, always runs
inside the transaction of its connection (`NeverProvisioned`).

**RequestGate_proofs.** `Stopped` says, for each stage, what still stands in the way of
a request that came too late; it persists because removals, deactivations, deletions and
expiries do (`StandingGrows`, from the actions of `Membership`). `AroundKeepsInv` covers
all changes around the requests at once and `MoveKeepsInv` any stage to the next, so
each action of the gate only shows that its query stops what it must.

**Only model-checked:** `RequestsAnswered` of `AuthSession` and `Tenancy` and `Answered`
(liveness under fairness is beyond the prover), and the three violations.

## 6. Not modelled, and what could follow

Modelled and proved, in order of importance: `AuthSession` with `Sessions`; `RateLimit`
with `ArrivalCurve`; `Tenancy` with `Membership`; `AccountRecovery` with `Accounts`;
`AdminRbac` with `Delegation`; `Directory` between `AuthSession`, `AdminRbac` and
`Tenancy`; `RequestGate`; `TenantProvisioning`.

Could follow: `AccountRecovery` and `AuthSession` in one module, to state what a
password reset or a deactivation means for the sessions that are open; `RequestGate` in
front of `Tenancy` instead of `Membership`, to state which tenant a handler acts in when
the path names another.

Left out for good: request and response schemas (validation of one request; the models
take the calls that pass), bcrypt and SMTP (a library and I/O; a wrong password is one
branch of `LoginCheckUser`, a lost letter a `Fail` before `SendEmail`), settings, the
health check, the container and CI (no state), the single DDL statements of a revision
and `downgrade` (nothing runs them beside requests), the rounding of Python's float in a
bucket, and the growth of the dictionary of buckets (nothing bounds it, so there is no
property to state).

Left out of `AuthSession` is one consequence of a race that `AdminRbac` has
(`LoadOwned`): a tenant founded after `delete_user` has looked for owned ones is deleted
with its founder, and the sessions that others have in that tenant go on without one
(`refresh_token.py:23-25`, ON DELETE SET NULL). `AuthSession` deletes no tenants.
