# Verification of the website template in TLA+

The modules here model the stateful core of the API (`apps/api`, NestJS over
Prisma and PostgreSQL), of its client in the browser and of its deployment: who may
change roles, how sessions live and end, what a password reset does, how
protected POST requests are made repeatable, how the audit trail is chained, how
enterprise identity signs people in and provisions accounts and groups, what an
export of projects contains, what several tabs of one browser do to each other,
and what starts when the system is deployed.
Paths below are relative to the repository; `M/` is `apps/api/src/modules/`.

## The system

Several API processes serve HTTP requests and share one PostgreSQL database.
A request passes the middlewares (request context, origin guard, session, CSRF),
the guards of its route, perhaps the idempotency interceptor, and a handler of a
service. All lasting state is in the database; a process holds only what a
request has read. Node runs one continuation at a time, but between two `await`s
any other request, of this or another process, may run. What the code relies on
is therefore: the conditions in the `where` clauses, unique keys, and the isolation of
the transactions it opens. A browser keeps a cookie jar for all its tabs and, in
each tab, a CSRF token in memory; the web server renders pages with the browser's
cookie and drops what the API answers to that.

| Component | State | Operations | Hard behaviour | What makes it correct |
|---|---|---|---|---|
| Role administration, step-up (`M/admin`, `M/auth`) | `User.role`, `Session.stepUpAt` | `updateRole`, `completeStepUp` | concurrent demotions, stale actor, retries, audit write that fails after the commit | an owner remains; only owners change roles, owner-sensitive changes with a fresh confirmation; the trail tells what happened |
| Sessions (`M/auth/session.service.ts`, `session.middleware.ts`) | `Session` rows | create, lookup, touch, rotate, logout, logout-all, revoke, sweep | concurrent requests with one cookie, overlapping logins, lost responses | cap; one rotation per token; a rotation locks no client out; a logout ends its session |
| Local authentication (`M/auth/auth.service.ts`) | `User.passwordHash`, `PasswordResetToken` | signup, login, break-glass login, forgot and reset password | a token used twice, a login under way during a reset, failure between two writes | a token works once; a reset ends what rests on the old password; break-glass is for owners |
| Idempotency (`M/idempotency`) | `IdempotencyRequest` | begin, complete, abandon, cleanup | retries during the first run, crash, failure after the effect, expiry | one run at a time; retries replay one result; no key is blocked for ever |
| Audit trail (`M/audit`) | `AuditLog` | `log` | concurrent writers, clock ties, retention | the hashes form one chain |
| Data retention (`M/governance`) | all of the above | `cleanup` | removes rows others are using | removes only what is over |
| Enterprise sign-in (`M/identity`) | the encrypted state, `UserIdentity`, `disabledAt` | start, OIDC and SAML callback, `upsertEnterpriseUser` | callbacks late, twice, mixed up, after a restart; provisioning against role changes and deactivations | a session rests on one grant, for the sign-in that asked for it; a disabled account stays out |
| SCIM (`M/identity`, `scim.guard.ts`) | `UserGroup`, `UserGroupMembership`, accounts | users and groups: create, replace, deactivate | a serializable transaction against separate statements on the same memberships | each request takes effect, on its own subject only |
| Provider configuration, environment validation (`common/config`, `M/identity`) | `IdentityProviderConfig` rows | validate, synchronise at the start, choose providers | instances with different environments share the rows; two services derive the policy each in its own way, from slugs as they are set and from trimmed ones | an accepted deployment can be signed in to, as configured |
| Bootstrap (`packages/db/prisma/seed.mjs`) | `BootstrapState`, `User` rows | seed | overlapping, repeated and failing jobs | one bootstrap owner; no owner is lost |
| Projects (`M/projects`) | `Project` | list by cursor, create, update, delete, export | updates between two pages or batches | an export is complete or fails |
| CSRF and web client (`csrf.middleware.ts`, `apps/web/lib/client-api.ts`, `server-api.ts`) | `Session.csrfTokenHash`, cookie jar, token cache | issue, assert, refetch, retry | several tabs, answers out of order, rotation by a page | a mutation runs once; a call by itself is not refused; cookies are kept |
| Origin guard | none | check | none: one request and the environment decide | see "Disagreements" |

The services call each other directly. `updateRole`, the logins and every
protected handler call `AuditService.log`, whose conflicts reach their callers as
exceptions. The session middleware supplies the role and the step-up window that
`updateRole` starts from. A protected handler runs between `beginRequest`
and `completeRequest`. Retention deletes rows under all of them. Sign-in and SCIM
read the provider rows that the start of an instance writes.

## The modules

**`OwnerRegistry`** is what the role administration promises, without requests or
transactions: roles change one at a time, by somebody who is an owner at that
moment, and never the last owner's.

**`RoleAdmin`** is `AdminService.updateRole` and `AuthService.completeStepUp`. A
request is a record `req[r]` with what the code keeps in locals. `Arrive` is the
middleware's read and the first guard; `Check` is everything the serializable
transaction reads and refuses, in the order of the code; `Commit` and `Abort` end
the transaction; `AuditChange` and `AuditConflict` are the two ways the audit write
ends, which in the code is inside the same `try`; `Refuse` is the audit entry and
the throw of a refusal; `Fail` is any other error, or the end of the process.
PostgreSQL is modelled by the snapshot a transaction reads (`snap`) and by
`doomed`: when a transaction commits, those concurrent ones are excluded that
write the same row or have a read-write dependency in both directions. This
uses less than the database guarantees, and `Abort` is always possible. The
count of owners has no index to use, so it reads the whole table.

**`SessionLifecycle`** is the session table of one account; no statement of the
code crosses accounts. Each Prisma call is a step: `Lookup` then `Persist` (or
`Drop`) for the middleware; `Insert`, `Select`, `CommitLogin` for the transaction
of `createSession`, at READ COMMITTED, so `Seen` hides uncommitted rows of
others; `RevokeFind` and `RevokeDelete`, and the deletes of logout, logout-all, password
reset, retention. A token is a session id and the number of rotations before it.
Time is what the code concludes from it: `fresh`, `touch`, `rotate`, `over`; which session was used
last, by which `createSession` picks its victims, is the order `newer`.
Clients send any token they were ever given, and lose responses (`Lose`).

**`LocalAuth`** is the password of one account. A request reads, checks and hashes
in one step (`SignUp`, `Verify`, `CheckReset`) and writes in later ones
(`CreateSession`, `Answer`), and may fail between any two. The transaction of a reset is
two of them: up to its `deleteMany` (`DeleteSessions`), which finds the sessions that are there by then,
and its commit (`CommitReset`), or its rollback (`Fail`); logins create sessions in between. Roles,
deactivation, the end of sessions and the retention of tokens are steps of others.
Four pieces of history say what a session is worth after a reset: `basis` is the number of resets when its
request was let in, `after` that it was created after the delete of a reset under way, `overlap` how many logins
the last reset met between their check and the creation of their session, and `rivals` the requests that had
read a token as unused when it was first used.

**`Idempotency`** is the interceptor and its service for one key: `Begin` (the
insert), `Find` (the read after the unique violation), `Effect`, `Log` and `Throw`
(the protected handler, external: an effect, then an audit entry or session),
`Complete`, `CompleteFails` (an error, or a commit whose answer is lost), `Abandon`,
`Crash`. Other keys matter as the backlog `ahead` of a cleanup batch
(`SweepFind`, `SweepDelete`).

**`AuditChain`** is `AuditService.log` and the retention of entries. A transaction
reads the head by `createdAt` and id, and inserts an entry that follows it.
`createdAt` is a clock reading between the start of the transaction and the
insert, minus at most `Skew`; ids are arbitrary. The time is that of **`Clock`**, which `ProjectExport` shares. `Excluded` is the database's
guarantee for two transactions that would change each other's head.

**`EnterpriseIdentity`** is the accounts as OIDC and SAML logins, SCIM users,
deactivations and the synchronization of role mappings change them: `Read` and
`Commit` are the serializable transaction of `upsertEnterpriseUser`, `AuditMapping`
and `AuditConflict` the audit entry that follows it inside the same `try`, `FindDisable`
and `Disable` the two statements of `disableScimUser`, `Sync` a start of a process with other
mappings. Beside them `ChangeRole` and `Signup` write the same rows. It composes with the
role administration through `OwnerRegistry`: `ChangeRole` is the step of the registry
that `RoleAdmin` implements, and `OwnersOnlyByOwners` says that the ownership of
the accounts (`Ownership`) still follows `OwnerRegistry` with provisioning beside it.
Of the database this uses that a transaction cannot commit once a row it
writes was changed after its snapshot (`Excluded`), and unique e-mails.

**`SignIn`** is what leads to that provisioning: `Start` makes the encrypted state of a
flow, `Answer` is the identity provider (external), `OidcCallback` and `SamlCallback` present any
state with any grant, `Exchange` redeems a code (external, atomic at the provider) and checks the
nonce, `SignIn` makes the session. Nobody forges a state or a signature: a
state is the flow it was made for and the key it was encrypted with, a grant is a
code or an assertion. Browsers repeat and mix
callbacks; instances restart with another key (`Restart`) and rewrite the type of a
provider (`Sync`). Whether a provider checks PKCE is left open, so that the
nonce has to do alone.

**`ScimDirectory`** is the memberships of one provider. A user request (or a login)
replaces the groups of its user in a serializable transaction (`ReadGroups`, `Write`, `AbortWrite`);
a group request upserts the group, finds the users, deletes and creates memberships in
four statements that are committed one by one. `Values` are what a payload may name
a member by: the external subject or the e-mail address. `held` is history: what each membership was
set to at some moment of the request.

**`WebClient`** is one browser and the API in front of it: the jar, per tab the
cached token and the promise of `client-api.ts`, `executeMutation` with its one
retry, pages of `server-api.ts`, and, at the API, the lookup and rotation of the middleware, the
CSRF check, and handlers. A token's value is the session that holds its hash
now; replaced ones are `Old`. Requests are served, answered and lost in any order.

**`Deployment`** is instances that start with any environment `validateEnvironment`
accepts (`Accepted`), write the provider rows one after the other (`SyncOidc`,
`SyncSaml`), serve and stop. A setting is a slug with or without blanks around it, blanks alone, or not
there (`NamesAssumption`). Validation and policy compare it as it is (`Configured`), the rows and the default provider take
what `trim()` leaves of it (`Trim`), so that a setting can be configured and have no row, and two settings can
have one. `Enforced`, `DefaultSlug` and `ScimProviders` are the decisions
of `IdentityService`, `RoutesEnforced` the one of `AuthService`. `overridden` is history: instances one of whose rows
another environment has written.

**`Bootstrap`** is the seed job: the owner in a serializable transaction that is repeated
(`Begin`, `ReadOwner`, `CommitOwner`, `Abort`), then the default accounts in statements of their
own (`SeedUser`), beside signups, role changes (as `OwnerRegistry` promises them) and
changes of e-mail addresses. Each instance is deployed after a seed, and they write no
row in common: `MCDeployment` explores both modules, each beside the other's
initial state.

**`ProjectExport`** is `ProjectsService` for one filter and one reader: the CSV export, which fetches
batch after batch, or a client that lists page after page, while projects
are created, updated and deleted. `Fetch` is a query and what is done with
its rows, `Beyond` the cursor clause of its `where`. A writer's clock may lag.

Each module has an `MC` module with the symmetry sets. Operators named `...Slip`,
`...Uncapped`, `...Pending`, `...Unchecked`, `Unchecked...` are plausible bugs next to the code they
would replace; none is part of a specification. They show that each property
notices something.

## The runs

| Run | Question | Bounds |
|---|---|---|
| `role_admin` | do concurrent role updates keep an owner, refine `OwnerRegistry`, confirm owner-sensitive changes, leave a true trail, and get an answer? | 2 accounts, 2 roles, 2 requests, 2 attempts |
| `session_cap` | how far can overlapping logins exceed the cap, and does the next lone login restore it? | 4 sessions, cap 1, 2 logins, 1 request |
| `session_rotation` | does concurrent rotation give one new token, which reaches the client? when does a logout miss? | 2 sessions, 2 requests, 1 login, 2 rotations |
| `local_auth` | what does a reset end, how often does a token serve, who is handed a break-glass session? | 2 passwords, sessions and requests, 1 token, 2 resets |
| `idempotency` | one run at a time, one result per key, answers for the right payload, no key blocked for ever | 2 callers, 2 payloads, 3 runs, batch 1, backlog 1 |
| `audit_chain` | does the chain fork other than by the clock? | 2 writers, 3 entries, 2 attempts, clock 0..2, skew 1 |
| `identity` | do ownership, links and deactivations survive provisioning? | 3 accounts, 2 e-mails, 1 subject, 1 group, 2 calls, 2 attempts |
| `sign_in` | what has a session been created on? | 2 slugs, keys, flows, grants and requests, clock 0..2; lifetimes and skew 1 |
| `scim_directory` | has each request its way, and does only what is asked for change? | 2 users, 2 groups, 2 requests, 2 attempts |
| `web_client` | does a mutation run once, when is it refused twice, how is a cookie lost, does anybody wait for nobody? | 2 tabs, 2 sessions, 2 calls |
| `deployment` | is there a way in, and is it the one that is configured; who owns the system after seeds? | 2 slugs, one of them with or without blanks, blank or absent; production; 2 instances; 2 accounts, 3 addresses, 2 jobs, 2 attempts |
| `project_export` | is an untouched project read once, what is read twice, how many, does it end? | 3 projects, batches of 2, limit 2, clock 0..1, skew 1 |

Why these bounds. A lost owner needs two owners and two requests. Exceeding the
cap takes two overlapping creations; with cap 1 and four ids both can be open over
two live sessions. A double rotation takes two requests, a usable but superseded
token a second rotation. A reset race takes two requests that hold one token, or
one that holds a password and one a token; two resets make a later use of a used
token possible, and of a second session that outlives a reset; one token is enough, because it can be
issued again once its row is removed. In `Idempotency` a caller is used again after its answer, so two callers give any
number of retries; three runs are one that was cleaned up, one that is running and one that
starts too early. A fork takes three entries. In `identity` the two calls name one
subject with either e-mail, so that they race for the link and for a fresh account
that a signup may take as well; the group has both mappings over time. All e-mails are in
verified domains there: the guard that refuses others is not exercised. Crossing two
sign-ins takes two flows, grants and slugs, and an expired state two ticks. Two requests
on two users and two groups are a group request crossing a user request, or two
group requests, in every order of their statements; one user has its e-mail address for a subject.
In `WebClient` two calls are two in one tab, which
share a fetch, or one in each of two tabs, which disturb each other; each call can be
started again and again, and an old cookie of a session can be answered late while a
second session is created. Two
instances are what overwrites each other's rows; two slugs, and blanks around one, give distinct settings for
one row and for two. In production all checks of the validation apply; the proofs have the
other values of `APP_ENV` too. Three
projects are two batches, the second of them not full; the limit of 2 is the first one that can be exceeded,
and with two moments an update can move a project either way. The safety properties of all
runs are proved without these sizes, for any parameters that satisfy the modules'
assumptions. `Idempotency` is run without deadlock
checking, because it stops at `MaxRuns`; the others can always go on.

**Fairness.** `RoleAdmin!FairSpec` assumes weak fairness of the steps the server
takes for an accepted request: a continuation of a settled promise runs, and every
database call settles. `Idempotency!FairSpec` assumes it of time and of the
scheduled cleanup (`setInterval`, and once at startup), and nothing of clients or
handlers. `ProjectExport!FairListSpec` assumes it of the export's loop, and not of a client
that lists. The other specifications have safety properties only; that nobody waits for a
fetch that is over (`WaitsForFetch`) is stated as an invariant for that reason.

## Disagreements with the documents

Found while modelling. Where a property says what holds instead, it is named.

- Role changes: the audit write is inside the `try` whose `catch` repeats on P2034. If
  `AuditService.log` gives up with P2034 after the role change is committed, the request is
  repeated and can be refused and recorded as `authz.denied`, with the change in
  force (`docs/architecture.md` lets each denial be distinguished from a role change). `TrailMatchesAnswer`
  says what trail there is.
- A logout whose session is rotated between its lookup and its delete answers as if it
  had succeeded and leaves the session (`LogoutMissesOnlyRotated`: this is the only way).
- The audit chain forks when two entries have one millisecond or a clock lags;
  `docs/governance-and-compliance.md` speaks of a chain (`ForksComeFromClock`: nothing else forks it).
- A project updated between two batches of an export moves in front of the cursor and is missing,
  and the export ends as if complete; `docs/architecture.md` rules truncation out
  (`UntouchedOnce`, `TwiceOnlyByClock`).
- `AuthService` takes enterprise identity as enforced by `ENTERPRISE_IDENTITY_ENABLED` alone,
  `IdentityService` also by a configured slug. With a slug and no flag a production sign-in page offers
  SSO only, while signup, login and reset by password stay open, against `docs/environment.md`; break-glass
  is then offered and refused. `OffersAWayIn` holds for either of the two decisions.
- The rows of two instances with different environments are the same: the default provider of one becomes a SAML
  provider when the other has its slug for SAML, where `docs/environment.md` has it remain the OIDC one
  (`ServedAsConfigured`: nothing else changes it).
- A slug of blanks is configured for the validation and the policy and absent for the rows: enterprise identity
  is enforced with no provider, where the validation means to refuse an environment without one
  (`OffersAWayIn`: this is the only way). Two slugs that differ in blanks, or
  one slug for both, are accepted and become a SAML provider (`ServedAsConfigured`). Providers that are no
  longer configured stay active.
- The origin guard refuses requests other than GET, HEAD and OPTIONS that have neither an `Origin` nor a
  `Referer`, outside test and a local exception, before the SCIM bearer token is looked at: the SCIM
  writes that `docs/enterprise-identity.md` lists as supported reach the API only from clients that
  send an allowed one. A SAML response posted by the browser carries the origin of the identity
  provider, which has to be in `ALLOWED_ORIGINS`.
- `listScimGroups` answers with the e-mail addresses of members, group requests look them up by
  external subject: a client that writes back what it has read removes everyone else
  (`Values`, `Found`).
- Two overlapping resets can both use a token (`UsedTwiceOnlyByRivals`); a disabled
  account can complete a reset, though its session is refused later; a login that had verified the old password when a reset
  committed may have a session after it, if it creates that after the delete of the reset
  (`ResetEndsSessions`: no more than one for each such login).
- `breakGlassLogin` looks at the role after `createSession`, so a refused caller leaves a session,
  whose token nobody has, and may evict others (`BreakGlassByOwners`: no cookie is sent).
- The seed overwrites the role of whoever holds its default address: with
  `SEED_OWNER_EMAIL=admin@example.com` a deployment ends without an owner (`OwnersLostBySeedOnly`).
  Overlapping seeds create the demo projects twice.
- An error after a handler's effect (audit entry, session) abandons the idempotency record, and a retry
  repeats the effect (`ResultsAgree` says what does hold); `beginRequest` replays expired
  records until a cleanup removes them; a replayed signup or reset sets no cookie.
- With no mapped group an admin stays admin, where `docs/enterprise-identity.md` lets everyone else
  default to member; a SCIM call does not check the verified domains; a mapping taken out of the
  configuration stays in the table; a login that the provider accepted before a deactivation enables
  the account again if its transaction starts after it; owners are counted without `disabledAt`.
- A page rendered with a cookie that is due for rotation rotates it and drops the answer, so that the
  browser is signed out (`CookieKept` lists this with the other reasons).

## The proofs

Eight modules of proofs hold for all values of the constants that satisfy the named assumptions of the
modules. Every invariant and every action property that a run checks is the subject of a
theorem; so are both refinements of `OwnerRegistry`. For each component there is an inductive
invariant, a lemma that `Init` implies it, one lemma or step per action that it
is preserved, and the theorems that follow from it.

| Module | About | Theorems beside the type invariant | What the invariant adds |
|---|---|---|---|
| `RoleAdminProofs` | `RoleAdmin` | `FloorHolds`, `Implements` (refinement), `OwnerChangesConfirmed`, `TrailTold` | `Accepted`, `Checked`, `Current`; `Trail` |
| `SessionLifecycleProofs` | `SessionLifecycle` | `OneRotation`, `TokenReaches`, `LogoutMisses`, `CapHolds`, `LoneRestores` | `Rows`, `Asked`; `Creations`, `Capped`, `Lone` |
| `LocalAuthProofs` | `LocalAuth` | `ResetEnds`, `TokenUses`, `BreakGlass` | `Bounded`, `Asked`, `Known`, `Locked`, `Counted` |
| | `AuditChain` | `NoOtherForks` (of `ChainSpec`) | `FollowsAnother`, `HeadRead` |
| | `ProjectExport` | `ReadOnce`, `ReadTwice`, `ExportLimited` (of `ListSpec`) | `Past`, `Untouched`, `Behind`, `Limited` |
| `SignInProofs` | `SignIn` | `CodeUsedOnce`, `CodesMatch`, `InTime` | `InFlight` (`Started`, `Vouched`), `Made`, `Lone`, `Counted` |
| `EnterpriseIdentityProofs` | `EnterpriseIdentity` | `SubjectKept`, `DeactivationKept`, `OwnershipKept` (refinement) | `Asked`, `Current` |
| | `ScimDirectory` | `RequestsTakeEffect`, `WantedChanges` (of `DirectorySpec`) | `Names`, `Due` |
| `IdempotencyProofs` | `Idempotency` | `OneRun`, `Agree`, `Matches` | `Room`, `Latest`, `Held`, `Apart`, `Answered`, `Kept` |
| `WebClientProofs` | `WebClient` | `RunsOnce`, `RefusedIfTroubled`, `CookieStays`, `JoinsAreWoken` | `Shapes`, `Tokens`, `Unique`, `Promises`, `Calms` |
| `DeploymentProofs` | `Deployment` | `WayIn`, `ServedSo` | `Validated`, `There`, `Own` |
| | `Bootstrap` | `OneSeeded`, `OwnersStay` (of `SeedSpec`) | `Unique`, `Unbound`, `Passed` |

A proof module may extend several components. `Bootstrap`, `ScimDirectory`, `AuditChain` and `ProjectExport`
name their specifications and types after themselves for that reason (`SeedSpec`, `DirectorySpec`, `ChainSpec`, `ListSpec`).

**RoleAdmin.** `OwnerFloor` is not inductive: a commit could remove the last owner if the snapshot it was
checked against is old. `Accepted` says that the target of an open transaction exists,
`Checked` that its snapshot passed the checks: the actor is an owner
in it, and a demotion leaves another owner; `Current` that for an open transaction
that is not doomed and is about to write, the owners it has read are still owners
and its target still has the role it saw. `Current` is preserved by
`Commit` because a commit that changes what another transaction has read,
while that one writes something this one has read, dooms it; that is where the
assumption on serializable isolation enters. The trail needs none of this: `Trail` says which
entries and which answer one request can have at each of its points, in particular
that a request whose change is committed but not yet audited can be refused only after a
conflict of the audit entry, hence not at its first attempt.

**SessionLifecycle.** A client holds no token that its session has not had (`Rows`); a request carries one that its
client was given, and one that has rotated it knows that the row has moved on
since (`Asked`). With that, the where clause of the rotation lets one request through per token, and
what a response carries is the row's token until the next rotation. `CapUpToConcurrency` is not inductive,
because a login that is about to commit adds a session. `Capped` says it of every set of logins that have selected their
victims: of what would be left if all of them committed. A login that selects sees the others'
committed sessions and its own, so it leaves `Cap` of these; each further login of the set adds one. `Lone` is the same
for a login that nothing has overlapped, whose bound is `Cap` itself.

**LocalAuth.** Once a token is used no request reads it as unused any more, and each
further use takes one of the requests away that had; uses and remaining
readers together are bounded by the rivals (`Bounded`). A cookie is sent by a request that knows what
its session was created from (`Known`). For what a reset ends, the requests that are still to create a session on
what was replaced (`Late`) are counted together with the sessions that have: creating one turns the first into the
second, and the sum stays below `overlap` (`Counted`). At the commit it does because one reset at a time is in its
transaction, and what its delete has not found was created after it (`Locked`).

**SignIn.** What a callback has checked of a flow and a grant (`Started`, `Vouched`) stays true through restarts, keys
and synchronisations, because neither changes in what it says; a request past the
exchange is the only one of its code (`Lone`), which is used and has no session by then (`Counted`).

**EnterpriseIdentity.** `Commit` writes a role, a link and `disabledAt = null` that `Read` decided on. `Current` says
that what a transaction that can still commit has read (`Knows`: the link, the role it
derived the new one from, whether the account was disabled) is still so; every action that
changes a row dooms the open transactions that write this row.

**ScimDirectory.** `Due` is what a request has had its way with at each point. After the deletion of a group request these are the pairs
that are to have no row, although others may have created some again since; in a user transaction, the pairs that its
snapshot shows as they are to be; at the end, all. No step takes a pair away, since `held` is history; each step that moves a
request on finds or writes the pairs that become due as they are to be.

**Idempotency.** The record is the newest one there was, or none (`Latest`). A call at work has
that record unless a cleanup removed its own (`Held`): each record has one call
(`Apart`), and only this one abandons it. So has a result that was given, whose record is
completed, and no call abandons that (`Kept`). `Room` bounds the runs by the
calls that may still insert, which needs the calls to be finitely many.

**AuditChain.** The head that a writer has read sorts before no entry but those committed since its snapshot
(`HeadRead`), and these the database excludes if both would follow one head without a clock going back. That the head query has a result to begin
with, a last entry, is a fact about finite orders (`FirstExists`); its proof descends through strict subsets,
since induction is not at hand.

**ProjectExport.** `BatchFacts` is what the query promises: a batch skips nothing, and is all that is left when the reader takes it for the last one.
Then what nobody touched has been read if and only if the cursor is past it (`Untouched`). A project that has been read stays
behind the cursor when it is updated, because the clock that writes it has passed the cursor's moment, or stands at it (`Behind`). What an export
reads matched at its start and ever since, or was changed (`Limited`).

**WebClient.** The token of a live session that an answer carries is in that answer only, neither in the jar nor in a
request (`Unique`), since a rotation makes the tokens of all others old: so a late answer cannot overwrite a
newer cookie of that session unseen. A second run that no other call has troubled keeps the jar at the session
of its requests from its fetch to its answer (`Calms`, one line per stage), and a handler runs last in a call
(`Shapes`). A tab's promise is a fetch under way (`Promises`).

**Deployment and Bootstrap.** Rows are never removed, so that what is left of an instance's settings has its rows
(`There`), and hold the values of an instance as long as no
other environment has written these (`Own`). A seed job that can still commit has
read that there is no bootstrap owner, and that is still so (`Unbound`); after it, who gets past the check has named
the address of that owner (`Passed`).

Every inductive invariant was checked by TLC on the bounds of its run before it was proved; `RoleAdmin` and `EnterpriseIdentity` keep their
type invariants in a run as well. What remains model-checked only is liveness (`EveryRequestAnswered`, `KeyIsFreed`,
`ExportEnds`): fairness is stated with `ENABLED`, which is beyond the prover. `Idempotency` and `ProjectExport`
are proved about `Spec` and `ListSpec`, which their fair specifications imply.

## Plan

Each module is written to be proved about (no `RECURSIVE`). Done: the modules above, and the safety of all of them.
What is left, in this order:

1. Abstract specifications of further components, with refinement: the effects of a key of `Idempotency` as one
   result at a time, the sessions of an account as a set that rotation leaves alone.
2. The cookies of replayed responses: `Idempotency` composed with the sessions.
3. The default projects of the seed.

## Not modelled

Pages and components of the web application and the UI
package (rendering); shared types and contracts (declarations); health, metrics and
tracing (nothing reads them back); profile updates (one statement); the origin guard (a decision without
state); who may change a project (the policy reads only the immutable creator and the session's role);
the validation of keys, URLs and numbers one by one; signatures, XML and the endpoints of identity
providers (external); the provisioning cursor (nothing reads it back); the default projects of the seed; test
failpoints; infrastructure files.
