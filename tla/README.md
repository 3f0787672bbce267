# A verification of Simpero AI Gov (Alpha)

This directory holds TLA+ models of the Simpero backend, the TLC instances that
check them, and TLAPS proofs of what matters most. The program is a FastAPI
service over PostgreSQL (row-level security, reached through PgBouncer), with
Clerk as its identity provider, a SAQ worker over Valkey, and a Spaces object
store. Paths below are relative to the repository root.

## The system's parts

| Part | State | Operations | Talks to |
|---|---|---|---|
| Upload API (`app/api/uploads.py`) | none of its own; `data_source` rows | presigned URL (dedupe, size guard), `/complete` (head_object, row, audit, enqueue) | object store, queue, database |
| Object store (`services/uploads/spaces.py`) | objects by key, URLs with a lifetime | presign PUT, head, stream and hash | the client writes to it directly |
| Ingest job (`jobs/tasks/ingest_data_source.py`) | one transaction | look up, hash, verdict, update, audit | object store, database |
| SAQ queue and worker (`jobs/queue.py`, `worker.py`) | jobs, attempts | start, retry, requeue on shutdown, sweep | Valkey |
| `data_source` table (migration `d6d2fe8f27ae`, `models/data_source.py`) | status, declared hash, fingerprint | insert, one-way update by trigger | |
| Product provisioning (`core/dependencies.py`) | `organisation`, `users` | create or reactivate the caller's rows in each request's transaction | Clerk |
| Admin provisioning and guards (`core/admin_dependencies.py`, `repo/AdminUserRepo.py`) | `clerk_admin_users` | grant, downgrade with a grace window, guard | Clerk |
| Member endpoints (`api/admin/members.py`, `platform_members.py`) | none of their own | remove, change role; own organisation and across organisations | Clerk, then the database |
| Organisations, invitations (`api/admin/organizations.py`, `invitations.py`, `platform_*`, `services/admin/clerk_admin.py`) | none of their own | create, invite, revoke, delete: sequences of Clerk calls, then one audit row | Clerk |
| Tenant isolation (`core/database.py`, RLS migrations, `services/memory_scope.py`) | a transaction's `app.org_id` | set, re-scope, flush | PgBouncer |
| Token verification (`core/security.py`) | JWKS cache | decode, refresh on an unknown key | Clerk |
| Retrieval (`services/retrieval.py`, `embedding.py`, `sandbox/retrieve.py`) | chunks | two searches and a hydration, rank fusion, batched embedding, replacing an upload | embedding service, parse service |
| Claims spine (`models/claim.py`, `contracts/claims.schema.json`, `scripts/ingest_*.py`) | claims, chunks, corroboration events | validation by the contract, then one transaction under the table's constraints, persisted or rolled back | embedding service |
| Deals, dashboard, memo (`api/deals.py`, `services/*`) | deals, sessions | reads and derivations | |
| History, logs, profile, health | sessions, audit logs | list, delete, clear all | |

How they interact, and what is hard about it:

- **Work leaves a transaction before it commits.** `/complete` enqueues a job
  about a row that is committed after the handler has returned.
- **State is read, something slow is awaited, and the answer is used.** The job
  reads `pending` and then downloads; the member endpoints count admins and then
  call Clerk; provisioning reads a row and then fetches an email.
- **Three records of one role.** Clerk, `clerk_admin_users` and `users`, changed
  by different requests, with tokens that carry a fourth, older copy.
- **Failures between two systems.** Clerk is changed and the commit fails, or its
  answer is lost; an endpoint makes several changes in Clerk and undoes none; SAQ
  delivers again what was done; a worker dies between commit and report.
- **Two guards of one table.** A JSON contract and CHECK constraints, stated in two
  files, are to agree on what a claim is.
- **One search, three snapshots.** The legs and the hydration each see what others
  have committed by then.
- **One session, several scopes.** A transaction's `app.org_id` decides what it sees;
  it is set on a backend that the pool lends to another tenant next, moved to another
  organisation and back within a request, and read again when changes are flushed.
- **A clock decides.** URL lifetime, grace window, token lifetime.

What makes each part correct is listed with the hazards in `PROJECT.json`, each at
its line, with the properties that would catch it.

## Modules

| Module | Models | Role |
|---|---|---|
| `DataSourceLifecycle` | what the table and its trigger promise | abstract specification |
| `DocumentUpload` | upload API, object store, queue, worker, job | detailed specification, implements the former |
| `DocumentUploadProofs` | | its theorems |
| `AdminMembers` | admin provisioning, guards, member endpoints, users row, Clerk, tokens | specification |
| `AdminMembersProofs` | | its theorems |
| `JitProvisioning` | first logins: `get_db`, `get_admin_db`, the unique indexes and row-level security under them | specification |
| `JitProvisioningProofs` | | its theorems |
| `TenantIsolation` | what the platform promises about tenants | abstract specification |
| `TenantScope` | pooled backends, `app.org_id`, row-level security, re-scoping, the search guard | detailed specification, implements the former |
| `TenantScopeProofs` | | its theorems |
| `RecordedChange` | what the portal promises about a change and its audit row | abstract specification |
| `OrgLifecycle` | organisations, invitations, the Clerk adapter | detailed specification, implements the former |
| `OrgLifecycleProofs` | | its theorems |
| `ClaimsContract` | the JSON contract, the row of a claim, the CHECK constraints | operators |
| `EvidenceIngest` | the two ingest scripts, the sandbox's upload, the embedder | specification |
| `RankFusion` | reciprocal rank fusion, and what its docstring says | operators |
| `HybridSearch` | searches beside the ingest | composes the last three |
| `EvidenceProofs` | | the theorems of `ClaimsContract` and `EvidenceIngest` |
| `RankFusionProofs` | | the theorems of `RankFusion` |
| `HybridSearchProofs` | | the theorems of `HybridSearch` |
| `MCDocumentUpload`, `MCAdminMembers`, `MCJitProvisioning`, `MCTenantScope`, `MCOrgLifecycle`, `MCHybridSearch` | | instances for TLC |

Operators whose name starts with `Seeded` are faulty variants of the definition
that follows them. They document which bug a property is there to catch: with the
variant in place of the definition TLC finds the property violated.

### DocumentUpload

One action per step that another process can observe: `Presign`, `PutObject`,
`ExpireUrl` and `Complete` for a client and the handlers; `CommitCall` and
`RollbackCall` for `get_db`'s transaction, which ends after the handler;
`StartJob`, the three outcomes of the lookup, `HashObject`, `UpdateRow` or
`TriggerRejects`, `CommitIngest` and `ReportJob` for a worker; `IngestFails` and
`WorkerStops` for failures. `status`, `fingerprint` and `audit` are the committed
contents of the database. The row lock that an UPDATE holds until its transaction
ends is `RowLocked`. A file stands for its contents and its hash.

SAQ (0.26, `uv.lock`) is modelled from how the code uses it: a job's attempts are
counted at its start, a job that raises is queued again while `retries` exceeds
its attempts (`retries` is 1 by default, and the code never sets it), a graceful
shutdown queues it again, and the sweep treats a lost job as failed.

The client is well behaved in one point: `/complete` repeats what it sent to
`/presigned-url`, as `schemas/uploads.py` says. It may store other bytes, any
number of times, while its URL lives.

The implementation shows `DataSourceLifecycle` (a document is registered once and
settled once, each with one audit entry) with `state <- status, trail <- audit`.

### AdminMembers

One client organisation. Per person: Clerk's role, the role in the session token
they hold, the status and age of the admin row, status and role of the users row.
A request is a process: `ProvisionRead` and `ProvisionWrite` (get_admin_db's first
transaction), `Guard`, `Check` (the endpoint's reads), `ClerkAccepts`,
`ClerkRefuses` or `ClerkFails`, and `CommitChange` or `RollbackChange`. Clerk is
changed out of band by `ClerkChange`, for the members of `OutOfBand`; `RefreshToken`
and `GraceElapses` are time.
Reads that follow one another without a call to Clerk between them are one step.
A platform admin is a caller from outside whose own rows are in order. Clerk is
taken to allow an organisation without admins: `create_org` relies on removing the
only one.

`hadRole` (who was an admin in Clerk at some time) and `promoted` (whose row was
reactivated by an endpoint less than a grace window ago) are history variables that
no action's effect on the other variables depends on.

`GraceCoversReactivation` is about the write: no `Deactivate` of the downgrade sync
meets a row in `promoted`. It rests on what each write does to `updated_at`, and it has
two limits. The sync decides in `ProvisionRead` and writes in `ProvisionWrite`; a
promotion that commits between the two is undone, since the UPDATE does not look at
`updated_at` again. So the property is checked for one request at a time, and proved for
requests that do not overlap where it matters (`NoOverlap`, below). And a first
promotion is no reactivation: its INSERT leaves `updated_at` NULL (see "What disagrees").

### JitProvisioning

Here the unit of interleaving is the SQL statement, since the races are between
statements: `ReadIdentity`, `ReadOrganisation`, `FetchOrganisation` (from Clerk),
`InsertOrganisation`, `RereadOrganisation`, then `InsertUser` or `Reactivate` for
`get_db` and `GrantAdmin` for `get_admin_db`. `get_db`'s transaction stays open
through the handler (`HandlerReturns`, `HandlerRaises`); `get_admin_db` commits
first (`CommitProvisioning`) and opens a second one for `Guard` and the handler.
`wrote` is what an open transaction has written; `organisation`, `home` and `active`
are committed. Three facts of PostgreSQL are modelled: a statement sees committed
rows and its own transaction's, as far as `org_isolation` shows them (`SeesOrg`,
`SeesIdentity`); a unique index knows the hidden rows too (`HiddenRow`); an INSERT or
UPDATE waits for an open transaction that wrote the same key (`OrgLocked`,
`RowLocked`). The role in the token and the downgrade are in `AdminMembers`.

The lookups of a handler that asks who is calling (`_actor`) are the assert in
`HandlerRaises`; whether a handler asks is left open.

### TenantScope

Here the state is the setting: `session[b]` and `local[b]` are `app.org_id` of a
pooled backend outside and inside its open transaction, `on[r]` the backend that
PgBouncer has lent to request `r`, and `Setting`, `SetConfig`, `EndTransaction` what
PostgreSQL does with them. A row is its table and its organisation; `unflushed` is
what the ORM session holds (autoflush is off), `written` what was sent in the open
transaction, `stored` what is committed. `Admitted` is the row-level policy, `Send` a
flush: a row out of scope makes it raise. `Begin` is each `session.begin()` with its
first statement; `Provision`, `CommitProvisioning` and `Guard` are the dependencies;
`Statement`, `HandlerReturns` and `HandlerRaises` stand for every handler that keeps
the scope it was given; from `ScopeForList` to `Audit` there is one action per step of
the cross-organisation endpoints; `AssertScoped` and `HybridSearch` are
`org_scoped_search`, on a session that anybody may have scoped; `Fails`, `NoBackend`
and `AnswerLost` are failures of Clerk, the database or the process. Removal and
role change are one kind of call, `change`: the two have the same steps, of which a
removal never takes `NothingToDo`. The handlers of a search are not in the
repository yet; its guard is modelled with a caller that is served by one tenant.

A request acts for its token's organisation and, if a platform admin makes it on
another organisation, for that one too (`ActsFor`); `TenantIsolation` allows it to
be shown and to commit rows of those organisations only, and `TenantScope` is shown
to implement it with `may <- May`.

### OrgLifecycle

`CreateOrg`, `CreateInvitation`, `RevokeInvitation`, `InviteIntoOrg` and `DeleteOrg`
are the arrivals of the five mutating endpoints past their guards; then one action per
call to Clerk, in the order of the handler: `CreateOrganization`, `Invite`, `Revoke`,
`FetchOrganization`, `DeleteOrganization`, `RemoveCreator`. A call may be refused for
what Clerk knows (`ClerkRefuses`), may not be carried out (`ClerkUnavailable`), or may
be carried out and its answer lost to the adapter's timeout (`Answered`): to the code
the last two look alike. Only the removal of the creator swallows an error. `Commit`
writes the audit row from what the handler holds by then. Clerk may refuse what it knows
to be wrong (an organisation that is gone, an inviter who is no member any more) and may
always refuse a creation or an invitation for reasons of its own: the address is a
member already, or has an invitation waiting (`Refuses`).

`Accept`, `MembershipBegins` and `MembershipEnds` are what people, other routers and
Clerk's dashboard do meanwhile. Anybody may accept an invitation, a platform admin
included, since the routers take any address; the members of `OutOfBand` may be added to
client organisations and removed in the dashboard as well. A platform admin can therefore
be a member of a client organisation in other ways than by creating it. What the code
promises is about the membership that the creation gives: `founder[o]` is a history
variable that says who is a member of `o` since they created it, and forgets them when
that membership ends, whether or not they come back. `CreatorsSitOnlyUnremoved`,
`CreatorsLeave` and the flag `creator_membership_removed` in `AuditTellsTheTruth` speak of
it. A local admin row may outlive the role in Clerk (`AdminMembers`), so a caller of the
organisation's own invitation router is anybody who was an admin of it at some time; of a
person removed since, Clerk itself refuses the invitation.

`RecordedChange` says that a change comes first and its one record second, and that
nothing is recorded that was not done; `OrgLifecycle` implements it with
`effected <- changed` and `recorded` the requests that have an audit row. It does not
promise that each change gets a record: a lost answer or a failed commit leaves a
change without one.

### ClaimsContract, EvidenceIngest, RankFusion, HybridSearch

`ClaimsContract` has the two guards of the claims table side by side: `ContractAdmits`
(the schema that `_validate` applies) and `ChecksHold` (the constraints of
`models/claim.py`), with `RowFromClaim` between them. A claim has the fields that
either guard looks at. Their lists of statuses, methods and classes are stated twice,
as in the code, because their agreement is in question.

In `EvidenceIngest` a run is one invocation of a script, or one `POST /ingest`:
`Validate` for claims; `Post` for chunks, one request of `_embed` per batch, whose
rows come back in any order (`Responses`) or spoilt (`Spoilt`); then the transaction,
one action per statement others can interfere with: `FindOrg`, `InsertOrg`,
`DeleteChunks`, `Flush`, and `Finish`, the commit or the dry run's rollback. The vector
of a text is the text, so that a vector with the wrong text shows. An INSERT of the
key of an open transaction, and a DELETE or UPDATE of rows that one deletes, wait.
`DocumentUuid` is the uuid5 the code derives from a sha256; as `data_source` rows get
ids by uuid4, it is none of theirs, and the foreign key refuses the row. No property
restates that; it is among the disagreements below. A document's
session_id is taken to be fresh. `WriteChunk` and `EmbedChunk` stand for the pipeline
that is to write chunks of registered documents, which is not in the repository.

`RankFusion` computes scores as the code's loop does (`AddShare`, `AddLeg`), and
`SortedBy` is Python's `sorted` for a key that orders the ids. The arithmetic is that of
doubles: `Double(n, d)` is the quotient rounded to `Precision` significant bits, to
nearest and ties to even, and every quotient (`Share`) and every addition (`Plus`) is
rounded. Numbers are whole multiples of the least positive double, so that rounding is
arithmetic on integers, gradual underflow included; weights are not negative, and overflow
is left out, as scores are between 0 and a few weights. That matters to the order: with `k
= 60`, ranks 6 and 39 and ranks 12 and 28 both make 5/198, but 1/66 + 1/99 as doubles is
one unit in the last place above 1/72 + 1/88, so that the id does not decide between them.
And a share that is small enough is absorbed: what the docstring says "outscores" another
chunk may tie with it. `Score` and `IsRanking` are the docstring's words in this
arithmetic, in which each id has one sum over the legs, and a tie is one of doubles;
`BetterRanksComeFirst` is what rounding leaves of the exact order: of two chunks of which
no leg ranks the first below the second, the second never comes first unless its id is the
smaller. Chunk ids are numbers that stand for the order of the uuids.

`HybridSearch` has one action per SELECT:
`DenseLeg`, `SparseLeg` with the fusion, `Hydrate`. Each has its own snapshot, as
under READ COMMITTED, so ingests, deletions and late embeddings fall between. Which
chunks match, and how near they are, is data: a leg returns any ranking of visible
chunks up to its limit.

## Runs

| Run | Question | Instance |
|---|---|---|
| `document_upload_pipeline` | Do trail, verdicts and the life cycle survive every interleaving, do jobs end, and does a row stay pending only if its jobs failed? | 1 upload, 2 files (one at the ceiling, one a byte over), 2 calls, 2 workers, 2 attempts, 2 failures |
| `document_upload_early` | Does SAQ's default absorb a job that runs too early? | 1 upload, call and worker, 1 attempt, no failure: no |
| `document_upload_duplicate` | Is a duplicate always caught? | 2 uploads and calls: no |
| `admin_serial` | Who becomes an admin, do the guards hold when requests do not overlap, is a reactivated row spared within the grace window, and does the admin row follow Clerk in the end? | 2 people, 1 request at a time through all endpoints, 3 changes by them or in Clerk, 1 failure |
| `admin_lastadmin` | Is there always an admin left? | 2 overlapping demotions, nothing changed out of band: no |
| `admin_regrant` | Does a demoted admin stay demoted? | 1 demotion, an old token, nothing changed out of band: no |
| `jit_logins` | Do racing first logins all find what they need, without errors or endless waits? | 3 requests, 2 people, 2 organisations with one person in both, 1 failure, 1 removal |
| `jit_stranger` | Does every valid token find its row? | a person in two organisations: no |
| `tenant_scopes` | Can a setting leak, or a change of scope lose or misplace a row? | 2 requests of any kind, 2 backends, the platform and 2 other organisations, any number of failures |
| `org_lifecycle` | Does the audit trail tell the truth about Clerk, does each record follow its change, and do creators leave? | the platform and 1 client organisation, 1 platform admin (added and removed in the dashboard too), 1 client, 3 requests of any kind, 1 failure |
| `org_unconditional` | Is the removal of the creator tried whatever becomes of the seed invitation? | 1 request, no failure: no |
| `hybrid_evidence` | Do the contract and the table agree, is anything stored by halves, and is the fused order the promised one while chunks come and go? | 2 runs, 11 candidate claims alone and beside a good one, inputs of up to 3 chunks over 2 texts and batches of 2, 1 search with 3 sets of parameters over 3 chunks, k = 5 and 3 bits, 1 failure |

Two of everything is the least at which the races exist: two workers for one row,
two calls for one upload, two admins and two requests. One upload is enough in
`document_upload_pipeline`: uploads meet only in the dedupe query, which
`DedupeIsByDeclaredHash` asks for every file and deal and `document_upload_duplicate`
for two uploads, and the theorems are about any number. Three requests in
`jit_logins` let one wait for another while a third ends. In `tenant_scopes` two
backends let a request's second transaction run on another backend than its first,
and another tenant's request take the first one over; three organisations are a
platform's, a target and a stranger. Three requests in `org_lifecycle` are a creation,
an invitation and a deletion or revocation that meet; a second
client organisation would multiply the space, and requests on different organisations
share nothing but the count of failures. In
`hybrid_evidence` three chunks in batches of two make two requests, of which one has
an order to lose; two rankings of up to three ids have all ways to overlap. With
the code's 53 bits and `k = 60` scores that differ by rounding alone need ranks of dozens;
with 3 bits and `k = 5` they occur among three ids: there are searches in which equal
exact scores are told apart, against the order of the ids, and others in which different
ones become equal.
`Settings` lists which kinds of work overlap in one behaviour, so that the product of
all with all is not explored. Faults are bounded by
`MaxFaults`, changes by `MaxChanges`; both are guards of the actions they bound.
One failure is enough for each kind of redelivery, two let one failure meet the recovery
from another, and two attempts give each outcome of the retry rule.
Deadlock is not checked, since a system whose documents are settled, or whose
people have all left, or whose requests are all served, stops rightly.

**Fairness.** Weak fairness on the end of an open transaction, on starting a queued
job and on each worker's next step: an event loop and a worker process that run.
Clients owe nothing. In `AdminMembers` requests go on, tokens are refreshed (the
client library does so on a timer) and time passes; that a person keeps coming back
is the hypothesis of `AdminRowsConverge`, stated as strong fairness of `Visit`. In
`JitProvisioning` each request that has arrived goes on; weak fairness suffices, as
no transaction that is waited for waits in its turn for the waiting one. In
`OrgLifecycle` a handler that runs goes on (its calls have a timeout), and nobody has
to make a request or to accept anything. In `HybridSearch` a run goes on unless it
waits for another; searches owe nothing.

## What disagrees with its documentation

Six statements of the repository's docs or comments are refuted, each by a run
with a short counterexample; `PROJECT.json` quotes them. In short: SAQ's default
does not retry the early job; a duplicate upload can slip through; two concurrent
demotions defeat the last-admin guard; a token from before a demotion undoes its
local part (a token from before a removal likewise reactivates the `users` row); a
person with a row in one organisation has no visible row in a second one; and the
creator's removal does not run "unconditionally" (`organizations.py:44-54`), since a seed
invitation that is refused ends `create_org` before it: the creator stays admin and no
audit row is written. `CreatorsSitOnlyUnremoved` and `CreatorsLeave` leave room for this
case.

Others came up in modelling. They have no run of their own; the models do what the
code does:

- `core/config.py:26-30` says that the grace window exempts a row "this app just
  promoted/reactivated". A first promotion INSERTs the row, which leaves `updated_at`
  NULL, and the window then does not apply: the promoted member's next request with the
  token they hold downgrades them (`models/clerk_admin_user.py:48-50` knows of the NULL).
  `GraceCoversReactivation` is about reactivations only for this reason.
- `repo/AdminUserRepo.py:43-46` says that the column's `onupdate` "only fires on ORM
  unit-of-work flushes, not this Core-style bulk update()";
  `models/clerk_admin_user.py:50-51` says that it is "applied for free on plain Core
  update() statements". SQLAlchemy applies a column's `onupdate` to every UPDATE that does
  not set the column, so the model is right: `deactivate` would be stamped without its
  explicit value, and `reactivate_if_exists`, which sets none, is stamped
  (`ReactivateIfExists`).
- `organizations.py:44` says that "platform admins must not accumulate client-org
  memberships" and `organizations.py:48-50` that they see an organisation "never from
  being a member themselves". No router looks at whom an invitation is sent to
  (`organizations.py:61-68`, `invitations.py:44-46`, `platform_invitations.py:49-51`): a
  platform admin who accepts one is a member like anybody else (`Accept`).
- `scripts/ingest_chunks.py:64-71` says that the document filter of retrieval "works today"
  with the derived document id, and the docstrings of that script and of
  `sandbox/retrieve.py` describe an ingest that stores chunks. Since migration
  `77be2ddc60a0` the column references `data_source`, in which no row has that id: every
  ingest that brings a chunk is refused at the flush and rolled back. It takes one run
  and no interleaving.
- The docstring of `reciprocal_rank_fusion` (`retrieval.py:83-87`) says that a chunk of both
  legs outscores one of a single leg at the same rank and that ties are broken by id. Of
  doubles both are nearly so: a share may be absorbed in rounding, and scores that are
  equal as fractions may differ in their last bit, in which case that bit decides.
- `scripts/ingest_claims.py:83-87` counts on the contract to catch any shape the store
  cannot hold. The CHECKs are indeed implied (`ContractImpliesChecks`), but a value too
  wide for its column passes the contract and ends in the store's error (`dataError`).
- `models/claim.py:155` says of a qualitative claim that it has no magnitude, names its
  class, and that a CHECK makes "that" non-bypassable; the table checks the class
  and leaves the magnitude to the contract.
- `models/claim.py:94-99` says that `deal_id` has no foreign key; migration
  `77be2ddc60a0` adds `fk_claims_deal_id_deals`.
- `SessionRepo.delete_all` returns "the count deleted", which is counted by a
  statement before the deletion.

## What is proved

For every value of the constants that satisfies the modules' assumptions (sizes
and bounds are numbers, `None` is none of the values it stands beside; no bound on
uploads, calls, workers, people or requests):

- `DocumentUploadProofs`: type correctness, the four safety invariants of
  `document_upload_pipeline`, that a registered upload has an object, that settled rows
  are final, and the implementation of `DataSourceLifecycle`; of the jobs, that each
  active one has exactly one worker, that starts are bounded and that an ended job stays
  ended; and when a duplicate is caught.
- `AdminMembersProofs`: type correctness, and that nobody becomes an admin locally without
  Clerk, for overlapping requests; that the last-admin guard, the removal and the grace
  window do their work as long as requests do not overlap where it matters.
- `JitProvisioningProofs`: type correctness, the three safety invariants of `jit_logins`,
  that no row moves to another organisation, that waits do not close, and that requests
  only go forward.
- `TenantScopeProofs`: type correctness, the four safety invariants of `tenant_scopes`,
  and the implementation of `TenantIsolation`.
- `OrgLifecycleProofs`: type correctness, the two safety invariants of `org_lifecycle`,
  for any invitations accepted by anybody and any members added or removed in the
  dashboard; that the platform organisation is neither deleted nor gets an admin by
  invitation, and the implementation of `RecordedChange`.
- `EvidenceProofs`: that the contract implies the table's CHECKs for every claim; type
  correctness of the ingest and its four safety invariants; that searches change nothing
  of it, by which these hold of the composition `HybridSearch`; that waits of runs do not
  close, and that runs only go forward.
- `RankFusionProofs`: for every precision of the arithmetic, that the loop computes the
  docstring's scores as it rounds them, that the fused list is the order of those scores,
  that it is the only one, and that rounding inverts no ranks (`NoLowerScoresNoLess`).
- `HybridSearchProofs`: type correctness of the composition and the three invariants of a
  search.

So every invariant and every safety property that a passing run checks is a theorem too,
`EndpointsKeepAnAdmin`, `RemovalRevokesAdmin` and `GraceCoversReactivation` under the
condition stated below (which the run meets, with one request at a time). `IInv` stands
for the inductive invariant in each module; what is added to a property to make it
inductive was checked by TLC before it was proved.

**Uploads.** The properties speak of committed rows, so `IInv` adds what an open call
(its object is there: `CallInv`) and a running job (its row exists, its outcome is
justified by what was stored, its row is still pending while it holds the lock:
`WorkerInv`, `LockInv`) may rely on between looking and writing. At most one worker
holds a row's lock, and holding it with the row pending is what makes the commit final.
`JobInv` pairs the queue with the workers: each active job has one worker and each
worker an active job, and a job in the queue has been started less often than `Retries`
plus the failures so far allow. `EndedIsFinal` is an action property of the same
invariant. `DuplicatesCaughtInTurn` is what remains true of the comment that
`document_upload_duplicate` refutes: if an upload is issued only when the rows of earlier
ones of the same file are committed, one of two such rows is a mismatch when the second
upload is issued (`TwinsInv`), and stays one.

**Admins.** A role travels from Clerk to a token, to a request's claim, to a row;
`RequestOK` says at each step of a request where its role came from. The guard counts
admins, then Clerk is called, then the row is written, so `ChangeInv` says of a request
between its checks and its commit that what it counted still holds. It does if no other
request is about to write an admin row meanwhile (`NoOverlap`, a hypothesis about the
behaviour; people, Clerk and time are not restricted). The grace window needs it for the
downgrade: one that was decided is written while its row is still outside the window
(`DowngradeInv`), since a promotion in between would overlap. `GuardHoldsSerially` needs no
hypothesis but that requests come one at a time, which is the instance of `admin_serial`;
`admin_lastadmin` shows what two that overlap can do.

**First logins.** What a request has seen stays seen because rows are never taken away
and never move (`CommitRows`), and rows never move because at most one open transaction
writes a person's row (`OneWriter`) and it writes over nothing or its own organisation's
row (`RequestOK`); for a person in one organisation a row that exists is then a row that
is visible.

**Why requests and runs end.** That they do is liveness and stays with TLC, but two
parts of the argument are safety and are proved for any number of them. `WaitsFor` is the
condition that the guards of the waiting statements express (`GuardsWait`); whoever holds
a row waits for nothing more, and whoever holds an organisation at most for a row, so
that a chain of waits has two links at most (`WaitsAreShort`), in `JitProvisioning` and
in `EvidenceIngest`. And each step of a request or a run lowers a measure of the
steps it has left (`RequestsAreFinite`, at most ten statements; `RunsAreFinite`, bounded
by the number of texts). What is left to TLC is that whoever can move is scheduled.

**Tenants.** `BackendInv` says that a backend serves one open transaction and
has a setting only meanwhile; `RequestOK` says for each stage of a request which
organisation its backend is scoped to, that what waits for a flush is of that
organisation (`ScopeFits`), and how far a change and its audit row have come
(`ChangeFits`). Only between the count of admins and the next `_set_org_scope` is the
scope not determined, and there nothing is read or written.

**Organisations.** `RequestOK` says for each step of a request what it was asked and
whether Clerk has changed something for it, `Told` that what the audit row
says is so from the answer on, and `ClerkInv` that an organisation, once deleted, has
no members and no invitations waiting, which makes it stay so; `SeatInv` names the
creation behind every founder, and says that a founder is a member: whoever accepts an
invitation or is added in the dashboard was no member, so they are not one.

**Ingest.** `RunOK` says for each step of a run what its payload has passed (so that the
flush cannot fail a CHECK) and that the vectors so far are those of a prefix of its
texts, which lemmas about SubSeq and permutations carry over a batch; `KeyInv` says that
at most one open transaction has inserted the tenant's organisation, and only while none
is committed; `OrgInv`, `ClaimsInv` and `ChunksInv` speak of what is committed.

**Fusion and search.** The loops of the fusion are folds, and a fold is a function defined
by recursion. The library's induction theorems take an operator as a parameter, which the
provers cannot instantiate; `RankFusionProofs` proves forms that take a set instead
(`SetInduction`, `SubsetInduction`, from the well-foundedness of strict inclusion), and
from them that recursive functions exist, for a step that is itself a function. By
induction over a leg and then over the legs the dict has each ranked id with its sum so
far; at the end that is the docstring's sum, which adds in the order of the legs as well.
Rounding is monotone and leaves a double as it is (`DoubleMonotone`, `DoubleOfDouble`), so
a leg that ranks `a` no lower than `b` cannot put `b` ahead, and one that ranks only `a`
cannot take from it. Ids with distinct keys have one order, by induction over the set of
ids: `SortedBy` yields it, and at the first place where another order differed each of two
ids would come before the other. The search's invariant `SearchInv` then only says at each
step what the legs and the fusion have produced, and that an id that is missing from the
hits was deleted, which is final.

Only model-checked: the liveness properties `JobsEnd`, `PendingUnlessJobsFailed`,
`AdminRowsConverge`, `RequestsEnd`, `CreatorsLeave` and `RunsEnd`. They rest on fairness,
hence on ENABLED, of which the provers know nothing.

## What is not modelled

- **The JWKS cache and the signature check** (`core/security.py`). A cached key set
  and one forced refresh per unknown key; what is left after abstracting the
  cryptography is one test and one assignment. A token is the role of the moment at
  which it was issued.
- **History, logs, profile, health.** Each is a read, or one statement and one audit row
  in one transaction, which `TenantScope`'s `Statement` stands for. The clear-all counts
  before it deletes, in two statements; a second clear-all in between makes both report
  the same rows.
- **`users.email`**, unique over all tenants: `sync-profile` fails for a person whose
  address is in another tenant's row. It is one statement and follows from the schema.
- **Deals, dashboard, memo summary.** Reads, and arithmetic and lookups on one row.
- **`corroboration_event`.** A table that no code writes.
- **The pgvector codec, full-text ranking and the HNSW index.** What they return is any
  ranking.
- **The parser client**, which nothing in the repository calls, and deployment.
- **Reads of members, organisations and invitations**, type and name checks that only
  reject, wording and formatting of responses.
