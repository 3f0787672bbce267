---------------------------- MODULE TenantScope ----------------------------
(***************************************************************************)
(* How a request is kept to its tenant.  No query of the application names *)
(* an organisation: every table has a row-level security policy that       *)
(* compares a row's organisation with the setting app.org_id of the        *)
(* PostgreSQL backend that runs the statement, and each transaction sets   *)
(* app.org_id first, for its own duration (set_config(..., true), that is  *)
(* SET LOCAL).  PgBouncer lends a backend to one transaction at a time, to *)
(* another tenant's next.                                                  *)
(*                                                                         *)
(* Three things make this less simple than one setting per request:        *)
(*  - get_admin_db opens two transactions, possibly on two backends;       *)
(*  - the cross-organisation endpoints of a platform admin point the open  *)
(*    transaction at another tenant and back, while the ORM session holds  *)
(*    changes that are sent at a flush only (autoflush is off);            *)
(*  - retrieval is handed a session that somebody else has scoped.         *)
(*                                                                         *)
(* What a request writes is abstracted to the table and the organisation   *)
(* of the rows.  Roles, races for the last admin and first logins are the  *)
(* business of AdminMembers and JitProvisioning.                           *)
(***************************************************************************)
EXTENDS Naturals

CONSTANTS
    Requests,      \* requests that arrive, and the ingest job's runs
    Backends,      \* PgBouncer's PostgreSQL connections
    Orgs,          \* organisations, by Clerk id
    PlatformOrg,   \* settings.simpero_platform_org_id
    Unset,         \* the value of an app.org_id nobody has set
    None           \* no backend

ASSUME TenantScopeAssumption ==
    /\ PlatformOrg \in Orgs
    /\ Unset \notin Orgs
    /\ None \notin Backends

Tables == {"users", "clerk_admin_users", "human_audit_log", "other"}
Rows   == [table : Tables, org : Orgs]

Row(t, o) == [table |-> t, org |-> o]

\* A request acts for `tenant`, its token's organisation or its job's
\* clerk_org_id.  `target` is the organisation in the path of a cross-
\* organisation endpoint or, for a search, the one its session is scoped to.
\* `admin`: the caller has an active clerk_admin_users row, which is of type
\* platform iff the tenant is the platform's organisation.  `member`: the
\* person a change is about has a users row in the target organisation, which
\* the change alters.
Product  == {"product"}
OwnScope == {"orgAdmin", "platformAdmin"}
CrossOrg == {"list", "change"}
Kinds    == Product \cup OwnScope \cup CrossOrg \cup {"job", "search"}

Call == [kind : Kinds, tenant : Orgs, target : Orgs \cup {Unset},
         admin : BOOLEAN, member : BOOLEAN]

\* The calls that are told apart: fields that play no part are fixed.
Calls == {c \in Call :
             /\ c.kind \notin CrossOrg \cup {"search"} => c.target = c.tenant
             /\ c.kind \in CrossOrg => c.target \in Orgs
             /\ c.admin => c.kind \in OwnScope \cup CrossOrg
             /\ c.member => c.kind = "change"}

NoCall == [kind |-> "product", tenant |-> PlatformOrg, target |-> PlatformOrg,
           admin |-> FALSE, member |-> FALSE]

Ended == {"served", "denied", "refused", "failed"}
\* The stages with an open transaction.
Open  == {"provision", "provisioned", "guard", "handler", "memberships", "count",
          "clerk", "rescope", "adminRow", "usersRow", "flush", "scopeBack",
          "audit", "localRows", "assert", "search", "commit"}
Stages == {"idle", "begin", "beginAgain"} \cup Open \cup Ended

VARIABLES
    call,       \* call[r]: the call that r is serving
    pc,         \* pc[r]: how far it is
    on,         \* on[r]: the backend that runs r's open transaction
    session,    \* session[b]: app.org_id of backend b, outside transactions
    local,      \* local[b]: app.org_id as set for b's open transaction
    unflushed,  \* unflushed[r]: rows the ORM session has added or changed
    written,    \* written[r]: rows written in the open transaction
    stored,     \* stored[r]: rows written and committed
    seen,       \* seen[r]: the organisations whose rows r was shown
    clerk,      \* clerk[r]: Clerk has confirmed r's change
    hurt        \* hurt[r]: r has met a failure outside this code

settings == <<on, session, local>>
rows     == <<unflushed, written, stored>>
vars     == <<call, pc, on, session, local, unflushed, written, stored, seen, clerk, hurt>>

Init ==
    /\ call = [r \in Requests |-> NoCall]
    /\ pc = [r \in Requests |-> "idle"]
    /\ on = [r \in Requests |-> None]
    /\ session = [b \in Backends |-> Unset]
    /\ local = [b \in Backends |-> Unset]
    /\ unflushed = [r \in Requests |-> {}]
    /\ written = [r \in Requests |-> {}]
    /\ stored = [r \in Requests |-> {}]
    /\ seen = [r \in Requests |-> {}]
    /\ clerk = [r \in Requests |-> FALSE]
    /\ hurt = [r \in Requests |-> FALSE]

-----------------------------------------------------------------------------
(* PostgreSQL and SQLAlchemy.                                              *)

\* current_setting('app.org_id', true) on backend b.
Setting(b) == IF local[b] # Unset THEN local[b] ELSE session[b]

\* Mutant: SET SESSION, which outlives the transaction.
SeededSetConfig(b, o) == /\ session' = [session EXCEPT ![b] = o]
                         /\ UNCHANGED local

\* SELECT set_config('app.org_id', o, true)
SetConfig(b, o) == /\ local' = [local EXCEPT ![b] = o]
                   /\ UNCHANGED session

\* What the org_isolation policies let r's transaction read, change or add.
Admitted(r) == {row \in Rows : row.org = Setting(on[r])}

\* A SELECT: r is shown the rows of the organisation in scope.
Select(r) == seen' = [seen EXCEPT ![r] = @ \cup ({Setting(on[r])} \cap Orgs)]

\* The transaction ends: with it the local setting, and the backend is free.
EndTransaction(r) ==
    /\ local' = [local EXCEPT ![on[r]] = Unset]
    /\ on' = [on EXCEPT ![r] = None]
    /\ unflushed' = [unflushed EXCEPT ![r] = {}]
    /\ written' = [written EXCEPT ![r] = {}]
    /\ UNCHANGED session

Rollback(r, verdict) ==
    /\ EndTransaction(r)
    /\ pc' = [pc EXCEPT ![r] = verdict]
    /\ UNCHANGED stored

\* Rows sent to the backend.  A new row out of scope violates the policy, a
\* changed one is not found by its UPDATE; either raises and ends the request.
Send(r, sent, next) ==
    IF sent \subseteq Admitted(r)
    THEN /\ written' = [written EXCEPT ![r] = @ \cup sent]
         /\ unflushed' = [unflushed EXCEPT ![r] = @ \ sent]
         /\ pc' = [pc EXCEPT ![r] = next]
         /\ UNCHANGED <<settings, stored>>
    ELSE Rollback(r, "failed")

\* COMMIT, which flushes first.
Commit(r, next) ==
    IF unflushed[r] \subseteq Admitted(r)
    THEN /\ stored' = [stored EXCEPT ![r] = @ \cup written[r] \cup unflushed[r]]
         /\ pc' = [pc EXCEPT ![r] = next]
         /\ EndTransaction(r)
    ELSE Rollback(r, "failed")

Goto(r, from, to) == /\ pc[r] = from
                     /\ pc' = [pc EXCEPT ![r] = to]

-----------------------------------------------------------------------------
(* A request opens its transactions.                                       *)

Arrive(r) ==
    /\ Goto(r, "idle", "begin")
    /\ \E c \in Calls : call' = [call EXCEPT ![r] = c]
    /\ UNCHANGED <<settings, rows, seen, clerk, hurt>>

\* Mutant: the second transaction of get_admin_db is not scoped again.
SeededFirstScope(r) ==
    IF pc[r] = "beginAgain" THEN Unset
    ELSE IF call[r].kind = "search" THEN call[r].target ELSE call[r].tenant

\* What the first statement of each transaction sets.
FirstScope(r) == IF call[r].kind = "search" THEN call[r].target ELSE call[r].tenant

\* Where the first transaction of a request goes on to.
AfterFirstScope(r) ==
    CASE call[r].kind = "search" -> "assert"
      [] call[r].kind = "job"    -> "handler"
      [] OTHER                   -> "provision"

\* session.begin(): PgBouncer lends a backend, and app.org_id is set on it.
\* The session that a search is handed may be one that nobody scoped.
Begin(r, b) ==
    /\ pc[r] \in {"begin", "beginAgain"}
    /\ \A q \in Requests : on[q] # b
    /\ on' = [on EXCEPT ![r] = b]
    /\ SetConfig(b, FirstScope(r))
    /\ pc' = [pc EXCEPT ![r] = IF pc[r] = "begin" THEN AfterFirstScope(r) ELSE "guard"]
    /\ UNCHANGED <<call, rows, seen, clerk, hurt>>

\* _ensure_user_provisioned, or _ensure_org_provisioned and
\* _ensure_admin_provisioned: rows of the caller's organisation are looked up
\* and, if they are new or stale, written.
Provision(r) ==
    /\ pc[r] = "provision"
    /\ Select(r)
    /\ LET table == IF call[r].kind = "product" THEN "users" ELSE "clerk_admin_users"
       IN  \E own \in {{}, {Row(table, call[r].tenant)}} :
               Send(r, own, IF call[r].kind = "product" THEN "handler" ELSE "provisioned")
    /\ UNCHANGED <<call, clerk, hurt>>

\* get_admin_db commits what it provisioned before the guard can refuse.
CommitProvisioning(r) ==
    /\ pc[r] = "provisioned"
    /\ Commit(r, "beginAgain")
    /\ UNCHANGED <<call, seen, clerk, hurt>>

\* require_org_admin, require_platform_admin: the caller's row, as the scope
\* shows it.
GuardFinds(r) == call[r].admin /\ Setting(on[r]) = call[r].tenant

MayCall(r) == GuardFinds(r) /\ (call[r].kind = "orgAdmin" \/ call[r].tenant = PlatformOrg)

\* Mutant: a cross-organisation call goes on to no stage at all.
SeededAfterGuard(r) == IF call[r].kind \in CrossOrg THEN "members" ELSE "handler"

AfterGuard(r) == IF call[r].kind \in CrossOrg THEN "memberships" ELSE "handler"

Guard(r) ==
    /\ pc[r] = "guard"
    /\ Select(r)
    /\ IF MayCall(r)
       THEN Goto(r, "guard", AfterGuard(r)) /\ UNCHANGED <<settings, rows>>
       ELSE Rollback(r, "denied")
    /\ UNCHANGED <<call, clerk, hurt>>

-----------------------------------------------------------------------------
(* Handlers that stay in the scope they were given: the product routes, the *)
(* admin routes on the caller's own organisation, organisation creation,    *)
(* invitations and deletion by the platform, and the ingest job.            *)

\* One statement: a query, or rows added to the ORM session or changed in it.
Statement(r) ==
    /\ pc[r] = "handler"
    /\ Select(r)
    /\ \E added \in {{}, {Row("other", call[r].tenant)}} :
           unflushed' = [unflushed EXCEPT ![r] = @ \cup added]
    /\ UNCHANGED <<call, pc, settings, written, stored, clerk, hurt>>

HandlerReturns(r) ==
    /\ Goto(r, "handler", "commit")
    /\ UNCHANGED <<call, settings, rows, seen, clerk, hurt>>

HandlerRaises(r) ==
    /\ pc[r] = "handler"
    /\ Rollback(r, "refused")
    /\ UNCHANGED <<call, seen, clerk, hurt>>

-----------------------------------------------------------------------------
(* list_org_members, update_org_member_role and remove_org_member.         *)

\* The members are Clerk's; the local rows of removed ones the target's.
ScopeForList(r) ==
    /\ call[r].kind = "list"
    /\ Goto(r, "memberships", "localRows")
    /\ SetConfig(on[r], call[r].target)
    /\ UNCHANGED <<call, on, rows, seen, clerk, hurt>>

ReadLocalRows(r) ==
    /\ Goto(r, "localRows", "commit")
    /\ Select(r)
    /\ UNCHANGED <<call, settings, rows, clerk, hurt>>

IsChange(r) == call[r].kind = "change" /\ call[r].target # PlatformOrg

\* The platform's own organisation, the caller himself, or not a member.
RefuseTarget(r) ==
    /\ pc[r] = "memberships" /\ call[r].kind = "change"
    /\ Rollback(r, "refused")
    /\ UNCHANGED <<call, seen, clerk, hurt>>

NothingToDo(r) ==
    /\ IsChange(r)
    /\ Goto(r, "memberships", "commit")
    /\ UNCHANGED <<call, settings, rows, seen, clerk, hurt>>

\* The target does not lose the admin role, so no admins are counted.
NoCount(r) ==
    /\ IsChange(r)
    /\ Goto(r, "memberships", "clerk")
    /\ UNCHANGED <<call, settings, rows, seen, clerk, hurt>>

ScopeForCount(r) ==
    /\ IsChange(r)
    /\ Goto(r, "memberships", "count")
    /\ SetConfig(on[r], call[r].target)
    /\ UNCHANGED <<call, on, rows, seen, clerk, hurt>>

\* The count of active admins leaves the session scoped to the target.
CountAdmins(r) ==
    /\ pc[r] = "count"
    /\ Select(r)
    /\ \/ Goto(r, "count", "clerk") /\ UNCHANGED <<settings, rows>>
       \/ Rollback(r, "refused")
    /\ UNCHANGED <<call, clerk, hurt>>

ClerkApplies(r) ==
    /\ Goto(r, "clerk", "rescope")
    /\ clerk' = [clerk EXCEPT ![r] = TRUE]
    /\ UNCHANGED <<call, settings, rows, seen, hurt>>

\* Mutant: the scope is left as the count of admins has left it.
SeededRescope(r) ==
    /\ Goto(r, "rescope", "adminRow")
    /\ UNCHANGED <<call, settings, rows, seen, clerk, hurt>>

\* _set_org_scope(db, clerk_org_id)
Rescope(r) ==
    /\ Goto(r, "rescope", "adminRow")
    /\ SetConfig(on[r], call[r].target)
    /\ UNCHANGED <<call, on, rows, seen, clerk, hurt>>

\* deactivate, reactivate_if_exists: an UPDATE of the rows in scope, sent at
\* once, that may find none.
WriteAdminRow(r) ==
    /\ Goto(r, "adminRow", "usersRow")
    /\ \E found \in SUBSET ({Row("clerk_admin_users", call[r].target)} \cap Admitted(r)) :
           written' = [written EXCEPT ![r] = @ \cup found]
    /\ UNCHANGED <<call, settings, unflushed, stored, seen, clerk, hurt>>

\* The users row is looked up, as the scope shows it, and changed in memory.
ChangeUsersRow(r) ==
    /\ pc[r] = "usersRow"
    /\ Select(r)
    /\ LET row == Row("users", call[r].target)
       IN  IF call[r].member /\ row \in Admitted(r)
           THEN /\ unflushed' = [unflushed EXCEPT ![r] = @ \cup {row}]
                /\ Goto(r, "usersRow", "flush")
           ELSE /\ Goto(r, "usersRow", "scopeBack")
                /\ UNCHANGED unflushed
    /\ UNCHANGED <<call, settings, written, stored, clerk, hurt>>

\* Mutant: no flush, the change waits for the commit.
SeededFlush(r) ==
    /\ Goto(r, "flush", "scopeBack")
    /\ UNCHANGED <<call, settings, rows, seen, clerk, hurt>>

Flush(r) ==
    /\ pc[r] = "flush"
    /\ Send(r, unflushed[r], "scopeBack")
    /\ UNCHANGED <<call, seen, clerk, hurt>>

\* _set_org_scope(db, claims["tenant_id"])
ScopeBack(r) ==
    /\ Goto(r, "scopeBack", "audit")
    /\ SetConfig(on[r], call[r].tenant)
    /\ UNCHANGED <<call, on, rows, seen, clerk, hurt>>

\* _admin_actor asserts that it finds the caller's row; the audit row is added
\* to the ORM session.
Audit(r) ==
    /\ pc[r] = "audit"
    /\ Select(r)
    /\ IF GuardFinds(r)
       THEN /\ unflushed' = [unflushed EXCEPT ![r] =
                                 @ \cup {Row("human_audit_log", call[r].tenant)}]
            /\ Goto(r, "audit", "commit")
            /\ UNCHANGED <<settings, written, stored>>
       ELSE Rollback(r, "failed")
    /\ UNCHANGED <<call, clerk, hurt>>

-----------------------------------------------------------------------------
(* org_scoped_search: `tenant` is the organisation that the feature serves. *)

\* Mutant: any scope will do.
SeededScopedTo(r, org) == Setting(on[r]) # Unset

\* assert_session_scoped_to
ScopedTo(r, org) == Setting(on[r]) # Unset /\ Setting(on[r]) = org

AssertScoped(r) ==
    /\ pc[r] = "assert"
    /\ IF ScopedTo(r, call[r].tenant)
       THEN Goto(r, "assert", "search") /\ UNCHANGED <<settings, rows>>
       ELSE Rollback(r, "refused")
    /\ UNCHANGED <<call, seen, clerk, hurt>>

HybridSearch(r) ==
    /\ Goto(r, "search", "commit")
    /\ Select(r)
    /\ UNCHANGED <<call, settings, rows, clerk, hurt>>

-----------------------------------------------------------------------------
CommitCall(r) ==
    /\ pc[r] = "commit"
    /\ Commit(r, "served")
    /\ UNCHANGED <<call, seen, clerk, hurt>>

\* Clerk refuses or does not answer, the connection breaks, the process dies.
Fails(r) ==
    /\ pc[r] \in Open
    /\ Rollback(r, "failed")
    /\ hurt' = [hurt EXCEPT ![r] = TRUE]
    /\ UNCHANGED <<call, seen, clerk>>

NoBackend(r) ==
    /\ pc[r] \in {"begin", "beginAgain"}
    /\ pc' = [pc EXCEPT ![r] = "failed"]
    /\ hurt' = [hurt EXCEPT ![r] = TRUE]
    /\ UNCHANGED <<call, settings, rows, seen, clerk>>

\* The transaction commits and its answer is lost.
AnswerLost(r) ==
    /\ pc[r] = "commit"
    /\ Commit(r, "failed")
    /\ hurt' = [hurt EXCEPT ![r] = TRUE]
    /\ UNCHANGED <<call, seen, clerk>>

Step(r) ==
    \/ Arrive(r) \/ \E b \in Backends : Begin(r, b)
    \/ Provision(r) \/ CommitProvisioning(r) \/ Guard(r)
    \/ Statement(r) \/ HandlerReturns(r) \/ HandlerRaises(r)
    \/ ScopeForList(r) \/ ReadLocalRows(r)
    \/ RefuseTarget(r) \/ NothingToDo(r) \/ NoCount(r) \/ ScopeForCount(r)
    \/ CountAdmins(r) \/ ClerkApplies(r) \/ Rescope(r) \/ WriteAdminRow(r)
    \/ ChangeUsersRow(r) \/ Flush(r) \/ ScopeBack(r) \/ Audit(r)
    \/ AssertScoped(r) \/ HybridSearch(r)
    \/ CommitCall(r) \/ Fails(r) \/ NoBackend(r) \/ AnswerLost(r)

Next == \E r \in Requests : Step(r)

Spec == Init /\ [][Next]_vars

-----------------------------------------------------------------------------
(* Properties.                                                             *)

\* The variables range over the values the code gives them.
TypeOK ==
    /\ call \in [Requests -> Call]
    /\ pc \in [Requests -> Stages]
    /\ on \in [Requests -> Backends \cup {None}]
    /\ session \in [Backends -> Orgs \cup {Unset}]
    /\ local \in [Backends -> Orgs \cup {Unset}]
    /\ unflushed \in [Requests -> SUBSET Rows]
    /\ written \in [Requests -> SUBSET Rows]
    /\ stored \in [Requests -> SUBSET Rows]
    /\ seen \in [Requests -> SUBSET Orgs]
    /\ clerk \in [Requests -> BOOLEAN]
    /\ hurt \in [Requests -> BOOLEAN]

\* A backend that PgBouncer may lend to the next transaction carries no
\* tenant's app.org_id, however the transaction before it has ended
\* (dependencies.py: "making it safe regardless of which backend connection
\* PgBouncer assigns").
NothingLeaks ==
    \A b \in Backends : (\A r \in Requests : on[r] # b) => Setting(b) = Unset

\* The changes of a cross-organisation call and its audit row are one: the
\* target's rows are not changed without an audit row in the caller's own
\* trail, never in the target's; and a caller who is told that the change is
\* made finds the users row changed and the audit row written
\* (platform_members.py: both scopes share one transaction).
CrossOrgChangeIsAudited ==
    \A r \in Requests : call[r].kind = "change" /\ call[r].target # call[r].tenant =>
        /\ Row("human_audit_log", call[r].target) \notin stored[r]
        /\ (\E row \in stored[r] : row.org = call[r].target) =>
               Row("human_audit_log", call[r].tenant) \in stored[r]
        /\ pc[r] = "served" /\ clerk[r] =>
               /\ Row("human_audit_log", call[r].tenant) \in stored[r]
               /\ call[r].member => Row("users", call[r].target) \in stored[r]

\* The scope changes within a request never make its own statements fail: no
\* row is sent under a scope that does not admit it and no row that is there
\* is missed, so what fails has met a failure outside, of Clerk or of the
\* database (platform_members.py: "Flush now, while app.org_id is still the
\* TARGET org").
FailuresAreExternal == \A r \in Requests : pc[r] = "failed" => hurt[r]

\* Who has the row that the guard asks for is not turned away, whatever
\* backends the two transactions of get_admin_db have run on.
GuardSeesTheCaller ==
    \A r \in Requests : pc[r] = "denied" =>
        ~call[r].admin \/ (call[r].kind # "orgAdmin" /\ call[r].tenant # PlatformOrg)

\* The organisations that a call acts for: its token's or its job's and, once
\* it is a platform admin's cross-organisation call, the one in its path.
ActsFor(c) ==
    IF c.kind \in CrossOrg /\ c.admin /\ c.tenant = PlatformOrg
    THEN {c.tenant, c.target} ELSE {c.tenant}

May == [r \in Requests |-> IF pc[r] = "idle" THEN {} ELSE ActsFor(call[r])]

Isolation == INSTANCE TenantIsolation WITH may <- May

\* Pooled backends, settings and re-scoping keep what TenantIsolation promises:
\* a request is shown, and leaves behind, only rows of the organisations it
\* acts for.
ImplementsIsolation == Isolation!Spec
=============================================================================
