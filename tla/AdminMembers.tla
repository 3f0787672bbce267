---------------------------- MODULE AdminMembers ----------------------------
(***************************************************************************)
(* Who may use the admin portal of one client organisation.  Three records *)
(* of a person's role exist: the Clerk membership (outside the program),   *)
(* the clerk_admin_users row that the guards read, and the users row of    *)
(* the product.  They are changed by                                       *)
(*  - get_admin_db, which on every admin request provisions, reactivates   *)
(*    or downgrades the caller's admin row from the role in the caller's   *)
(*    session token, in a transaction of its own;                          *)
(*  - the four member endpoints (own-org and cross-org, DELETE and PATCH), *)
(*    which check, call Clerk, and then commit local writes;               *)
(*  - get_db, which provisions or reactivates the users row;               *)
(*  - Clerk's own dashboard and invitations, out of band.                  *)
(* A session token carries the role of the moment it was issued, so each   *)
(* of these may act on a role that Clerk has changed since.                *)
(*                                                                         *)
(* Steps.  Database reads that follow one another without a call to Clerk  *)
(* between them are one step, and the writes of a transaction are one step *)
(* at its commit (the statements overwrite, and the row locks they take    *)
(* last until then).  Provisioning, the guard, the endpoint's checks, the  *)
(* call to Clerk and the commit are steps of their own.  A platform admin  *)
(* is one caller outside the organisation, whose own rows belong to        *)
(* another organisation and are taken to be in order.                      *)
(***************************************************************************)
EXTENDS Naturals, FiniteSets

CONSTANTS
    Members,     \* the people who are or may become members
    Platform,    \* a platform admin
    Requests,    \* requests that may be in progress at the same time
    Kinds,       \* the endpoints in use
    OutOfBand,   \* the members whose Clerk role changes outside the program as well
    MaxChanges,  \* how many changes, by endpoint or out of band, are made
    MaxFaults,   \* how many failures of Clerk or the database happen
    None         \* no target, no role

Roles      == {"member", "admin"}
Clerk      == Roles \cup {"none"}
OwnOrg     == {"remove", "setRole"}
CrossOrg   == {"removeCross", "setRoleCross"}
Removals   == {"remove", "removeCross"}

ASSUME AdminAssumption ==
    /\ Platform \notin Members
    /\ None \notin Members \cup Roles \cup OwnOrg \cup CrossOrg
    /\ Kinds \subseteq OwnOrg \cup CrossOrg
    /\ OutOfBand \subseteq Members
    /\ MaxChanges \in Nat
    /\ MaxFaults \in Nat
    /\ IsFiniteSet(Members)

VARIABLES
    clerk,      \* clerk[u]: the role of u's Clerk membership
    token,      \* token[u]: the role in the session token u holds
    adminRow,   \* adminRow[u]: the status of u's clerk_admin_users row
    stamp,      \* stamp[u]: its updated_at: "null", "fresh" within the grace, "old"
    userRow,    \* userRow[u]: the status of u's users row
    userRole,   \* userRole[u]: its role
    req,        \* req[r]: the request in progress
    changes,    \* changes made so far
    faults,     \* failures so far
    hadRole,    \* history: the people who were Clerk admins at some time
    promoted    \* history: those whose row an endpoint reactivated within the grace
                \* window (a row that a first promotion inserts has no updated_at)

rowVars     == <<adminRow, stamp, userRow, userRole>>
historyVars == <<hadRole, promoted>>
vars == <<clerk, token, rowVars, req, changes, faults, historyVars>>

Idle == [step |-> "idle", kind |-> None, caller |-> None, claim |-> None,
         target |-> None, role |-> None, admin |-> FALSE, live |-> FALSE]

\* A Clerk organisation whose people have not used the product yet.
Init ==
    /\ clerk \in [Members -> Clerk]
    /\ token = clerk
    /\ adminRow = [u \in Members |-> "absent"]
    /\ stamp = [u \in Members |-> "null"]
    /\ userRow = [u \in Members |-> "absent"]
    /\ userRole = [u \in Members |-> "member"]
    /\ req = [r \in Requests |-> Idle]
    /\ changes = 0
    /\ faults = 0
    /\ hadRole = {u \in Members : clerk[u] = "admin"}
    /\ promoted = {}

Active(u)    == adminRow[u] = "active"
ActiveAdmins == {u \in Members : Active(u)}

-----------------------------------------------------------------------------
(* The surroundings: Clerk, its tokens, and time *)

\* u's Clerk role becomes role, by an endpoint or out of band.
SetClerk(u, role) ==
    /\ clerk' = [clerk EXCEPT ![u] = role]
    /\ hadRole' = IF role = "admin" THEN hadRole \cup {u} ELSE hadRole

\* The Clerk dashboard, or an invitation that is accepted.
ClerkChange(u, role) ==
    /\ u \in OutOfBand
    /\ clerk[u] # role
    /\ changes < MaxChanges
    /\ changes' = changes + 1
    /\ SetClerk(u, role)
    /\ UNCHANGED <<token, rowVars, req, faults, promoted>>

\* The client fetches a new session token.  Without a membership it has no org,
\* and decode_clerk_jwt refuses it.
RefreshToken(u) ==
    /\ token[u] # clerk[u]
    /\ token' = [token EXCEPT ![u] = clerk[u]]
    /\ UNCHANGED <<clerk, rowVars, req, changes, faults, historyVars>>

\* admin_role_sync_grace_seconds have passed since u's row was last stamped.
GraceElapses(u) ==
    /\ Active(u)
    /\ stamp[u] = "fresh" \/ u \in promoted
    /\ stamp' = [stamp EXCEPT ![u] = IF @ = "fresh" THEN "old" ELSE @]
    /\ promoted' = promoted \ {u}
    /\ UNCHANGED <<clerk, token, adminRow, userRow, userRole, req, changes, faults, hadRole>>

\* A product request of u: get_db provisions the users row with the token's
\* role, or flips an inactive one back to active.
Login(u) ==
    /\ token[u] # "none"
    /\ userRow[u] # "active"
    /\ userRow' = [userRow EXCEPT ![u] = "active"]
    /\ userRole' = [userRole EXCEPT ![u] = IF userRow[u] = "absent" THEN token[u] ELSE @]
    /\ UNCHANGED <<clerk, token, adminRow, stamp, req, changes, faults, historyVars>>

-----------------------------------------------------------------------------
(* An admin request: arrival, provisioning, guard *)

\* A request without side effects beyond provisioning (GET /admin/context).
Visit(r, u) ==
    /\ req[r] = Idle
    /\ token[u] # "none"
    /\ req' = [req EXCEPT ![r] = [Idle EXCEPT !.step = "provision", !.kind = "visit",
                                              !.caller = u, !.claim = token[u]]]
    /\ UNCHANGED <<clerk, token, rowVars, changes, faults, historyVars>>

\* A call of an own-org member endpoint.
CallOwnOrg(r, kind, u, t, role) ==
    /\ req[r] = Idle
    /\ token[u] # "none"
    /\ changes < MaxChanges
    /\ changes' = changes + 1
    /\ req' = [req EXCEPT ![r] = [Idle EXCEPT !.step = "provision", !.kind = kind,
                                              !.caller = u, !.claim = token[u],
                                              !.target = t, !.role = role]]
    /\ UNCHANGED <<clerk, token, rowVars, faults, historyVars>>

\* A call of a cross-org member endpoint, admitted by require_platform_admin.
CallCrossOrg(r, kind, t, role) ==
    /\ req[r] = Idle
    /\ changes < MaxChanges
    /\ changes' = changes + 1
    /\ req' = [req EXCEPT ![r] = [Idle EXCEPT !.step = "check", !.kind = kind,
                                              !.caller = Platform,
                                              !.target = t, !.role = role]]
    /\ UNCHANGED <<clerk, token, rowVars, faults, historyVars>>

End(r) == req' = [req EXCEPT ![r] = Idle]
GoTo(r, step) == req' = [req EXCEPT ![r].step = step]
\* The step after provisioning.
Provisioned(r) == IF req[r].kind = "visit" THEN End(r) ELSE GoTo(r, "guard")

\* Seeded faults: no downgrade sync, and a grant that does not look at the token.
SeededNeedsNoDowngrade(u, claim) == FALSE
SeededNeedsGrant(u, claim) == ~Active(u)

\* _ensure_admin_provisioned: an active row is downgraded when the token says
\* "not admin" and the row was not stamped within the grace window ...
NeedsDowngrade(u, claim) == Active(u) /\ claim # "admin" /\ stamp[u] # "fresh"
\* ... and a missing or inactive row is granted when the token says "admin".
NeedsGrant(u, claim) == ~Active(u) /\ claim = "admin"

\* It reads the caller's row; a grant then waits for Clerk (the email).
ProvisionRead(r) ==
    LET u == req[r].caller
        claim == req[r].claim
    IN  /\ req[r].step = "provision"
        /\ \/ NeedsDowngrade(u, claim) /\ GoTo(r, "downgrade")
           \/ NeedsGrant(u, claim) /\ GoTo(r, "grant")
           \/ ~NeedsDowngrade(u, claim) /\ ~NeedsGrant(u, claim) /\ Provisioned(r)
        /\ UNCHANGED <<clerk, token, rowVars, changes, faults, historyVars>>

\* Seeded fault: a status the guards and the last-admin count do not know.
SeededDeactivateDisables(u) ==
    IF adminRow[u] = "absent"
    THEN UNCHANGED <<adminRow, stamp>>
    ELSE /\ adminRow' = [adminRow EXCEPT ![u] = "disabled"]
         /\ stamp' = [stamp EXCEPT ![u] = "fresh"]

\* AdminUserRepo.deactivate: an UPDATE, which finds no absent row.
Deactivate(u) ==
    IF adminRow[u] = "absent"
    THEN UNCHANGED <<adminRow, stamp>>
    ELSE /\ adminRow' = [adminRow EXCEPT ![u] = "inactive"]
         /\ stamp' = [stamp EXCEPT ![u] = "fresh"]

\* Seeded fault: ON CONFLICT sets the status and leaves updated_at alone.
SeededReactivateOrCreate(u) ==
    /\ adminRow' = [adminRow EXCEPT ![u] = "active"]
    /\ stamp' = [stamp EXCEPT ![u] = IF adminRow[u] = "absent" THEN "null" ELSE @]

\* AdminUserRepo.reactivate_or_create: the INSERT leaves updated_at NULL, the
\* ON CONFLICT branch sets it.
ReactivateOrCreate(u) ==
    /\ adminRow' = [adminRow EXCEPT ![u] = "active"]
    /\ stamp' = [stamp EXCEPT ![u] = IF adminRow[u] = "absent" THEN "null" ELSE "fresh"]

\* AdminUserRepo.reactivate_if_exists: an UPDATE, and onupdate stamps the row.
ReactivateIfExists(u) ==
    IF adminRow[u] = "absent"
    THEN UNCHANGED <<adminRow, stamp>>
    ELSE /\ adminRow' = [adminRow EXCEPT ![u] = "active"]
         /\ stamp' = [stamp EXCEPT ![u] = "fresh"]

\* The write, and the commit of the provisioning transaction.
ProvisionWrite(r) ==
    /\ \/ req[r].step = "downgrade" /\ Deactivate(req[r].caller)
       \/ req[r].step = "grant" /\ ReactivateOrCreate(req[r].caller)
    /\ Provisioned(r)
    /\ promoted' = promoted \ {req[r].caller}
    /\ UNCHANGED <<clerk, token, userRow, userRole, changes, faults, hadRole>>

\* require_org_admin reads the caller's row again, in the second transaction.
Guard(r) ==
    /\ req[r].step = "guard"
    /\ IF Active(req[r].caller) THEN GoTo(r, "check") ELSE End(r)
    /\ UNCHANGED <<clerk, token, rowVars, changes, faults, historyVars>>

-----------------------------------------------------------------------------
(* The member endpoints: checks, the call to Clerk, the commit *)

\* Seeded fault: the last-admin check is one off.
SeededLastAdmin == Cardinality(ActiveAdmins) = 0

\* The count of active admin rows leaves nobody to spare.
LastAdmin == Cardinality(ActiveAdmins) <= 1

\* remove_member: the target has a users row and is not the last active admin.
MayRemove(t) == userRow[t] # "absent" /\ (Active(t) => ~LastAdmin)

\* update_member_role: the last-admin check and the no-op look at users.role.
MaySetRole(t, role) ==
    /\ userRow[t] # "absent"
    /\ userRole[t] = "admin" => ~LastAdmin
    /\ userRole[t] # role

\* remove_org_member: the last-admin check looks at the Clerk membership.
MayRemoveCross(t) == clerk[t] # "none" /\ (clerk[t] = "admin" => ~LastAdmin)

\* update_org_member_role.
MaySetRoleCross(t, role) ==
    /\ clerk[t] \notin {"none", role}
    /\ clerk[t] = "admin" => ~LastAdmin

\* The endpoint goes on, and nobody targets themselves.
CheckPasses(c) ==
    /\ c.target # c.caller
    /\ \/ c.kind = "remove" /\ MayRemove(c.target)
       \/ c.kind = "setRole" /\ MaySetRole(c.target, c.role)
       \/ c.kind = "removeCross" /\ MayRemoveCross(c.target)
       \/ c.kind = "setRoleCross" /\ MaySetRoleCross(c.target, c.role)

\* Seeded fault: remove_member leaves the admin row alone.
SeededTakenForAdmin(kind, t) == kind = "removeCross" /\ clerk[t] = "admin"

\* Whether the endpoint takes t for an admin: the row in remove_member, the
\* Clerk membership in remove_org_member.
TakenForAdmin(kind, t) ==
    \/ kind = "remove" /\ Active(t)
    \/ kind = "removeCross" /\ clerk[t] = "admin"

\* The checks of the endpoint; 403, 404 or "nothing to do" ends the request.  A
\* removal keeps what it read of its target.
Check(r) ==
    LET c == req[r]
    IN  /\ c.step = "check"
        /\ req' = [req EXCEPT ![r] =
                      IF CheckPasses(c)
                      THEN [c EXCEPT !.step = "clerk",
                                     !.admin = TakenForAdmin(c.kind, c.target),
                                     !.live = c.kind = "remove" /\ userRow[c.target] = "active"]
                      ELSE Idle]
        /\ UNCHANGED <<clerk, token, rowVars, changes, faults, historyVars>>

\* The role the endpoint asks Clerk for.
Asked(c) == IF c.kind \in Removals THEN "none" ELSE c.role

\* Clerk removes the membership or sets its role.
ClerkAccepts(r) ==
    /\ req[r].step = "clerk"
    /\ clerk[req[r].target] # "none"
    /\ SetClerk(req[r].target, Asked(req[r]))
    /\ GoTo(r, "commit")
    /\ UNCHANGED <<token, rowVars, changes, faults, promoted>>

\* Clerk answers 404: there is no membership any more.
ClerkRefuses(r) ==
    /\ req[r].step = "clerk"
    /\ clerk[req[r].target] = "none"
    /\ End(r)
    /\ UNCHANGED <<clerk, token, rowVars, changes, faults, historyVars>>

\* A 5xx or a timeout: Clerk may have made the change all the same.
ClerkFails(r) ==
    /\ req[r].step = "clerk"
    /\ faults < MaxFaults
    /\ faults' = faults + 1
    /\ \/ UNCHANGED <<clerk, hadRole>>
       \/ clerk[req[r].target] # "none" /\ SetClerk(req[r].target, Asked(req[r]))
    /\ End(r)
    /\ UNCHANGED <<token, rowVars, changes, promoted>>

\* Local writes of remove_member.  An already inactive users row keeps its
\* status: the ORM writes only what differs from what it loaded.
WriteRemove(c) ==
    /\ IF c.admin THEN Deactivate(c.target) ELSE UNCHANGED <<adminRow, stamp>>
    /\ userRow' = IF c.live THEN [userRow EXCEPT ![c.target] = "inactive"] ELSE userRow
    /\ UNCHANGED <<userRole, promoted>>

\* Local writes of remove_org_member, the users row as far as it exists.
WriteRemoveCross(c) ==
    /\ IF c.admin THEN Deactivate(c.target) ELSE UNCHANGED <<adminRow, stamp>>
    /\ userRow' = [userRow EXCEPT ![c.target] = IF @ = "absent" THEN @ ELSE "inactive"]
    /\ UNCHANGED <<userRole, promoted>>

\* Local writes of update_member_role.
WriteSetRole(c) ==
    /\ IF c.role = "admin" THEN ReactivateOrCreate(c.target) ELSE Deactivate(c.target)
    /\ promoted' = IF c.role = "admin" /\ adminRow[c.target] # "absent"
                   THEN promoted \cup {c.target} ELSE promoted \ {c.target}
    /\ userRole' = [userRole EXCEPT ![c.target] = c.role]
    /\ UNCHANGED userRow

\* Local writes of update_org_member_role.
WriteSetRoleCross(c) ==
    /\ IF c.role = "admin" THEN ReactivateIfExists(c.target) ELSE Deactivate(c.target)
    /\ promoted' = IF c.role = "admin" /\ adminRow[c.target] # "absent"
                   THEN promoted \cup {c.target} ELSE promoted \ {c.target}
    /\ userRole' = IF userRow[c.target] = "absent" THEN userRole
                   ELSE [userRole EXCEPT ![c.target] = c.role]
    /\ UNCHANGED userRow

\* The second transaction commits.
CommitChange(r) ==
    /\ req[r].step = "commit"
    /\ \/ req[r].kind = "remove" /\ WriteRemove(req[r])
       \/ req[r].kind = "setRole" /\ WriteSetRole(req[r])
       \/ req[r].kind = "removeCross" /\ WriteRemoveCross(req[r])
       \/ req[r].kind = "setRoleCross" /\ WriteSetRoleCross(req[r])
    /\ End(r)
    /\ UNCHANGED <<clerk, token, changes, faults, hadRole>>

\* It rolls back instead: the database fails, or Clerk does on the target's
\* email.  What Clerk was asked to do stays done.
RollbackChange(r) ==
    /\ req[r].step = "commit"
    /\ faults < MaxFaults
    /\ faults' = faults + 1
    /\ End(r)
    /\ UNCHANGED <<clerk, token, rowVars, changes, historyVars>>

-----------------------------------------------------------------------------
PersonStep(u) ==
    \/ \E role \in Clerk : ClerkChange(u, role)
    \/ RefreshToken(u)
    \/ GraceElapses(u)
    \/ Login(u)

\* A removal carries no role.
RolesOf(kind) == IF kind \in Removals THEN {None} ELSE Roles

Arrival(r) ==
    \/ \E u \in Members : Visit(r, u)
    \/ \E kind \in Kinds \cap OwnOrg, u, t \in Members :
           \E role \in RolesOf(kind) : CallOwnOrg(r, kind, u, t, role)
    \/ \E kind \in Kinds \cap CrossOrg, t \in Members :
           \E role \in RolesOf(kind) : CallCrossOrg(r, kind, t, role)

\* A request in progress goes on.
Progress(r) ==
    \/ ProvisionRead(r) \/ ProvisionWrite(r)
    \/ Guard(r) \/ Check(r)
    \/ ClerkAccepts(r) \/ ClerkRefuses(r)
    \/ CommitChange(r)

RequestFault(r) == ClerkFails(r) \/ RollbackChange(r)

Next ==
    \/ \E u \in Members : PersonStep(u)
    \/ \E r \in Requests : Arrival(r) \/ Progress(r) \/ RequestFault(r)

Spec == Init /\ [][Next]_vars

\* Requests are carried through, tokens are refreshed, time passes, and every
\* member keeps coming back to the portal.
Fairness ==
    /\ \A r \in Requests : WF_vars(Progress(r))
    /\ \A u \in Members : WF_vars(RefreshToken(u)) /\ WF_vars(GraceElapses(u))
    /\ \A u \in Members : SF_vars(\E r \in Requests : Visit(r, u))

FairSpec == Spec /\ Fairness

-----------------------------------------------------------------------------
(* Properties *)

Steps == {"idle", "provision", "downgrade", "grant", "guard", "check", "clerk", "commit"}

\* Every variable has its type.
TypeOK ==
    /\ clerk \in [Members -> Clerk]
    /\ token \in [Members -> Clerk]
    /\ adminRow \in [Members -> {"absent", "inactive", "active"}]
    /\ stamp \in [Members -> {"null", "fresh", "old"}]
    /\ userRow \in [Members -> {"absent", "inactive", "active"}]
    /\ userRole \in [Members -> Roles]
    /\ req \in [Requests ->
           [step : Steps, kind : OwnOrg \cup CrossOrg \cup {"visit", None},
            caller : Members \cup {Platform, None}, claim : Roles \cup {None},
            target : Members \cup {None}, role : Roles \cup {None},
            admin : BOOLEAN, live : BOOLEAN]]
    /\ changes \in 0..MaxChanges
    /\ faults \in 0..MaxFaults
    /\ hadRole \subseteq Members
    /\ promoted \subseteq Members

\* No admin without Clerk: whoever holds an active admin row, or a users row
\* that says "admin", was an admin in Clerk at some time.  Stale tokens, retries
\* and half-done changes may leave a role standing too long; none invents one.
AdminsComeFromClerk ==
    \A u \in Members : Active(u) \/ userRole[u] = "admin" => u \in hadRole

\* The commit of an endpoint never takes the organisation from some active
\* admins to none: what the last-admin guard of all four endpoints is for.
EndpointsKeepAnAdmin ==
    [][(\E r \in Requests : CommitChange(r)) /\ ActiveAdmins # {}
         => \E u \in Members : adminRow'[u] = "active"]_vars

\* A member whom remove_member has removed is left without an active admin row
\* ("a deleted member must not be left with dangling /admin portal access").
RemovalRevokesAdmin ==
    [][\A r \in Requests :
          req[r].kind = "remove" /\ CommitChange(r)
            => adminRow'[req[r].target] # "active"]_vars

\* Provisioning gives a deactivated admin the row back only while Clerk has them
\* as an admin (admin_dependencies.py:96-100: it takes a real Clerk-side action).
RegrantNeedsClerkAdmin ==
    [][\A r \in Requests :
          LET u == req[r].caller
          IN  req[r].step = "grant" /\ ProvisionWrite(r) /\ adminRow[u] = "inactive"
                => clerk[u] = "admin"]_vars

\* A row that an endpoint has reactivated is not deactivated by the downgrade sync
\* within the grace window (admin_dependencies.py:79-87), whatever token its owner
\* comes with, and whoever changed, visited or logged in in between.  A downgrade
\* that another request decided before the promotion and writes after it breaks
\* this; a row that a promotion inserts has no updated_at and is not covered.
GraceCoversReactivation ==
    [][\A r \in Requests : req[r].step = "downgrade" /\ ProvisionWrite(r)
          => req[r].caller \notin promoted]_vars

\* The admin row follows Clerk in the end: for every person who stays a member
\* and keeps coming back, it is active exactly if they are an admin in Clerk.
AdminRowsConverge ==
    \A u \in Members :
        <>[](clerk[u] = "none" \/ (Active(u) <=> clerk[u] = "admin"))
=============================================================================
