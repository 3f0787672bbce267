---------------------------- MODULE OrgLifecycle ----------------------------
(***************************************************************************)
(* Client organisations and their invitations: api/admin/organizations.py, *)
(* invitations.py, platform_invitations.py, platform_organization_delete.py*)
(* and the adapter services/admin/clerk_admin.py.                          *)
(*                                                                         *)
(* Clerk owns the organisations, memberships and invitations.  An endpoint *)
(* asks Clerk for one change, or for several in a row, and then writes one *)
(* audit row in the transaction that get_admin_db commits at the end.  No  *)
(* two of these steps are atomic together.  Each call to Clerk may be      *)
(* refused, may not reach Clerk, or may be carried out and its answer lost *)
(* (the 5 s timeout); a lost answer is an error to the caller, like a      *)
(* refusal, and no step is undone.                                         *)
(*                                                                         *)
(* A local admin row may outlive the role in Clerk (AdminMembers), so the  *)
(* guard require_org_admin is modelled as: was an admin there at some time.*)
(***************************************************************************)
EXTENDS Naturals

CONSTANTS
    Orgs,            \* Clerk ids of client organisations, used once each
    Platform,        \* settings.simpero_platform_org_id
    PlatformAdmins,  \* the people whom require_platform_admin lets through
    Clients,         \* everybody else with a Clerk account
    OutOfBand,       \* the people whose memberships change outside these routers as well
    Requests,        \* requests to the four routers
    MaxFaults,       \* calls that get lost, answers that get lost, failed commits
    None             \* no organisation, no invitation, no audit row

AllOrgs == Orgs \cup {Platform}
People  == PlatformAdmins \cup Clients
Kinds   == {"create", "invite", "revoke", "inviteInto", "delete"}
Roles   == {"member", "admin"}

Invitations == [org : AllOrgs, role : Roles,
                status : {"pending", "accepted", "revoked", "gone"}]
AuditRows   == [org : AllOrgs, invitation : BOOLEAN, removed : BOOLEAN]

ASSUME OrgAssumption ==
    /\ Platform \notin Orgs
    /\ PlatformAdmins \cap Clients = {}
    /\ OutOfBand \subseteq People
    /\ MaxFaults \in Nat
    /\ None \notin AllOrgs \cup People \cup Requests \cup Kinds \cup Roles
    /\ None \notin Invitations \cup AuditRows

VARIABLES
    clerk,      \* clerk[o]: "unborn", "live" or "deleted"
    role,       \* role[o][p]: p's membership of o in Clerk, "none" without one
    wasAdmin,   \* history: wasAdmin[o]: the people who were an admin of o at some time
    founder,    \* history: founder[o]: who is a member of o since they created it, None
                \* once that membership has ended, whether or not they come back
    invited,    \* invited[r]: the invitation that request r made, None without one
    req,        \* req[r]: where request r is, and what it holds
    changed,    \* the requests whose change Clerk has made
    audit,      \* audit[r]: the committed audit row of r, None without one
    faults      \* failures so far

clerkVars == <<clerk, role, wasAdmin, founder, invited>>
vars == <<clerkVars, req, changed, audit, faults>>

\* offer is the role an invitation is to give (None: no account_manager_email),
\* victim the request whose invitation is to be revoked, invitation whether the
\* handler holds Clerk's answer to an invitation, removed the flag
\* creator_membership_removed.
Steps == {"idle", "create", "seed", "invite", "revoke", "fetch", "delete", "unseat",
          "audit", "done", "failed"}
Handlers == [step : Steps, kind : Kinds \cup {None}, caller : People \cup {None},
             org : AllOrgs \cup {None}, offer : Roles \cup {None},
             victim : Requests \cup {None}, invitation : BOOLEAN, removed : BOOLEAN]
Idle == [step |-> "idle", kind |-> None, caller |-> None, org |-> None,
         offer |-> None, victim |-> None, invitation |-> FALSE, removed |-> FALSE]

\* Only the platform organisation exists, with its admins.
Init ==
    /\ clerk = [o \in AllOrgs |-> IF o = Platform THEN "live" ELSE "unborn"]
    /\ role = [o \in AllOrgs |-> [p \in People |->
                 IF o = Platform /\ p \in PlatformAdmins THEN "admin" ELSE "none"]]
    /\ wasAdmin = [o \in AllOrgs |-> IF o = Platform THEN PlatformAdmins ELSE {}]
    /\ founder = [o \in Orgs |-> None]
    /\ invited = [r \in Requests |-> None]
    /\ req = [r \in Requests |-> Idle]
    /\ changed = {}
    /\ audit = [r \in Requests |-> None]
    /\ faults = 0

At(r, step)  == req[r].step = step
Goes(r, step) == req' = [req EXCEPT ![r].step = step]
Fault == faults < MaxFaults /\ faults' = faults + 1

\* The end of a call that Clerk carries out: its answer arrives and the handler
\* goes on as q, or the answer is lost and clerk_error_to_http ends the request.
Answered(r, q) ==
    \/ req' = [req EXCEPT ![r] = q] /\ UNCHANGED faults
    \/ Goes(r, "failed") /\ Fault

-----------------------------------------------------------------------------
(* Requests arrive *)

Arrive(r, kind, p, o, offer, victim) ==
    /\ At(r, "idle")
    /\ req' = [req EXCEPT ![r] =
          [step |-> CASE kind = "create" -> "create"
                      [] kind \in {"inviteInto", "delete"} -> "fetch"
                      [] OTHER -> kind,
           kind |-> kind, caller |-> p, org |-> o, offer |-> offer,
           victim |-> victim, invitation |-> FALSE, removed |-> FALSE]]
    /\ UNCHANGED <<clerkVars, changed, audit, faults>>

\* 403 on the platform organisation, in both endpoints that take one by path.
MayTarget(o) == o # Platform

\* create_invitation: only members, whatever the body says.
OwnOffers == {"member"}

CreateOrg(r) ==
    \E p \in PlatformAdmins, offer \in {"admin", None} :
        Arrive(r, "create", p, None, offer, None)

CreateInvitation(r) ==
    \E o \in AllOrgs : \E p \in wasAdmin[o], offer \in OwnOffers :
        Arrive(r, "invite", p, o, offer, None)

RevokeInvitation(r) ==
    \E o \in AllOrgs : \E p \in wasAdmin[o], v \in Requests :
        Arrive(r, "revoke", p, o, None, v)

InviteIntoOrg(r) ==
    \E p \in PlatformAdmins, o \in AllOrgs, offer \in Roles :
        MayTarget(o) /\ Arrive(r, "inviteInto", p, o, offer, None)

DeleteOrg(r) ==
    \E p \in PlatformAdmins, o \in AllOrgs :
        MayTarget(o) /\ Arrive(r, "delete", p, o, None, None)

-----------------------------------------------------------------------------
(* Calls that Clerk carries out *)

IsMember(o, p) == clerk[o] = "live" /\ role[o][p] # "none"

\* p becomes a member of o, not as its creator.
Joins(o, p, granted) ==
    /\ ~IsMember(o, p)
    /\ role' = [role EXCEPT ![o][p] = granted]
    /\ wasAdmin' = [wasAdmin EXCEPT ![o] = IF granted = "admin" THEN @ \cup {p} ELSE @]

\* p is a member of o no longer.
Leaves(o, p) ==
    /\ IsMember(o, p)
    /\ role' = [role EXCEPT ![o][p] = "none"]
    /\ founder' = [founder EXCEPT ![o] = IF @ = p THEN None ELSE @]

\* Seeded fault: the creator is only removed if there is an account manager to
\* take over.
SeededAfterCreate(q) == [q EXCEPT !.step = IF q.offer # None THEN "seed" ELSE "audit"]

\* The seed invitation if there is an account manager, then the removal.
AfterCreate(q) == [q EXCEPT !.step = IF q.offer # None THEN "seed" ELSE "unseat"]

\* create_organization: created_by becomes the first admin.
CreateOrganization(r) ==
    /\ At(r, "create")
    /\ \E o \in Orgs :
        LET p == req[r].caller  q == [req[r] EXCEPT !.org = o] IN
        /\ clerk[o] = "unborn"
        /\ clerk' = [clerk EXCEPT ![o] = "live"]
        /\ role' = [role EXCEPT ![o][p] = "admin"]
        /\ wasAdmin' = [wasAdmin EXCEPT ![o] = {p}]
        /\ founder' = [founder EXCEPT ![o] = p]
        /\ \/ req' = [req EXCEPT ![r] = AfterCreate(q)] /\ UNCHANGED faults
           \/ req' = [req EXCEPT ![r] = [q EXCEPT !.step = "failed"]] /\ Fault
    /\ changed' = changed \cup {r}
    /\ UNCHANGED <<invited, audit>>

\* An inviter has to be a member, which the creator still is; an invitation from
\* the platform names none.
MayInvite(q) ==
    IF q.kind = "inviteInto" THEN clerk[q.org] = "live" ELSE IsMember(q.org, q.caller)

\* create_organization_invitation: create_org's seed, and both invitation routers.
Invite(r) ==
    LET q == req[r] IN
    /\ q.step \in {"seed", "invite"}
    /\ MayInvite(q)
    /\ invited' = [invited EXCEPT ![r] = [org |-> q.org, role |-> q.offer, status |-> "pending"]]
    /\ changed' = changed \cup {r}
    /\ Answered(r, [q EXCEPT !.invitation = TRUE,
                             !.step = IF q.step = "seed" THEN "unseat" ELSE "audit"])
    /\ UNCHANGED <<clerk, role, wasAdmin, founder, audit>>

MayRevoke(q) ==
    /\ IsMember(q.org, q.caller)
    /\ invited[q.victim] # None
    /\ invited[q.victim].org = q.org
    /\ invited[q.victim].status = "pending"

Revoke(r) ==
    /\ At(r, "revoke")
    /\ MayRevoke(req[r])
    /\ invited' = [invited EXCEPT ![req[r].victim].status = "revoked"]
    /\ changed' = changed \cup {r}
    /\ Answered(r, [req[r] EXCEPT !.step = "audit"])
    /\ UNCHANGED <<clerk, role, wasAdmin, founder, audit>>

\* fetch_clerk_organization, before a change to an organisation named by path.
FetchOrganization(r) ==
    /\ At(r, "fetch")
    /\ clerk[req[r].org] = "live"
    /\ Goes(r, IF req[r].kind = "delete" THEN "delete" ELSE "invite")
    /\ UNCHANGED <<clerkVars, changed, audit, faults>>

\* Clerk takes memberships and pending invitations with the organisation.
DeleteOrganization(r) ==
    LET o == req[r].org IN
    /\ At(r, "delete")
    /\ clerk[o] = "live"
    /\ clerk' = [clerk EXCEPT ![o] = "deleted"]
    /\ role' = [role EXCEPT ![o] = [p \in People |-> "none"]]
    /\ founder' = [founder EXCEPT ![o] = None]
    /\ invited' = [i \in Requests |->
          IF invited[i] # None /\ invited[i].org = o /\ invited[i].status = "pending"
          THEN [invited[i] EXCEPT !.status = "gone"] ELSE invited[i]]
    /\ changed' = changed \cup {r}
    /\ Answered(r, [req[r] EXCEPT !.step = "audit"])
    /\ UNCHANGED <<wasAdmin, audit>>

\* remove_organization_membership: an answer sets the flag.
RemoveCreator(r) ==
    LET q == req[r] IN
    /\ At(r, "unseat")
    /\ Leaves(q.org, q.caller)
    /\ \/ req' = [req EXCEPT ![r] = [q EXCEPT !.step = "audit", !.removed = TRUE]]
          /\ UNCHANGED faults
       \/ Goes(r, "audit") /\ Fault
    /\ UNCHANGED <<clerk, wasAdmin, invited, changed, audit>>

-----------------------------------------------------------------------------
(* Calls that Clerk does not carry out *)

\* Clerk answers 4xx, because of what it knows.  It may always refuse to create one
\* more organisation, and to invite an address (a member already, invited already).
Refuses(q) ==
    \/ q.step \in {"fetch", "delete"} /\ clerk[q.org] # "live"
    \/ q.step \in {"create", "seed", "invite"}
    \/ q.step = "revoke" /\ ~MayRevoke(q)
    \/ q.step = "unseat" /\ ~IsMember(q.org, q.caller)

\* Seeded fault: a 404 on a revocation is taken for an invitation already revoked.
SeededAfterRefusal(q) ==
    IF q.step \in {"revoke", "unseat"} THEN "audit" ELSE "failed"

\* Seeded fault: a 404 on a deletion is taken for a deletion that was done.
SeededGoneIsDone(q) ==
    IF q.step = "unseat" \/ (q.step = "delete" /\ clerk[q.org] = "deleted")
    THEN "audit" ELSE "failed"

\* Only the removal of the creator swallows an error.
AfterRefusal(q) == IF q.step = "unseat" THEN "audit" ELSE "failed"

ClerkRefuses(r) ==
    /\ Refuses(req[r])
    /\ Goes(r, AfterRefusal(req[r]))
    /\ UNCHANGED <<clerkVars, changed, audit, faults>>

\* Seeded fault: only an answer that refuses the removal clears the flag.
SeededAfterOutage(q) == [q EXCEPT !.step = AfterRefusal(q), !.removed = q.step = "unseat"]

\* The call does not reach Clerk, or Clerk answers 5xx or 429.
AfterOutage(q) == [q EXCEPT !.step = AfterRefusal(q)]

ClerkUnavailable(r) ==
    /\ req[r].step \in {"create", "seed", "invite", "revoke", "fetch", "delete", "unseat"}
    /\ req' = [req EXCEPT ![r] = AfterOutage(req[r])]
    /\ Fault
    /\ UNCHANGED <<clerkVars, changed, audit>>

-----------------------------------------------------------------------------
(* The audit row *)

\* Seeded fault: the organisation is the one the request came with.
SeededAuditRow(q) ==
    [org |-> IF q.kind = "create" THEN None ELSE q.org,
     invitation |-> q.invitation, removed |-> q.removed]

\* What the payload says: the organisation, whether there is an invitation id, and
\* creator_membership_removed.
AuditRow(q) == [org |-> q.org, invitation |-> q.invitation, removed |-> q.removed]

Commit(r) ==
    /\ At(r, "audit")
    /\ audit' = [audit EXCEPT ![r] = AuditRow(req[r])]
    /\ Goes(r, "done")
    /\ UNCHANGED <<clerkVars, changed, faults>>

\* The database fails under the append or the commit.
CommitFails(r) ==
    /\ At(r, "audit")
    /\ Goes(r, "failed")
    /\ Fault
    /\ UNCHANGED <<clerkVars, changed, audit>>

-----------------------------------------------------------------------------
(* What happens in Clerk without these routers *)

\* Whoever reads the mail of the address accepts, a platform admin included: the
\* routers take any address.
Accept(i, p) ==
    /\ invited[i] # None
    /\ invited[i].status = "pending"
    /\ Joins(invited[i].org, p, invited[i].role)
    /\ invited' = [invited EXCEPT ![i].status = "accepted"]
    /\ UNCHANGED <<clerk, founder, req, changed, audit, faults>>

\* Clerk's dashboard adds a member.
MembershipBegins(o, p, granted) ==
    /\ clerk[o] = "live"
    /\ Joins(o, p, granted)
    /\ UNCHANGED <<clerk, founder, invited, req, changed, audit, faults>>

\* A member leaves, or is removed by another router or in Clerk's dashboard.
MembershipEnds(o, p) ==
    /\ Leaves(o, p)
    /\ UNCHANGED <<clerk, wasAdmin, invited, req, changed, audit, faults>>

-----------------------------------------------------------------------------
Step(r) ==
    \/ CreateOrganization(r) \/ Invite(r) \/ Revoke(r) \/ FetchOrganization(r)
    \/ DeleteOrganization(r) \/ RemoveCreator(r) \/ ClerkRefuses(r) \/ Commit(r)

Next ==
    \/ \E r \in Requests :
          \/ CreateOrg(r) \/ CreateInvitation(r) \/ RevokeInvitation(r)
          \/ InviteIntoOrg(r) \/ DeleteOrg(r)
          \/ Step(r) \/ ClerkUnavailable(r) \/ CommitFails(r)
    \/ \E i \in Requests, p \in People : Accept(i, p)
    \/ \E o \in Orgs, p \in OutOfBand :
          MembershipEnds(o, p) \/ \E granted \in Roles : MembershipBegins(o, p, granted)

Spec == Init /\ [][Next]_vars

\* A handler that runs goes on; nobody has to make a request or accept anything.
FairSpec == Spec /\ \A r \in Requests : WF_vars(Step(r))

-----------------------------------------------------------------------------
(* Properties *)

\* The type invariant.
TypeOK ==
    /\ clerk \in [AllOrgs -> {"unborn", "live", "deleted"}]
    /\ role \in [AllOrgs -> [People -> Roles \cup {"none"}]]
    /\ wasAdmin \in [AllOrgs -> SUBSET People]
    /\ founder \in [Orgs -> PlatformAdmins \cup {None}]
    /\ invited \in [Requests -> Invitations \cup {None}]
    /\ req \in [Requests -> Handlers]
    /\ changed \subseteq Requests
    /\ audit \in [Requests -> AuditRows \cup {None}]
    /\ faults \in 0 .. MaxFaults

\* What the audit row of r says is true when it is written and stays true, whatever
\* other requests and Clerk do: the organisation and the invitation it names exist;
\* the membership that the creation gave a creator recorded as removed has ended (an
\* invitation or the dashboard may give them another); a revoked invitation is never
\* accepted; in a deleted organisation nobody is left and no invitation waits.
RowIsTrue(r) ==
    LET q == req[r]  o == audit[r].org IN
    CASE q.kind = "create" ->
           /\ clerk[o] # "unborn"
           /\ audit[r].invitation <=> invited[r] # None
           /\ audit[r].removed => founder[o] # q.caller
      [] q.kind \in {"invite", "inviteInto"} ->
           invited[r] # None /\ invited[r].org = o
      [] q.kind = "revoke" ->
           /\ invited[q.victim] # None
           /\ invited[q.victim].org = o
           /\ invited[q.victim].status = "revoked"
      [] OTHER ->
           /\ clerk[o] = "deleted"
           /\ \A p \in People : role[o][p] = "none"
           /\ \A i \in Requests : invited[i] # None /\ invited[i].org = o
                                     => invited[i].status # "pending"

\* The audit trail never lies about Clerk (the appends at the end of every endpoint).
AuditTellsTheTruth == \A r \in Requests : audit[r] # None => RowIsTrue(r)

\* "Platform admins must not accumulate client-org memberships" (organizations.py:44),
\* as far as the code keeps it: a platform admin who sits in a client organisation
\* since they created it did so in a request that is still on its way to the removal,
\* that ended in an error, or whose audit row says that they were not removed.
CreatorsSitOnlyUnremoved ==
    \A o \in Orgs : founder[o] # None =>
        /\ IsMember(o, founder[o])
        /\ \E r \in Requests :
              /\ req[r].kind = "create" /\ req[r].org = o /\ req[r].caller = founder[o]
              /\ ~req[r].removed
              /\ At(r, "done") => audit[r] # None /\ ~audit[r].removed

\* The removal of the creator "runs unconditionally, regardless of whether a seed
\* invitation was created" (organizations.py:52-53): no creation that Clerk has
\* answered ends before it was tried.
RemovalRunsUnconditionally ==
    [][\A r \in Requests :
          req[r].kind = "create" /\ At(r, "seed") => req'[r].step # "failed"]_vars

\* Each request changes Clerk at most once before it records that, and records it
\* at most once.
Recorded == INSTANCE RecordedChange
    WITH Changes <- Requests, effected <- changed,
         recorded <- {r \in Requests : audit[r] # None}
ImplementsRecordedChange == Recorded!Spec

\* While no call or answer is lost and no commit fails, the membership that a creation
\* gives a platform admin ends, whoever else invites, revokes, removes or deletes
\* meanwhile, unless Clerk refuses the seed invitation and so ends the request.
CreatorsLeave ==
    [](faults = 0) =>
        \A o \in Orgs : founder[o] # None ~>
            \/ founder[o] = None
            \/ \E r \in Requests : /\ req[r].kind = "create" /\ req[r].org = o
                                   /\ req[r].offer # None /\ At(r, "failed")
=============================================================================
