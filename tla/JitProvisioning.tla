--------------------------- MODULE JitProvisioning ---------------------------
(***************************************************************************)
(* First logins.  Every authenticated request makes sure, before its       *)
(* handler runs, that the caller's rows exist:                             *)
(*  - get_db (product routes): the users row and, for a new organisation,  *)
(*    the organisation row, in the transaction that the handler uses too;  *)
(*  - get_admin_db (admin routes): the organisation row and the            *)
(*    clerk_admin_users row, in a transaction of their own that commits    *)
(*    before a second one is opened for the guard and the handler.         *)
(* Requests of one login race.  What orders them is PostgreSQL: a          *)
(* statement sees what is committed when it starts (READ COMMITTED) and    *)
(* what its own transaction wrote, as far as row-level security shows it,  *)
(* while the unique indexes see every row, and an INSERT or UPDATE waits   *)
(* for another open transaction that wrote the same key.                   *)
(*                                                                         *)
(* Left to AdminMembers: roles.  An admin request here carries a token     *)
(* that says admin, and there is no downgrade.                             *)
(***************************************************************************)
EXTENDS Naturals

CONSTANTS
    People, Orgs,   \* Clerk users, Clerk organisations
    Member,         \* the pairs <<p, o>> for which Clerk issues tokens
    Requests,       \* requests that arrive
    MaxFaults,      \* failures of Clerk or of a handler
    MaxRemovals,    \* removals of a member by an admin
    None            \* no row, no person, no organisation

Tables == {"users", "clerk_admin_users"}

ASSUME JitAssumption ==
    /\ Member \subseteq People \X Orgs
    /\ None \notin People \cup Orgs
    /\ MaxFaults \in Nat
    /\ MaxRemovals \in Nat

VARIABLES
    organisation,  \* the Clerk ids of the committed organisation rows
    home,          \* home[t][p]: the organisation of p's committed row in table t
    active,        \* active[t]: the people whose committed row in t is active
    req,           \* req[r]: where request r is, who calls, what it has written
    faults, removals

vars == <<organisation, home, active, req, faults, removals>>

Ended  == {"served", "unavailable", "raised", "rejected", "refused"}
Stages == {"new", "organisation", "clerk", "insertOrg", "reread", "identity",
           "insert", "reactivate", "grant", "provisioned", "guard", "handler"}
          \cup Ended

NoRequest == [pc |-> "new", person |-> None, org |-> None, table |-> "users", wrote |-> {}]

Init ==
    /\ organisation = {}
    /\ home = [t \in Tables |-> [p \in People |-> None]]
    /\ active = [t \in Tables |-> {}]
    /\ req = [r \in Requests |-> NoRequest]
    /\ faults = 0
    /\ removals = 0

(***************************************************************************)
(* What a statement of request r sees.                                     *)
(***************************************************************************)
\* The organisation row: committed, or inserted by r itself.
SeesOrg(r) == req[r].org \in organisation \/ "org" \in req[r].wrote

\* The caller's identity row, which row-level security shows to the scope of
\* its own organisation only.
SeesIdentity(r) ==
    \/ home[req[r].table][req[r].person] = req[r].org
    \/ "row" \in req[r].wrote

SeesActive(r) ==
    /\ SeesIdentity(r)
    /\ req[r].person \in active[req[r].table] \/ "row" \in req[r].wrote

\* The unique index on clerk_user_id knows a row of another tenant.
HiddenRow(r) ==
    home[req[r].table][req[r].person] \notin {None, req[r].org}

\* Another open transaction has written the organisation row, or p's row in t.
OrgLocked(r) ==
    \E s \in Requests \ {r} : req[s].org = req[r].org /\ "org" \in req[s].wrote
RowLocked(t, p) ==
    \E s \in Requests :
        req[s].table = t /\ req[s].person = p /\ "row" \in req[s].wrote

(***************************************************************************)
(* Steps of a request.                                                     *)
(***************************************************************************)
Goto(r, pc) == req' = [req EXCEPT ![r].pc = pc]
Write(r, what, pc) == req' = [req EXCEPT ![r].pc = pc, ![r].wrote = @ \cup {what}]
\* The transaction ends without a commit: what r wrote is gone.
Abandon(r, pc) == req' = [req EXCEPT ![r].pc = pc, ![r].wrote = {}]
\* The transaction of r commits.
Commit(r, pc) ==
    /\ organisation' = IF "org" \in req[r].wrote
                       THEN organisation \cup {req[r].org} ELSE organisation
    /\ IF "row" \in req[r].wrote
       THEN /\ home' = [home EXCEPT ![req[r].table][req[r].person] = req[r].org]
            /\ active' = [active EXCEPT ![req[r].table] = @ \cup {req[r].person}]
       ELSE UNCHANGED <<home, active>>
    /\ Abandon(r, pc)

committed == <<organisation, home, active>>
budgets   == <<faults, removals>>

\* A request with a valid token arrives.  get_db looks for the users row
\* first, get_admin_db for the organisation.
Arrive(r) ==
    /\ req[r].pc = "new"
    /\ \E m \in Member, t \in Tables :
           req' = [req EXCEPT ![r] =
                     [pc |-> IF t = "users" THEN "identity" ELSE "organisation",
                      person |-> m[1], org |-> m[2], table |-> t, wrote |-> {}]]
    /\ UNCHANGED <<committed, budgets>>

\* The caller's row is looked up.  A known, active caller needs nothing; a known,
\* inactive one is reactivated; for an unknown one, get_db turns to the
\* organisation and get_admin_db, which already has it, writes the row.
SeededReadIdentity(r) ==
    /\ req[r].pc = "identity"
    /\ Goto(r, IF req[r].table = "users"
               THEN IF ~SeesIdentity(r) /\ ~SeesOrg(r) THEN "organisation" ELSE "handler"
               ELSE IF SeesActive(r) THEN "provisioned" ELSE "grant")
    /\ UNCHANGED <<committed, budgets>>
ReadIdentity(r) ==
    /\ req[r].pc = "identity"
    /\ Goto(r, IF req[r].table = "users"
               THEN IF ~SeesIdentity(r) THEN "organisation"
                    ELSE IF SeesActive(r) THEN "handler" ELSE "reactivate"
               ELSE IF SeesActive(r) THEN "provisioned" ELSE "grant")
    /\ UNCHANGED <<committed, budgets>>

\* With the organisation at hand, what comes next.
SeededAfterOrg(r) == IF req[r].table = "users" THEN "upsert" ELSE "identity"
AfterOrg(r) == IF req[r].table = "users" THEN "insert" ELSE "identity"

ReadOrganisation(r) ==
    /\ req[r].pc = "organisation"
    /\ Goto(r, IF SeesOrg(r) THEN AfterOrg(r) ELSE "clerk")
    /\ UNCHANGED <<committed, budgets>>

\* An unknown organisation is fetched from Clerk, which may fail.
FetchOrganisation(r) ==
    /\ req[r].pc = "clerk"
    /\ Goto(r, "insertOrg")
    /\ UNCHANGED <<committed, budgets>>
ClerkUnavailable(r) ==
    /\ req[r].pc = "clerk"
    /\ faults < MaxFaults
    /\ faults' = faults + 1
    /\ Abandon(r, "unavailable")
    /\ UNCHANGED <<committed, removals>>

\* INSERT ... ON CONFLICT (clerk_org_id) DO NOTHING.
InsertOrganisation(r) ==
    /\ req[r].pc = "insertOrg"
    /\ ~OrgLocked(r)
    /\ IF req[r].org \in organisation THEN Goto(r, "reread") ELSE Write(r, "org", "reread")
    /\ UNCHANGED <<committed, budgets>>

\* The second look, which must find the row whoever inserted it.
RereadOrganisation(r) ==
    /\ req[r].pc = "reread"
    /\ IF SeesOrg(r) THEN Goto(r, AfterOrg(r)) ELSE Abandon(r, "rejected")
    /\ UNCHANGED <<committed, budgets>>

\* UserRepo.upsert: INSERT ... ON CONFLICT (clerk_user_id) DO NOTHING.
SeededInsertUser(r) ==
    /\ req[r].pc = "insert"
    /\ ~RowLocked("users", req[r].person)
    /\ IF home["users"][req[r].person] = None
       THEN Write(r, "row", "handler") ELSE Abandon(r, "rejected")
    /\ UNCHANGED <<committed, budgets>>
InsertUser(r) ==
    /\ req[r].pc = "insert"
    /\ ~RowLocked("users", req[r].person)
    /\ IF home["users"][req[r].person] = None
       THEN Write(r, "row", "handler") ELSE Goto(r, "handler")
    /\ UNCHANGED <<committed, budgets>>

\* UserRepo.reactivate: an UPDATE of the caller's own row.
Reactivate(r) ==
    /\ req[r].pc = "reactivate"
    /\ ~RowLocked("users", req[r].person)
    /\ Write(r, "row", "handler")
    /\ UNCHANGED <<committed, budgets>>

\* AdminUserRepo.reactivate_or_create: INSERT ... ON CONFLICT DO UPDATE.  The
\* update of a row that the policy hides is an error, not an update.
SeededGrantAdmin(r) ==
    /\ req[r].pc = "grant"
    /\ ~RowLocked("clerk_admin_users", req[r].person)
    /\ Write(r, "row", "provisioned")
    /\ UNCHANGED <<committed, budgets>>
GrantAdmin(r) ==
    /\ req[r].pc = "grant"
    /\ ~RowLocked("clerk_admin_users", req[r].person)
    /\ IF HiddenRow(r) THEN Abandon(r, "rejected") ELSE Write(r, "row", "provisioned")
    /\ UNCHANGED <<committed, budgets>>

\* get_admin_db commits the provisioning before the guard looks.
CommitProvisioning(r) ==
    /\ req[r].pc = "provisioned"
    /\ Commit(r, "guard")
    /\ UNCHANGED budgets
\* require_org_admin, in the second transaction.
Guard(r) ==
    /\ req[r].pc = "guard"
    /\ Goto(r, IF SeesActive(r) THEN "handler" ELSE "refused")
    /\ UNCHANGED <<committed, budgets>>

\* The handler returns and its transaction commits.
SeededHandlerReturns(r) ==
    /\ req[r].pc = "handler"
    /\ Abandon(r, "served")
    /\ UNCHANGED <<committed, budgets>>
HandlerReturns(r) ==
    /\ req[r].pc = "handler"
    /\ Commit(r, "served")
    /\ UNCHANGED budgets

\* The handler raises, and what it and get_db wrote is rolled back.  A handler
\* that asks who is calling raises whenever the row is not visible (the assert
\* of _actor); otherwise it is a failure of its own.
SeededHandlerRaises(r) ==
    /\ req[r].pc = "handler"
    /\ IF SeesIdentity(r) THEN faults < MaxFaults /\ faults' = faults + 1
                          ELSE UNCHANGED faults
    /\ Goto(r, "raised")
    /\ UNCHANGED <<committed, removals>>
HandlerRaises(r) ==
    /\ req[r].pc = "handler"
    /\ IF SeesIdentity(r) THEN faults < MaxFaults /\ faults' = faults + 1
                          ELSE UNCHANGED faults
    /\ Abandon(r, "raised")
    /\ UNCHANGED <<committed, removals>>

\* A member is removed, or an admin demoted: their row becomes inactive.
Remove(t, p) ==
    /\ p \in active[t]
    /\ ~RowLocked(t, p)
    /\ removals < MaxRemovals
    /\ removals' = removals + 1
    /\ active' = [active EXCEPT ![t] = @ \ {p}]
    /\ UNCHANGED <<organisation, home, req, faults>>

Provision(r) ==
    \/ ReadIdentity(r) \/ ReadOrganisation(r)
    \/ FetchOrganisation(r) \/ ClerkUnavailable(r)
    \/ InsertOrganisation(r) \/ RereadOrganisation(r)
    \/ InsertUser(r) \/ Reactivate(r) \/ GrantAdmin(r)
Handle(r) ==
    CommitProvisioning(r) \/ Guard(r) \/ HandlerReturns(r) \/ HandlerRaises(r)

Next ==
    \/ \E r \in Requests : Arrive(r) \/ Provision(r) \/ Handle(r)
    \/ \E t \in Tables, p \in People : Remove(t, p)

Spec == Init /\ [][Next]_vars
\* The event loop runs every request that has arrived; a request may never come.
FairSpec == Spec /\ \A r \in Requests : WF_vars(Provision(r) \/ Handle(r))

(***************************************************************************)
(* Properties.                                                             *)
(***************************************************************************)
TypeOK ==
    /\ organisation \subseteq Orgs
    /\ home \in [Tables -> [People -> Orgs \cup {None}]]
    /\ active \in [Tables -> SUBSET People]
    /\ req \in [Requests -> [pc : Stages, person : People \cup {None},
                             org : Orgs \cup {None}, table : Tables,
                             wrote : SUBSET {"org", "row"}]]
    /\ faults \in 0..MaxFaults
    /\ removals \in 0..MaxRemovals

\* Everybody but a person in two organisations.
InOneOrg(p) ==
    \A o1, o2 \in Orgs : <<p, o1>> \in Member /\ <<p, o2>> \in Member => o1 = o2

\* For a person in one organisation, the handler finds the caller's row, as the
\* handlers assert, whatever other requests of the same login do meanwhile.
HandlerFindsCaller ==
    \A r \in Requests :
        req[r].pc = "handler" /\ InOneOrg(req[r].person) => SeesIdentity(r)

\* Requests of one login that race for the same rows do not fail for it: the
\* request of a person in one organisation ends in an error only if Clerk or its
\* handler failed.
RacingLoginsDoNotCollide ==
    \A r \in Requests : req[r].pc = "rejected" => ~InOneOrg(req[r].person)

\* Whoever was served has a committed row in the organisation they came with.
ServedCallersAreKnown ==
    \A r \in Requests :
        req[r].pc = "served" /\ InOneOrg(req[r].person)
            => home[req[r].table][req[r].person] = req[r].org

\* What auth.py says of every token: the handler finds the caller's row.
TokenFindsRow ==
    \A r \in Requests : req[r].pc = "handler" => SeesIdentity(r)

\* No row of a person ever moves from one organisation to another.
RowsStayHome ==
    [][\A t \in Tables, p \in People : home[t][p] # None => home'[t][p] = home[t][p]]_vars

\* No request waits forever for another one's transaction.
RequestsEnd ==
    \A r \in Requests : req[r].pc # "new" ~> req[r].pc \in Ended
==============================================================================
