------------------------- MODULE OrgLifecycleProofs -------------------------
(***************************************************************************)
(* Proofs that the organisation routers keep their promises for every      *)
(* number of organisations, people, requests and failures: the audit trail *)
(* tells the truth about Clerk, a creator sits in a client organisation    *)
(* only as long as the code says, the platform organisation is out of      *)
(* reach, and every change is recorded at most once and never before it.   *)
(***************************************************************************)
EXTENDS OrgLifecycle, TLAPS

Asking == {"create", "fetch", "invite", "revoke", "delete"}

\* What a request knows at each step: what it was asked, and whether Clerk has
\* already changed something for it.
RequestOK(r) ==
    LET q == req[r] IN
    /\ q.step = "idle" => q = Idle
    /\ q.step \in Asking \cup {"idle"} =>
          /\ r \notin changed /\ invited[r] = None
          /\ ~q.invitation /\ ~q.removed
    /\ q.step \in {"seed", "unseat", "audit", "done"} => r \in changed
    /\ q.step \notin {"idle", "create", "failed"} => q.org \in AllOrgs
    /\ q.kind = "create" =>
          /\ q.caller \in PlatformAdmins
          /\ q.step \in {"create", "seed", "unseat", "audit", "done", "failed"}
          /\ q.org # None => q.org \in Orgs /\ clerk[q.org] # "unborn"
    /\ q.step \in {"create", "seed", "unseat"} => q.kind = "create" /\ ~q.removed
    /\ q.step = "create" => q.org = None
    /\ q.step = "seed" => invited[r] = None /\ ~q.invitation /\ q.offer \in Roles
    /\ q.step = "unseat" => (q.invitation <=> invited[r] # None)
    /\ q.step = "fetch" => q.kind \in {"inviteInto", "delete"}
    /\ q.kind \in {"inviteInto", "delete"} => q.org \in Orgs
    /\ q.step = "invite" => q.kind \in {"invite", "inviteInto"}
    /\ q.kind \in {"invite", "inviteInto"} => q.offer \in Roles
    /\ q.kind = "invite" => q.offer = "member" /\ q.step # "fetch"
    /\ q.step = "revoke" => q.kind = "revoke"
    /\ q.kind = "revoke" => q.victim \in Requests
    /\ q.step = "delete" => q.kind = "delete"
    /\ q.step # "idle" => q.kind \in Kinds
    /\ audit[r] = IF q.step = "done" THEN AuditRow(q) ELSE None

\* What the row that r is about to write, or has written, will say.
Told(r) ==
    LET q == req[r]  o == req[r].org IN
    /\ q.kind = "create" =>
          /\ q.invitation <=> invited[r] # None
          /\ q.removed => founder[o] # q.caller
    /\ q.kind \in {"invite", "inviteInto"} =>
          invited[r] # None /\ invited[r].org = o
    /\ q.kind = "revoke" =>
          /\ invited[q.victim] # None
          /\ invited[q.victim].org = o
          /\ invited[q.victim].status = "revoked"
    /\ q.kind = "delete" => clerk[o] = "deleted"

RequestInv == \A r \in Requests : RequestOK(r)

ToldInv == \A r \in Requests : req[r].step \in {"audit", "done"} => Told(r)

\* What Clerk keeps: nobody is in an organisation that does not exist, a deleted one
\* has no invitation waiting, and none to the platform makes an admin.
ClerkInv ==
    /\ \A o \in AllOrgs : clerk[o] # "live" =>
          /\ \A p \in People : role[o][p] = "none"
          /\ \A i \in Requests : invited[i] # None /\ invited[i].org = o
                                 => invited[i].status # "pending"
    /\ \A i \in Requests : invited[i] # None /\ invited[i].org = Platform
                           => invited[i].role = "member"

\* A platform admin who sits in a client organisation since they created it does so
\* by a creation that has not seen the removal.
SeatInv ==
    \A o \in Orgs : founder[o] # None =>
        /\ IsMember(o, founder[o])
        /\ \E r \in Requests : req[r].kind = "create" /\ req[r].org = o
                              /\ req[r].caller = founder[o] /\ ~req[r].removed

\* No sequence of calls to these routers deletes the platform organisation or makes
\* anybody its admin by invitation, with stale admins and members of it calling.
PlatformOutOfReach == clerk[Platform] = "live" /\ wasAdmin[Platform] = PlatformAdmins

IInv ==
    /\ TypeOK /\ RequestInv /\ ToldInv /\ ClerkInv /\ SeatInv
    /\ PlatformOutOfReach

-----------------------------------------------------------------------------
LEMMA InitInv == Init => IInv
<1> SUFFICES ASSUME Init PROVE IInv
  OBVIOUS
<1>1. TypeOK
  BY OrgAssumption DEF Init, TypeOK, Handlers, Idle, AllOrgs, People, Roles, Steps
<1>2. RequestInv /\ ToldInv
  BY OrgAssumption DEF Init, RequestInv, ToldInv, RequestOK, Idle, Asking, Kinds
<1>3. ClerkInv /\ SeatInv /\ PlatformOutOfReach
  BY OrgAssumption DEF Init, ClerkInv, SeatInv, PlatformOutOfReach, AllOrgs, People
<1> QED
  BY <1>1, <1>2, <1>3 DEF IInv

-----------------------------------------------------------------------------
(* What a step leaves alone *)

LEMMA RequestFrame ==
    ASSUME NEW s \in Requests, RequestOK(s),
           req'[s] = req[s], audit'[s] = audit[s],
           s \in changed' <=> s \in changed,
           invited'[s] = None <=> invited[s] = None,
           \A o \in Orgs : clerk[o] # "unborn" => clerk'[o] # "unborn"
    PROVE  RequestOK(s)'
BY DEF RequestOK, AuditRow

\* What is true of a recorded request stays true if organisations stay deleted,
\* invitations stay made and revoked, and nobody becomes a founder again.
LEMMA ToldFrame ==
    ASSUME NEW s \in Requests, RequestOK(s), Told(s),
           req'[s] = req[s], req[s].step \in {"audit", "done"},
           invited'[s] = None <=> invited[s] = None,
           \A i \in Requests : invited[i] # None =>
               /\ invited'[i] # None /\ invited'[i].org = invited[i].org
               /\ invited[i].status = "revoked" => invited'[i].status = "revoked",
           \A o \in AllOrgs : clerk[o] = "deleted" => clerk'[o] = "deleted",
           \A o \in Orgs : clerk[o] # "unborn" => founder'[o] \in {founder[o], None}
    PROVE  Told(s)'
<1>1. req[s].org \in AllOrgs
  BY DEF RequestOK
<1>2. req[s].kind = "create" => req[s].caller \in PlatformAdmins /\ req[s].org \in Orgs
                               /\ clerk[req[s].org] # "unborn"
  BY <1>1, OrgAssumption DEF RequestOK
<1>3. req[s].kind = "revoke" => req[s].victim \in Requests
  BY DEF RequestOK
<1>4. req[s].kind = "create" /\ req[s].removed => founder'[req[s].org] # req[s].caller
  BY <1>2, OrgAssumption DEF Told, People
<1> QED
  BY <1>1, <1>2, <1>3, <1>4 DEF Told

-----------------------------------------------------------------------------
(* One lemma for each group of actions *)

LEMMA ArriveInv ==
    ASSUME IInv, NEW r \in Requests, NEW kind \in Kinds, NEW p \in People,
           NEW o \in AllOrgs \cup {None}, NEW offer \in Roles \cup {None},
           NEW victim \in Requests \cup {None},
           Arrive(r, kind, p, o, offer, victim),
           kind = "create" <=> o = None,
           kind = "create" => p \in PlatformAdmins,
           kind \in {"inviteInto", "delete"} => o \in Orgs,
           kind \in {"invite", "inviteInto"} => offer \in Roles,
           kind = "invite" => offer = "member",
           kind = "revoke" => victim \in Requests
    PROVE  IInv'
<1> USE DEF IInv
<1>1. req[r].step = "idle" /\ req[r] = Idle
  BY DEF Arrive, At, RequestInv, RequestOK
<1>2. TypeOK'
  BY DEF TypeOK, Handlers, Arrive, clerkVars, Steps, Kinds
<1>3. RequestInv'
  <2> SUFFICES ASSUME NEW s \in Requests PROVE RequestOK(s)'
    BY DEF RequestInv
  <2>1. RequestOK(s) /\ RequestOK(r)
    BY DEF RequestInv
  <2>2. CASE s # r
    <3>1. UNCHANGED <<req[s], invited, changed, audit, clerk>>
      BY <2>2 DEF Arrive, clerkVars, TypeOK
    <3> QED
      BY <2>1, <3>1 DEF RequestOK, AuditRow
  <2>3. CASE s = r
    <3> DEFINE q == [step |-> CASE kind = "create" -> "create"
                                [] kind \in {"inviteInto", "delete"} -> "fetch"
                                [] OTHER -> kind,
                     kind |-> kind, caller |-> p, org |-> o, offer |-> offer,
                     victim |-> victim, invitation |-> FALSE, removed |-> FALSE]
    <3>1. req'[r] = q /\ UNCHANGED <<invited, changed, audit, clerk>>
      BY DEF Arrive, clerkVars, TypeOK
    <3>2. q.step \in Asking /\ q.kind = kind /\ q.org = o /\ q.caller = p
          /\ q.offer = offer /\ q.victim = victim /\ ~q.invitation /\ ~q.removed
          /\ (q.step = "create" <=> kind = "create")
          /\ (q.step = "fetch" <=> kind \in {"inviteInto", "delete"})
          /\ (q.step = "invite" <=> kind = "invite")
          /\ (q.step = "revoke" <=> kind = "revoke")
          /\ q.step # "delete"
      BY DEF Kinds, Asking
    <3>3. invited[r] = None /\ r \notin changed /\ audit[r] = None
      BY <1>1, <2>1 DEF RequestOK, Asking
    <3> HIDE DEF q
    <3> QED
      BY <2>3, <3>1, <3>2, <3>3, OrgAssumption DEF RequestOK, Asking, AllOrgs
  <2> QED
    BY <2>2, <2>3
<1>4. ToldInv'
  BY <1>1 DEF Arrive, clerkVars, TypeOK, ToldInv, Told
<1>5. SeatInv'
  <2>1. req[r].kind # "create"
    BY <1>1, OrgAssumption DEF Idle, Kinds
  <2>2. \A s \in Requests : s # r => req'[s] = req[s]
    BY DEF Arrive, TypeOK
  <2>3. UNCHANGED <<clerk, role, founder>>
    BY DEF Arrive, clerkVars
  <2> QED
    BY <2>1, <2>2, <2>3 DEF SeatInv, IsMember
<1>6. ClerkInv' /\ PlatformOutOfReach'
  BY DEF Arrive, clerkVars, ClerkInv, PlatformOutOfReach
<1> QED
  BY <1>2, <1>3, <1>4, <1>5, <1>6

LEMMA ArrivalsInv ==
    ASSUME IInv, NEW r \in Requests,
           \/ CreateOrg(r) \/ CreateInvitation(r) \/ RevokeInvitation(r)
           \/ InviteIntoOrg(r) \/ DeleteOrg(r)
    PROVE  IInv'
<1>1. \A o \in AllOrgs : wasAdmin[o] \subseteq People
  BY DEF IInv, TypeOK
<1>2. PlatformAdmins \subseteq People /\ None \notin AllOrgs /\ AllOrgs \ {Platform} \subseteq Orgs
  BY OrgAssumption DEF People, AllOrgs
<1>3. CASE CreateOrg(r)
  BY <1>2, <1>3, ArriveInv DEF CreateOrg, Kinds, Roles
<1>4. CASE CreateInvitation(r)
  BY <1>1, <1>2, <1>4, ArriveInv DEF CreateInvitation, OwnOffers, Kinds, Roles
<1>5. CASE RevokeInvitation(r)
  BY <1>1, <1>2, <1>5, ArriveInv DEF RevokeInvitation, Kinds
<1>6. CASE InviteIntoOrg(r)
  BY <1>2, <1>6, ArriveInv DEF InviteIntoOrg, MayTarget, Kinds
<1>7. CASE DeleteOrg(r)
  BY <1>2, <1>7, ArriveInv DEF DeleteOrg, MayTarget, Kinds
<1> QED
  BY <1>3, <1>4, <1>5, <1>6, <1>7

LEMMA CreateOrganizationInv ==
    ASSUME IInv, NEW r \in Requests, CreateOrganization(r)
    PROVE  IInv'
<1> USE DEF IInv
<1> PICK o \in Orgs :
      /\ clerk[o] = "unborn"
      /\ clerk' = [clerk EXCEPT ![o] = "live"]
      /\ role' = [role EXCEPT ![o][req[r].caller] = "admin"]
      /\ wasAdmin' = [wasAdmin EXCEPT ![o] = {req[r].caller}]
      /\ founder' = [founder EXCEPT ![o] = req[r].caller]
      /\ \/ /\ req' = [req EXCEPT ![r] = AfterCreate([req[r] EXCEPT !.org = o])]
            /\ UNCHANGED faults
         \/ /\ req' = [req EXCEPT ![r] = [[req[r] EXCEPT !.org = o] EXCEPT !.step = "failed"]]
            /\ Fault
  BY DEF CreateOrganization
<1> DEFINE q == req[r]
<1>1. /\ q.step = "create" /\ q.kind = "create" /\ q.caller \in PlatformAdmins
      /\ q.org = None /\ ~q.removed /\ ~q.invitation
      /\ r \notin changed /\ invited[r] = None /\ audit[r] = None
  BY DEF CreateOrganization, At, RequestInv, RequestOK, Asking
<1>2. /\ req'[r].step \in {"seed", "unseat", "failed"} /\ req'[r].kind = "create"
      /\ req'[r].caller = q.caller /\ req'[r].org = o /\ ~req'[r].removed
      /\ ~req'[r].invitation /\ req'[r].offer = q.offer
      /\ (req'[r].step = "seed" => q.offer # None)
      /\ \A s \in Requests : s # r => req'[s] = req[s]
      /\ req'[r] \in Handlers
  <2>1. q \in Handlers /\ o \in AllOrgs \cup {None}
    BY DEF TypeOK, AllOrgs
  <2>2. PICK step \in {"seed", "unseat", "failed"} :
           /\ step = "seed" => q.offer # None
           /\ req' = [req EXCEPT ![r] = [q EXCEPT !.org = o, !.step = step]]
    <3> DEFINE x == [q EXCEPT !.org = o]
    <3>1. x.offer = q.offer /\ \A step : [x EXCEPT !.step = step] = [q EXCEPT !.org = o, !.step = step]
      BY <2>1 DEF Handlers
    <3> HIDE DEF x
    <3> QED
      BY <3>1 DEF AfterCreate, x
  <2>3. req'[r] = [q EXCEPT !.org = o, !.step = step] /\ \A s \in Requests : s # r => req'[s] = req[s]
    BY <2>2 DEF TypeOK
  <2>4. /\ req'[r].step = step /\ req'[r].org = o /\ req'[r].kind = q.kind
        /\ req'[r].caller = q.caller /\ req'[r].offer = q.offer
        /\ req'[r].removed = q.removed /\ req'[r].invitation = q.invitation
    BY <2>1, <2>3 DEF Handlers
  <2>5. req'[r] \in Handlers
    BY <2>1, <2>3 DEF Handlers, Steps
  <2> QED
    BY <1>1, <2>2, <2>3, <2>4, <2>5
<1>3. /\ changed' = changed \cup {r} /\ UNCHANGED <<invited, audit>>
      /\ o \in AllOrgs /\ o # Platform /\ q.caller \in People
  BY <1>1, OrgAssumption DEF CreateOrganization, AllOrgs, People
<1>4. TypeOK'
  <2>1. req' \in [Requests -> Handlers]
    BY <1>2 DEF TypeOK
  <2>2. clerk' \in [AllOrgs -> {"unborn", "live", "deleted"}]
        /\ role' \in [AllOrgs -> [People -> Roles \cup {"none"}]]
        /\ wasAdmin' \in [AllOrgs -> SUBSET People] /\ faults' \in 0 .. MaxFaults
        /\ founder' \in [Orgs -> PlatformAdmins \cup {None}]
    BY <1>1, <1>3, OrgAssumption DEF TypeOK, Roles, Fault
  <2> QED
    BY <1>3, <2>1, <2>2 DEF TypeOK
<1>5. \A s \in Requests \ {r} : RequestOK(s)' /\ (req[s].step \in {"audit", "done"} => Told(s)')
  <2> SUFFICES ASSUME NEW s \in Requests \ {r}
               PROVE  RequestOK(s)' /\ (req[s].step \in {"audit", "done"} => Told(s)')
    OBVIOUS
  <2>1. /\ \A x \in AllOrgs : clerk[x] # "unborn" => clerk'[x] = clerk[x]
        /\ \A x \in Orgs : clerk[x] # "unborn" => founder'[x] = founder[x]
    BY DEF TypeOK
  <2>2. RequestOK(s)'
    BY <1>2, <1>3, <2>1, RequestFrame DEF RequestInv, AllOrgs
  <2>3. ASSUME req[s].step \in {"audit", "done"} PROVE Told(s)'
    BY <1>2, <1>3, <2>1, <2>3, ToldFrame DEF RequestInv, ToldInv, AllOrgs, TypeOK
  <2> QED
    BY <2>2, <2>3
<1>6. RequestOK(r)'
  <2>1. clerk'[o] = "live" /\ audit'[r] = None /\ r \in changed' /\ invited'[r] = None
    BY <1>1, <1>3 DEF TypeOK
  <2>2. req'[r].step = "seed" => q.offer \in Roles
    BY <1>2 DEF TypeOK, Handlers
  <2> QED
    BY <1>1, <1>2, <1>3, <2>1, <2>2 DEF RequestOK, Asking, Kinds
<1>7. RequestInv' /\ ToldInv'
  BY <1>2, <1>5, <1>6 DEF RequestInv, ToldInv
<1>8. ClerkInv' /\ PlatformOutOfReach'
  BY <1>3 DEF ClerkInv, PlatformOutOfReach, TypeOK, AllOrgs
<1>9. SeatInv'
  <2> SUFFICES ASSUME NEW x \in Orgs, founder'[x] # None
               PROVE  /\ IsMember(x, founder[x])'
                      /\ \E s \in Requests : req'[s].kind = "create" /\ req'[s].org = x
                              /\ req'[s].caller = founder'[x] /\ ~req'[s].removed
    BY DEF SeatInv, IsMember
  <2>1. CASE x = o
    BY <1>2, <1>3, <2>1 DEF TypeOK, IsMember
  <2>2. CASE x # o
    <3>1. /\ founder'[x] = founder[x] /\ clerk'[x] = clerk[x] /\ role'[x] = role[x]
      BY <1>3, <2>2 DEF TypeOK, AllOrgs
    <3>2. PICK s \in Requests : req[s].kind = "create" /\ req[s].org = x
                                /\ req[s].caller = founder[x] /\ ~req[s].removed
      BY <3>1 DEF SeatInv
    <3>3. s # r
      BY <1>1, <3>2, OrgAssumption DEF AllOrgs
    <3>4. IsMember(x, founder[x])
      BY <3>1 DEF SeatInv
    <3> QED
      BY <1>2, <3>1, <3>2, <3>3, <3>4 DEF IsMember
  <2> QED
    BY <2>1, <2>2
<1> QED
  BY <1>4, <1>7, <1>8, <1>9

\* Request r goes to a step, with what it holds of Clerk's answers, and nothing else
\* of it or of other requests changes.
Becomes(r, step, invitation, removed) ==
    /\ req' \in [Requests -> Handlers]
    /\ \A s \in Requests : s # r => req'[s] = req[s]
    /\ req'[r].step = step /\ req'[r].invitation = invitation
    /\ req'[r].removed = removed
    /\ req'[r].kind = req[r].kind /\ req'[r].caller = req[r].caller
    /\ req'[r].org = req[r].org /\ req'[r].offer = req[r].offer
    /\ req'[r].victim = req[r].victim

LEMMA Becoming ==
    ASSUME TypeOK, NEW r \in Requests, NEW x \in Handlers,
           x.kind = req[r].kind, x.caller = req[r].caller, x.org = req[r].org,
           x.offer = req[r].offer, x.victim = req[r].victim,
           req' = [req EXCEPT ![r] = x]
    PROVE  Becomes(r, x.step, x.invitation, x.removed)
BY DEF Becomes, TypeOK

LEMMA Going ==
    ASSUME TypeOK, NEW r \in Requests, NEW step \in Steps, Goes(r, step)
    PROVE  Becomes(r, step, req[r].invitation, req[r].removed)
<1> DEFINE x == [req[r] EXCEPT !.step = step]
<1>1. req[r] \in Handlers
  BY DEF TypeOK
<1>2. /\ x \in Handlers /\ x.step = step
      /\ x.invitation = req[r].invitation /\ x.removed = req[r].removed
      /\ x.kind = req[r].kind /\ x.caller = req[r].caller /\ x.org = req[r].org
      /\ x.offer = req[r].offer /\ x.victim = req[r].victim
  BY <1>1 DEF Handlers
<1>3. req' = [req EXCEPT ![r] = x]
  BY DEF Goes
<1> HIDE DEF x
<1> QED
  BY <1>2, <1>3, Becoming

\* A step that only moves one request on.
LEMMA MoveInv ==
    ASSUME IInv, NEW r \in Requests, NEW step \in Steps,
           Becomes(r, step, req[r].invitation, req[r].removed),
           UNCHANGED <<clerkVars, changed, audit>>, faults' \in 0 .. MaxFaults,
           \/ step = "failed" /\ req[r].step \notin {"idle", "done"}
           \/ step = "audit" /\ req[r].step = "unseat"
           \/ req[r].step = "fetch" /\
              step = IF req[r].kind = "delete" THEN "delete" ELSE "invite"
    PROVE  IInv'
<1> USE DEF IInv
<1>1. TypeOK'
  BY DEF TypeOK, Becomes, clerkVars
<1>2. RequestInv'
  <2> SUFFICES ASSUME NEW s \in Requests PROVE RequestOK(s)'
    BY DEF RequestInv
  <2>1. CASE s # r
    BY <2>1, RequestFrame DEF RequestInv, Becomes, clerkVars
  <2>2. CASE s = r
    <3>1. RequestOK(r)
      BY DEF RequestInv
    <3> QED
      BY <2>2, <3>1 DEF RequestOK, Becomes, clerkVars, Asking, Kinds
  <2> QED
    BY <2>1, <2>2
<1>3. ToldInv'
  <2> SUFFICES ASSUME NEW s \in Requests, req'[s].step \in {"audit", "done"}
               PROVE  Told(s)'
    BY DEF ToldInv
  <2>1. CASE s # r
    BY <2>1 DEF ToldInv, Told, Becomes, clerkVars
  <2>2. CASE s = r
    BY <2>2 DEF RequestInv, RequestOK, Told, Becomes, clerkVars, Kinds
  <2> QED
    BY <2>1, <2>2
<1>4. SeatInv' /\ ClerkInv' /\ PlatformOutOfReach'
  BY DEF SeatInv, IsMember, ClerkInv, PlatformOutOfReach, Becomes, clerkVars
<1> QED
  BY <1>1, <1>2, <1>3, <1>4

LEMMA NoChangeInv ==
    ASSUME IInv, NEW r \in Requests,
           \/ FetchOrganization(r) \/ ClerkRefuses(r)
           \/ ClerkUnavailable(r) \/ CommitFails(r)
    PROVE  IInv'
<1>1. TypeOK
  BY DEF IInv
<1>2. faults' = faults \/ Fault => faults' \in 0 .. MaxFaults
  BY <1>1, OrgAssumption DEF TypeOK, Fault
<1>3. CASE FetchOrganization(r)
  BY <1>1, <1>2, <1>3, Going, MoveInv DEF FetchOrganization, At, Steps
<1>4. CASE ClerkRefuses(r)
  BY <1>1, <1>2, <1>4, Going, MoveInv DEF ClerkRefuses, Refuses, AfterRefusal, Steps
<1>5. CASE ClerkUnavailable(r)
  <2>1. Goes(r, AfterRefusal(req[r]))
    BY <1>1, <1>5 DEF ClerkUnavailable, AfterOutage, Goes, TypeOK
  <2> QED
    BY <1>1, <1>2, <1>5, <2>1, Going, MoveInv DEF ClerkUnavailable, AfterRefusal, Steps
<1>6. CASE CommitFails(r)
  BY <1>1, <1>2, <1>6, Going, MoveInv DEF CommitFails, At, Steps
<1> QED
  BY <1>3, <1>4, <1>5, <1>6

LEMMA CommitInv ==
    ASSUME IInv, NEW r \in Requests, Commit(r)
    PROVE  IInv'
<1> USE DEF IInv
<1>1. /\ req[r].step = "audit" /\ audit' = [audit EXCEPT ![r] = AuditRow(req[r])]
      /\ Becomes(r, "done", req[r].invitation, req[r].removed)
      /\ UNCHANGED <<clerkVars, changed, faults>>
  BY Going DEF Commit, At, Steps
<1>2. RequestOK(r) /\ Told(r)
  BY <1>1 DEF RequestInv, ToldInv
<1>3. TypeOK'
  <2>1. AuditRow(req[r]) \in AuditRows
    BY <1>1, <1>2 DEF TypeOK, Handlers, RequestOK, AuditRow, AuditRows
  <2> QED
    BY <1>1, <2>1 DEF TypeOK, Becomes, clerkVars
<1>4. RequestInv'
  <2> SUFFICES ASSUME NEW s \in Requests PROVE RequestOK(s)'
    BY DEF RequestInv
  <2>1. CASE s # r
    BY <1>1, <2>1, RequestFrame DEF RequestInv, Becomes, clerkVars, TypeOK
  <2>2. CASE s = r
    <3>1. audit'[r] = AuditRow(req'[r])
      BY <1>1 DEF TypeOK, AuditRow, Becomes
    <3> QED
      BY <1>1, <1>2, <2>2, <3>1 DEF RequestOK, Becomes, clerkVars, Asking, Kinds
  <2> QED
    BY <2>1, <2>2
<1>5. ToldInv'
  BY <1>1, <1>2 DEF ToldInv, Told, Becomes, clerkVars
<1>6. SeatInv' /\ ClerkInv' /\ PlatformOutOfReach'
  BY <1>1 DEF SeatInv, IsMember, ClerkInv, PlatformOutOfReach, Becomes, clerkVars
<1> QED
  BY <1>3, <1>4, <1>5, <1>6

LEMMA Answering ==
    ASSUME TypeOK, NEW r \in Requests, NEW x \in Handlers,
           x.kind = req[r].kind, x.caller = req[r].caller, x.org = req[r].org,
           x.offer = req[r].offer, x.victim = req[r].victim,
           Answered(r, x)
    PROVE  /\ faults' \in 0 .. MaxFaults
           /\ \/ Becomes(r, x.step, x.invitation, x.removed)
              \/ Becomes(r, "failed", req[r].invitation, req[r].removed)
<1>1. CASE req' = [req EXCEPT ![r] = x] /\ UNCHANGED faults
  BY <1>1, Becoming DEF TypeOK
<1>2. CASE Goes(r, "failed") /\ Fault
  BY <1>2, Going, OrgAssumption DEF TypeOK, Fault, Steps
<1> QED
  BY <1>1, <1>2 DEF Answered

\* The handler of an endpoint with one change goes on to its audit row.
LEMMA AuditNext ==
    ASSUME TypeOK, NEW r \in Requests, Answered(r, [req[r] EXCEPT !.step = "audit"])
    PROVE  /\ faults' \in 0 .. MaxFaults
           /\ \E step \in {"audit", "failed"} :
                 Becomes(r, step, req[r].invitation, req[r].removed)
<1> DEFINE x == [req[r] EXCEPT !.step = "audit"]
<1>1. req[r] \in Handlers
  BY DEF TypeOK
<1>2. /\ x \in Handlers /\ x.step = "audit"
      /\ x.invitation = req[r].invitation /\ x.removed = req[r].removed
      /\ x.kind = req[r].kind /\ x.caller = req[r].caller /\ x.org = req[r].org
      /\ x.offer = req[r].offer /\ x.victim = req[r].victim
  BY <1>1 DEF Handlers, Steps
<1>3. Answered(r, x)
  OBVIOUS
<1> HIDE DEF x
<1> QED
  BY <1>2, <1>3, Answering

LEMMA InviteInv ==
    ASSUME IInv, NEW r \in Requests, Invite(r)
    PROVE  IInv'
<1> USE DEF IInv
<1> DEFINE q == req[r]
           next == IF q.step = "seed" THEN "unseat" ELSE "audit"
           x == [q EXCEPT !.invitation = TRUE, !.step = next]
           i == [org |-> q.org, role |-> q.offer, status |-> "pending"]
<1>1. /\ q.step \in {"seed", "invite"} /\ MayInvite(q)
      /\ invited' = [invited EXCEPT ![r] = i]
      /\ changed' = changed \cup {r}
      /\ Answered(r, x)
      /\ UNCHANGED <<clerk, role, wasAdmin, founder, audit>>
  BY DEF Invite
<1>2. RequestOK(r) /\ q \in Handlers
  BY DEF RequestInv, TypeOK
<1>3. faults' \in 0 .. MaxFaults /\ (Becomes(r, next, TRUE, q.removed)
                                     \/ Becomes(r, "failed", q.invitation, q.removed))
  <2>1. /\ x \in Handlers /\ x.step = next /\ x.invitation = TRUE /\ x.removed = q.removed
        /\ x.kind = q.kind /\ x.caller = q.caller /\ x.org = q.org
        /\ x.offer = q.offer /\ x.victim = q.victim
    BY <1>2 DEF Handlers, Steps
  <2> HIDE DEF x
  <2> QED
    BY <1>1, <2>1, Answering
<1>4. /\ q.org \in AllOrgs /\ q.offer \in Roles /\ invited[r] = None
      /\ q.kind \in {"create", "invite", "inviteInto"}
      /\ (q.kind = "create" <=> q.step = "seed")
      /\ clerk[q.org] = "live" /\ audit[r] = None
  <2>1. q.org \in AllOrgs /\ q.offer \in Roles /\ invited[r] = None /\ audit[r] = None
        /\ q.kind \in {"create", "invite", "inviteInto"}
        /\ (q.kind = "create" <=> q.step = "seed")
    BY <1>1, <1>2 DEF RequestOK, Asking
  <2> QED
    BY <1>1, <2>1 DEF MayInvite, IsMember
<1>5. i \in Invitations /\ i.org = q.org /\ i.role = q.offer /\ i.status = "pending" /\ i # None
  BY <1>4, OrgAssumption DEF Invitations
<1> HIDE DEF i, x
<1>6. TypeOK'
  BY <1>1, <1>3, <1>5 DEF TypeOK, Becomes
<1>7. invited'[r] = i /\ \A s \in Requests : s # r => invited'[s] = invited[s]
  BY <1>1 DEF TypeOK
<1>8. \A s \in Requests \ {r} : RequestOK(s)' /\ (req[s].step \in {"audit", "done"} => Told(s)')
  <2> SUFFICES ASSUME NEW s \in Requests \ {r}
               PROVE  RequestOK(s)' /\ (req[s].step \in {"audit", "done"} => Told(s)')
    OBVIOUS
  <2>1. RequestOK(s) /\ req'[s] = req[s] /\ audit'[s] = audit[s] /\ (s \in changed' <=> s \in changed)
    BY <1>1, <1>3 DEF RequestInv, Becomes
  <2>2. RequestOK(s)'
    BY <1>1, <1>7, <2>1, RequestFrame
  <2>3. ASSUME req[s].step \in {"audit", "done"} PROVE Told(s)'
    <3>1. \A j \in Requests : invited[j] # None => invited'[j] = invited[j]
      BY <1>4, <1>7
    <3>2. Told(s)
      BY <2>3 DEF ToldInv
    <3> QED
      BY <1>1, <1>7, <2>1, <2>3, <3>1, <3>2, ToldFrame
  <2> QED
    BY <2>2, <2>3
<1>9. RequestOK(r)' /\ (req'[r].step \in {"audit", "done"} => Told(r)')
  <2>1. /\ req'[r].step \in {next, "failed"} /\ req'[r].removed = q.removed
        /\ (req'[r].step = next => req'[r].invitation = TRUE)
        /\ req'[r].kind = q.kind /\ req'[r].caller = q.caller
        /\ req'[r].org = q.org /\ req'[r].offer = q.offer /\ req'[r].victim = q.victim
    BY <1>3 DEF Becomes
  <2>2. r \in changed' /\ audit'[r] = None /\ clerk' = clerk /\ invited'[r] # None
        /\ invited'[r].org = q.org
    BY <1>1, <1>4, <1>5, <1>7
  <2>3. next \in {"unseat", "audit"} /\ (next = "unseat" <=> q.kind = "create")
    BY <1>4
  <2> HIDE DEF next
  <2>4. RequestOK(r)'
    BY <1>2, <1>4, <2>1, <2>2, <2>3 DEF RequestOK, Asking, Kinds
  <2>5. ASSUME req'[r].step \in {"audit", "done"} PROVE Told(r)'
    BY <1>4, <2>1, <2>2, <2>3, <2>5 DEF Told
  <2> QED
    BY <2>4, <2>5
<1>10. RequestInv' /\ ToldInv'
  <2>1. \A s \in Requests \ {r} : req'[s] = req[s]
    BY <1>3 DEF Becomes
  <2> QED
    BY <1>8, <1>9, <2>1 DEF RequestInv, ToldInv
<1>11. SeatInv'
  BY <1>1, <1>3 DEF SeatInv, IsMember, Becomes
<1>12. ClerkInv' /\ PlatformOutOfReach'
  <2>1. q.org = Platform => q.offer = "member"
    <3>1. CASE q.kind = "create"
      BY <1>2, <1>4, <3>1, OrgAssumption DEF RequestOK, AllOrgs
    <3>2. CASE q.kind # "create"
      BY <1>2, <1>4, <3>2, OrgAssumption DEF RequestOK
    <3> QED
      BY <3>1, <3>2
  <2> QED
    BY <1>1, <1>4, <1>5, <1>7, <2>1 DEF ClerkInv, PlatformOutOfReach
<1> QED
  BY <1>6, <1>10, <1>11, <1>12

LEMMA RevokeInv ==
    ASSUME IInv, NEW r \in Requests, Revoke(r)
    PROVE  IInv'
<1> USE DEF IInv
<1> DEFINE q == req[r]  v == req[r].victim
<1>1. /\ q.step = "revoke" /\ MayRevoke(q)
      /\ invited' = [invited EXCEPT ![v].status = "revoked"]
      /\ changed' = changed \cup {r}
      /\ UNCHANGED <<clerk, role, wasAdmin, founder, audit>>
  BY DEF Revoke, At
<1>2. RequestOK(r) /\ q.kind = "revoke" /\ v \in Requests
  BY <1>1 DEF RequestInv, RequestOK
<1>3. faults' \in 0 .. MaxFaults
  BY AuditNext DEF Revoke
<1>4. PICK step \in {"audit", "failed"} : Becomes(r, step, q.invitation, q.removed)
  BY AuditNext DEF Revoke
<1>5. /\ invited[v] # None /\ invited[v] \in Invitations /\ invited[v].org = q.org
      /\ invited[v].status = "pending" /\ audit[r] = None
  BY <1>1, <1>2 DEF MayRevoke, TypeOK, RequestOK
<1>6. /\ invited'[v] \in Invitations /\ invited'[v] # None
      /\ invited'[v].org = invited[v].org /\ invited'[v].role = invited[v].role
      /\ invited'[v].status = "revoked"
      /\ \A s \in Requests : s # v => invited'[s] = invited[s]
  <2>1. invited'[v] = [invited[v] EXCEPT !.status = "revoked"]
        /\ \A s \in Requests : s # v => invited'[s] = invited[s]
    BY <1>1, <1>2 DEF TypeOK
  <2> QED
    BY <1>5, <2>1, OrgAssumption DEF Invitations
<1>7. TypeOK'
  BY <1>1, <1>3, <1>4, <1>6 DEF TypeOK, Becomes
<1>8. \A s \in Requests \ {r} : RequestOK(s)' /\ (req[s].step \in {"audit", "done"} => Told(s)')
  <2> SUFFICES ASSUME NEW s \in Requests \ {r}
               PROVE  RequestOK(s)' /\ (req[s].step \in {"audit", "done"} => Told(s)')
    OBVIOUS
  <2>1. RequestOK(s) /\ req'[s] = req[s] /\ audit'[s] = audit[s] /\ (s \in changed' <=> s \in changed)
    BY <1>1, <1>4 DEF RequestInv, Becomes
  <2>2. RequestOK(s)'
    BY <1>1, <1>5, <1>6, <2>1, RequestFrame
  <2>3. ASSUME req[s].step \in {"audit", "done"} PROVE Told(s)'
    <3>1. Told(s)
      BY <2>3 DEF ToldInv
    <3> QED
      BY <1>1, <1>5, <1>6, <2>1, <2>3, <3>1, ToldFrame
  <2> QED
    BY <2>2, <2>3
<1>9. RequestOK(r)' /\ (req'[r].step \in {"audit", "done"} => Told(r)')
  <2>1. RequestOK(r)'
    BY <1>1, <1>2, <1>4, <1>5, <1>6 DEF RequestOK, Becomes, Asking, Kinds
  <2>2. Told(r)'
    BY <1>2, <1>4, <1>5, <1>6 DEF Told, Becomes
  <2> QED
    BY <2>1, <2>2
<1>10. RequestInv' /\ ToldInv'
  BY <1>4, <1>8, <1>9 DEF RequestInv, ToldInv, Becomes
<1>11. SeatInv' /\ ClerkInv' /\ PlatformOutOfReach'
  BY <1>1, <1>4, <1>5, <1>6 DEF SeatInv, IsMember, ClerkInv, PlatformOutOfReach, Becomes
<1> QED
  BY <1>7, <1>10, <1>11

LEMMA DeleteInv ==
    ASSUME IInv, NEW r \in Requests, DeleteOrganization(r)
    PROVE  IInv'
<1> USE DEF IInv
<1> DEFINE q == req[r]  o == req[r].org
<1>1. /\ q.step = "delete" /\ clerk[o] = "live"
      /\ clerk' = [clerk EXCEPT ![o] = "deleted"]
      /\ role' = [role EXCEPT ![o] = [p \in People |-> "none"]]
      /\ founder' = [founder EXCEPT ![o] = None]
      /\ invited' = [i \in Requests |->
            IF invited[i] # None /\ invited[i].org = o /\ invited[i].status = "pending"
            THEN [invited[i] EXCEPT !.status = "gone"] ELSE invited[i]]
      /\ changed' = changed \cup {r}
      /\ UNCHANGED <<wasAdmin, audit>>
  BY DEF DeleteOrganization, At
<1>2. RequestOK(r) /\ q.kind = "delete" /\ o \in Orgs /\ o \in AllOrgs /\ o # Platform
      /\ audit[r] = None
  BY <1>1, OrgAssumption DEF RequestInv, RequestOK, AllOrgs
<1>3. faults' \in 0 .. MaxFaults
  BY AuditNext DEF DeleteOrganization
<1>4. PICK step \in {"audit", "failed"} : Becomes(r, step, q.invitation, q.removed)
  BY AuditNext DEF DeleteOrganization
<1>5. \A i \in Requests :
        \/ invited[i] = None /\ invited'[i] = None
        \/ /\ invited'[i] \in Invitations /\ invited'[i] # None
           /\ invited[i] \in Invitations /\ invited[i] # None
           /\ invited'[i].org = invited[i].org /\ invited'[i].role = invited[i].role
           /\ \/ invited[i].org = o /\ invited[i].status = "pending"
                 /\ invited'[i].status = "gone"
              \/ ~(invited[i].org = o /\ invited[i].status = "pending")
                 /\ invited'[i].status = invited[i].status
  <2> SUFFICES ASSUME NEW i \in Requests, invited[i] # None
               PROVE  /\ invited'[i] \in Invitations /\ invited'[i] # None
                      /\ invited[i] \in Invitations
                      /\ invited'[i].org = invited[i].org /\ invited'[i].role = invited[i].role
                      /\ \/ invited[i].org = o /\ invited[i].status = "pending"
                            /\ invited'[i].status = "gone"
                         \/ ~(invited[i].org = o /\ invited[i].status = "pending")
                            /\ invited'[i].status = invited[i].status
    BY <1>1
  <2>1. invited[i] \in Invitations
    BY DEF TypeOK
  <2>2. CASE invited[i].org = o /\ invited[i].status = "pending"
    <3>1. invited'[i] = [invited[i] EXCEPT !.status = "gone"]
      BY <1>1, <2>2
    <3> QED
      BY <2>1, <2>2, <3>1, OrgAssumption DEF Invitations
  <2>3. CASE ~(invited[i].org = o /\ invited[i].status = "pending")
    <3>1. invited'[i] = invited[i]
      BY <1>1, <2>3
    <3> QED
      BY <2>1, <2>3, <3>1
  <2> QED
    BY <2>2, <2>3
<1>6. /\ clerk'[o] = "deleted" /\ role'[o] = [p \in People |-> "none"]
      /\ \A x \in AllOrgs : x # o => clerk'[x] = clerk[x] /\ role'[x] = role[x]
      /\ \A x \in Orgs : founder'[x] = IF x = o THEN None ELSE founder[x]
      /\ founder' \in [Orgs -> PlatformAdmins \cup {None}]
  BY <1>1, <1>2 DEF TypeOK
<1>7. TypeOK'
  <2>1. invited' \in [Requests -> Invitations \cup {None}]
    BY <1>1, <1>5
  <2>2. role' \in [AllOrgs -> [People -> Roles \cup {"none"}]]
    BY <1>1 DEF TypeOK
  <2> QED
    BY <1>1, <1>3, <1>4, <1>6, <2>1, <2>2 DEF TypeOK, Becomes
<1>8. \A s \in Requests \ {r} : RequestOK(s)' /\ (req[s].step \in {"audit", "done"} => Told(s)')
  <2> SUFFICES ASSUME NEW s \in Requests \ {r}
               PROVE  RequestOK(s)' /\ (req[s].step \in {"audit", "done"} => Told(s)')
    OBVIOUS
  <2>1. RequestOK(s) /\ req'[s] = req[s] /\ audit'[s] = audit[s] /\ (s \in changed' <=> s \in changed)
    BY <1>1, <1>4 DEF RequestInv, Becomes
  <2>2. RequestOK(s)'
    BY <1>2, <1>5, <1>6, <2>1, RequestFrame DEF AllOrgs
  <2>3. ASSUME req[s].step \in {"audit", "done"} PROVE Told(s)'
    <3>1. Told(s)
      BY <2>3 DEF ToldInv
    <3>2. \A i \in Requests : invited[i] # None =>
             /\ invited'[i] # None /\ invited'[i].org = invited[i].org
             /\ invited[i].status = "revoked" => invited'[i].status = "revoked"
      BY <1>5
    <3>3. \A x \in Orgs : founder'[x] \in {founder[x], None}
      BY <1>6
    <3> QED
      BY <1>5, <1>6, <2>1, <2>3, <3>1, <3>2, <3>3, ToldFrame
  <2> QED
    BY <2>2, <2>3
<1>9. RequestOK(r)' /\ Told(r)'
  <2>1. RequestOK(r)'
    BY <1>1, <1>2, <1>4, <1>5, <1>6 DEF RequestOK, Becomes, Asking, Kinds
  <2>2. Told(r)'
    BY <1>2, <1>4, <1>6 DEF Told, Becomes
  <2> QED
    BY <2>1, <2>2
<1>10. RequestInv' /\ ToldInv'
  BY <1>4, <1>8, <1>9 DEF RequestInv, ToldInv, Becomes
<1>11. SeatInv'
  <2> SUFFICES ASSUME NEW x \in Orgs, founder'[x] # None
               PROVE  /\ IsMember(x, founder[x])'
                      /\ \E s \in Requests : req'[s].kind = "create" /\ req'[s].org = x
                              /\ req'[s].caller = founder'[x] /\ ~req'[s].removed
    BY DEF SeatInv, IsMember
  <2>1. x # o /\ founder'[x] = founder[x] /\ clerk'[x] = clerk[x] /\ role'[x] = role[x]
    BY <1>6 DEF AllOrgs
  <2>2. /\ IsMember(x, founder[x])
        /\ \E s \in Requests : req[s].kind = "create" /\ req[s].org = x
                              /\ req[s].caller = founder[x] /\ ~req[s].removed
    BY <2>1 DEF SeatInv
  <2> QED
    BY <1>4, <2>1, <2>2 DEF Becomes, IsMember
<1>12. ClerkInv'
  <2>1. \A x \in AllOrgs : clerk'[x] # "live" => \A p \in People : role'[x][p] = "none"
    BY <1>6 DEF ClerkInv
  <2>2. \A x \in AllOrgs : clerk'[x] # "live" =>
            \A i \in Requests : invited'[i] # None /\ invited'[i].org = x
                                => invited'[i].status # "pending"
    BY <1>5, <1>6 DEF ClerkInv
  <2>3. \A i \in Requests : invited'[i] # None /\ invited'[i].org = Platform
                            => invited'[i].role = "member"
    BY <1>5 DEF ClerkInv
  <2> QED
    BY <2>1, <2>2, <2>3 DEF ClerkInv
<1>13. PlatformOutOfReach'
  BY <1>1, <1>2, <1>6 DEF PlatformOutOfReach, AllOrgs
<1> QED
  BY <1>7, <1>10, <1>11, <1>12, <1>13

LEMMA RemoveCreatorInv ==
    ASSUME IInv, NEW r \in Requests, RemoveCreator(r)
    PROVE  IInv'
<1> USE DEF IInv
<1> DEFINE q == req[r]  o == req[r].org  p == req[r].caller
<1>1. /\ q.step = "unseat" /\ IsMember(o, p)
      /\ role' = [role EXCEPT ![o][p] = "none"]
      /\ founder' = [founder EXCEPT ![o] = IF @ = p THEN None ELSE @]
      /\ UNCHANGED <<clerk, wasAdmin, invited, changed, audit>>
  BY DEF RemoveCreator, At, Leaves
<1>2. /\ RequestOK(r) /\ q \in Handlers /\ q.kind = "create" /\ o \in Orgs /\ o \in AllOrgs
      /\ p \in PlatformAdmins /\ audit[r] = None
  BY <1>1, OrgAssumption DEF RequestInv, RequestOK, TypeOK, AllOrgs
<1>3. faults' \in 0 .. MaxFaults
  BY OrgAssumption DEF RemoveCreator, Fault, TypeOK
<1>4. PICK removed \in BOOLEAN : Becomes(r, "audit", q.invitation, removed)
  <2>1. CASE req' = [req EXCEPT ![r] = [q EXCEPT !.step = "audit", !.removed = TRUE]]
    <3> DEFINE x == [q EXCEPT !.step = "audit", !.removed = TRUE]
    <3>1. /\ x \in Handlers /\ x.step = "audit"
          /\ x.invitation = q.invitation /\ x.removed = TRUE
          /\ x.kind = q.kind /\ x.caller = q.caller /\ x.org = q.org
          /\ x.offer = q.offer /\ x.victim = q.victim
      BY <1>2 DEF Handlers, Steps
    <3>2. req' = [req EXCEPT ![r] = x]
      BY <2>1
    <3> HIDE DEF x
    <3> QED
      BY <3>1, <3>2, Becoming
  <2>2. CASE Goes(r, "audit")
    BY <1>2, <2>2, Going DEF Steps, Handlers
  <2> QED
    BY <2>1, <2>2 DEF RemoveCreator
<1>5. /\ \A x \in AllOrgs, y \in People : role'[x][y] \in {role[x][y], "none"}
      /\ \A x \in AllOrgs, y \in People : ~(x = o /\ y = p) => role'[x][y] = role[x][y]
      /\ \A x \in Orgs : founder'[x] = IF x = o /\ founder[x] = p THEN None ELSE founder[x]
      /\ founder' \in [Orgs -> PlatformAdmins \cup {None}]
      /\ p \in People /\ p # None
  BY <1>1, <1>2, OrgAssumption DEF TypeOK, People
<1>6. TypeOK'
  BY <1>1, <1>2, <1>3, <1>4, <1>5 DEF TypeOK, Becomes
<1>7. \A s \in Requests \ {r} : RequestOK(s)' /\ (req[s].step \in {"audit", "done"} => Told(s)')
  <2> SUFFICES ASSUME NEW s \in Requests \ {r}
               PROVE  RequestOK(s)' /\ (req[s].step \in {"audit", "done"} => Told(s)')
    OBVIOUS
  <2>1. RequestOK(s) /\ req'[s] = req[s] /\ audit'[s] = audit[s] /\ (s \in changed' <=> s \in changed)
    BY <1>1, <1>4 DEF RequestInv, Becomes
  <2>2. RequestOK(s)'
    BY <1>1, <2>1, RequestFrame
  <2>3. ASSUME req[s].step \in {"audit", "done"} PROVE Told(s)'
    <3>1. Told(s)
      BY <2>3 DEF ToldInv
    <3>2. \A x \in Orgs : founder'[x] \in {founder[x], None}
      BY <1>5
    <3> QED
      BY <1>1, <2>1, <2>3, <3>1, <3>2, ToldFrame
  <2> QED
    BY <2>2, <2>3
<1>8. RequestOK(r)'
  BY <1>1, <1>2, <1>4 DEF RequestOK, Becomes, Asking, Kinds
<1>9. Told(r)'
  BY <1>1, <1>2, <1>4, <1>5 DEF RequestOK, Told, Becomes
<1>10. RequestInv' /\ ToldInv'
  BY <1>4, <1>7, <1>8, <1>9 DEF RequestInv, ToldInv, Becomes
<1>11. SeatInv'
  <2> SUFFICES ASSUME NEW x \in Orgs, founder'[x] # None
               PROVE  /\ IsMember(x, founder[x])'
                      /\ \E s \in Requests : req'[s].kind = "create" /\ req'[s].org = x
                              /\ req'[s].caller = founder'[x] /\ ~req'[s].removed
    BY DEF SeatInv, IsMember
  <2>1. founder'[x] = founder[x] /\ ~(x = o /\ founder[x] = p)
    BY <1>5
  <2>2. PICK s \in Requests : req[s].kind = "create" /\ req[s].org = x
                              /\ req[s].caller = founder[x] /\ ~req[s].removed
    BY <2>1 DEF SeatInv
  <2>3. s # r
    BY <2>1, <2>2
  <2>4. IsMember(x, founder[x]) /\ x \in AllOrgs /\ founder[x] \in People
    BY <2>1 DEF SeatInv, AllOrgs, People, TypeOK
  <2>5. IsMember(x, founder[x])'
    BY <1>1, <1>5, <2>1, <2>4 DEF IsMember
  <2> QED
    BY <1>4, <2>1, <2>2, <2>3, <2>5 DEF Becomes
<1>12. ClerkInv' /\ PlatformOutOfReach'
  BY <1>1, <1>5 DEF ClerkInv, PlatformOutOfReach
<1> QED
  BY <1>6, <1>10, <1>11, <1>12

\* Memberships that begin by an invitation, or end, without a request.
LEMMA OutOfBandInv ==
    ASSUME IInv, UNCHANGED <<clerk, req, changed, audit, faults>>,
           role' \in [AllOrgs -> [People -> Roles \cup {"none"}]],
           wasAdmin' \in [AllOrgs -> SUBSET People],
           founder' \in [Orgs -> PlatformAdmins \cup {None}],
           invited' \in [Requests -> Invitations \cup {None}],
           \A o \in AllOrgs : clerk[o] # "live" => role'[o] = role[o],
           \A o \in Orgs : /\ founder'[o] \in {founder[o], None}
                           /\ founder'[o] # None => role'[o][founder[o]] = role[o][founder[o]],
           wasAdmin'[Platform] = wasAdmin[Platform],
           \A i \in Requests : \/ invited'[i] = invited[i]
                               \/ /\ invited[i] # None /\ invited'[i] # None
                                  /\ invited'[i].org = invited[i].org
                                  /\ invited'[i].role = invited[i].role
                                  /\ invited[i].status = "pending"
                                  /\ invited'[i].status = "accepted"
    PROVE  IInv'
<1> USE DEF IInv
<1>1. TypeOK'
  BY DEF TypeOK
<1>2. \A s \in Requests : RequestOK(s)' /\ (req[s].step \in {"audit", "done"} => Told(s)')
  <2> SUFFICES ASSUME NEW s \in Requests
               PROVE  RequestOK(s)' /\ (req[s].step \in {"audit", "done"} => Told(s)')
    OBVIOUS
  <2>1. RequestOK(s)
    BY DEF RequestInv
  <2>2. RequestOK(s)'
    BY <2>1, RequestFrame
  <2>3. ASSUME req[s].step \in {"audit", "done"} PROVE Told(s)'
    BY <2>1, <2>3, ToldFrame DEF ToldInv
  <2> QED
    BY <2>2, <2>3
<1>3. RequestInv' /\ ToldInv'
  BY <1>2 DEF RequestInv, ToldInv
<1>4. SeatInv'
  BY DEF SeatInv, IsMember
<1>5. ClerkInv' /\ PlatformOutOfReach'
  BY DEF ClerkInv, PlatformOutOfReach
<1> QED
  BY <1>1, <1>3, <1>4, <1>5

\* Whoever joins is not the founder, who is a member.
LEMMA Joining ==
    ASSUME IInv, NEW o \in AllOrgs, NEW p \in People, NEW granted \in Roles,
           clerk[o] = "live", o = Platform => granted = "member", Joins(o, p, granted)
    PROVE  /\ role' \in [AllOrgs -> [People -> Roles \cup {"none"}]]
           /\ wasAdmin' \in [AllOrgs -> SUBSET People]
           /\ \A x \in AllOrgs : x # o => role'[x] = role[x]
           /\ \A x \in Orgs : founder[x] # None => role'[x][founder[x]] = role[x][founder[x]]
           /\ wasAdmin'[Platform] = wasAdmin[Platform]
<1>1. TypeOK /\ SeatInv
  BY DEF IInv
<1>2. /\ ~IsMember(o, p)
      /\ role' = [role EXCEPT ![o][p] = granted]
      /\ wasAdmin' = [wasAdmin EXCEPT ![o] = IF granted = "admin" THEN @ \cup {p} ELSE @]
  BY DEF Joins
<1>3. /\ role' \in [AllOrgs -> [People -> Roles \cup {"none"}]]
      /\ wasAdmin' \in [AllOrgs -> SUBSET People]
      /\ \A x \in AllOrgs : x # o => role'[x] = role[x]
      /\ \A y \in People : y # p => role'[o][y] = role[o][y]
  BY <1>1, <1>2 DEF TypeOK
<1>4. ASSUME NEW x \in Orgs, founder[x] # None
      PROVE  role'[x][founder[x]] = role[x][founder[x]]
  <2>1. x \in AllOrgs /\ founder[x] \in People /\ IsMember(x, founder[x])
    BY <1>1, <1>4 DEF TypeOK, SeatInv, AllOrgs, People
  <2> QED
    BY <1>2, <1>3, <2>1
<1>5. wasAdmin'[Platform] = wasAdmin[Platform]
  BY <1>1, <1>2 DEF TypeOK, AllOrgs
<1> QED
  BY <1>3, <1>4, <1>5

LEMMA AcceptInv ==
    ASSUME IInv, NEW i \in Requests, NEW p \in People, Accept(i, p)
    PROVE  IInv'
<1> USE DEF IInv
<1> DEFINE o == invited[i].org
<1>1. /\ invited[i] # None /\ invited[i].status = "pending" /\ invited[i] \in Invitations
      /\ o \in AllOrgs /\ invited[i].role \in Roles
  BY OrgAssumption DEF Accept, TypeOK, Invitations
<1>2. /\ Joins(o, p, invited[i].role)
      /\ invited' = [invited EXCEPT ![i].status = "accepted"]
      /\ UNCHANGED <<clerk, founder, req, changed, audit, faults>>
  BY DEF Accept
<1>3. clerk[o] = "live" /\ (o = Platform => invited[i].role = "member")
  BY <1>1 DEF ClerkInv
<1>4. /\ invited'[i] \in Invitations /\ invited'[i] # None
      /\ invited'[i].org = o /\ invited'[i].role = invited[i].role
      /\ invited'[i].status = "accepted"
      /\ \A s \in Requests : s # i => invited'[s] = invited[s]
  <2>1. invited'[i] = [invited[i] EXCEPT !.status = "accepted"]
        /\ \A s \in Requests : s # i => invited'[s] = invited[s]
    BY <1>2 DEF TypeOK
  <2> QED
    BY <1>1, <2>1, OrgAssumption DEF Invitations
<1>5. invited' \in [Requests -> Invitations \cup {None}]
  BY <1>2, <1>4 DEF TypeOK
<1>6. /\ role' \in [AllOrgs -> [People -> Roles \cup {"none"}]]
      /\ wasAdmin' \in [AllOrgs -> SUBSET People]
      /\ \A x \in AllOrgs : x # o => role'[x] = role[x]
      /\ \A x \in Orgs : founder[x] # None => role'[x][founder[x]] = role[x][founder[x]]
      /\ wasAdmin'[Platform] = wasAdmin[Platform]
  BY <1>1, <1>2, <1>3, Joining
<1>7. /\ founder' = founder /\ founder \in [Orgs -> PlatformAdmins \cup {None}]
      /\ \A x \in AllOrgs : clerk[x] # "live" => role'[x] = role[x]
      /\ \A s \in Requests : \/ invited'[s] = invited[s]
                             \/ /\ invited[s] # None /\ invited'[s] # None
                                /\ invited'[s].org = invited[s].org
                                /\ invited'[s].role = invited[s].role
                                /\ invited[s].status = "pending"
                                /\ invited'[s].status = "accepted"
  BY <1>1, <1>2, <1>3, <1>4, <1>6 DEF TypeOK
<1> QED
  BY <1>2, <1>5, <1>6, <1>7, OutOfBandInv

LEMMA MembershipBeginsInv ==
    ASSUME IInv, NEW o \in Orgs, NEW p \in People, NEW granted \in Roles,
           MembershipBegins(o, p, granted)
    PROVE  IInv'
<1>1. /\ clerk[o] = "live" /\ o \in AllOrgs /\ o # Platform /\ Joins(o, p, granted)
      /\ UNCHANGED <<clerk, founder, invited, req, changed, audit, faults>>
  BY OrgAssumption DEF MembershipBegins, AllOrgs
<1>2. /\ role' \in [AllOrgs -> [People -> Roles \cup {"none"}]]
      /\ wasAdmin' \in [AllOrgs -> SUBSET People]
      /\ \A x \in AllOrgs : x # o => role'[x] = role[x]
      /\ \A x \in Orgs : founder[x] # None => role'[x][founder[x]] = role[x][founder[x]]
      /\ wasAdmin'[Platform] = wasAdmin[Platform]
  BY <1>1, Joining
<1> QED
  BY <1>1, <1>2, OutOfBandInv DEF IInv, TypeOK

LEMMA MembershipEndsInv ==
    ASSUME IInv, NEW o \in Orgs, NEW p \in People, MembershipEnds(o, p)
    PROVE  IInv'
<1>1. /\ role' = [role EXCEPT ![o][p] = "none"] /\ clerk[o] = "live" /\ o \in AllOrgs
      /\ founder' = [founder EXCEPT ![o] = IF @ = p THEN None ELSE @]
      /\ UNCHANGED <<clerk, wasAdmin, invited, req, changed, audit, faults>>
  BY DEF MembershipEnds, Leaves, IsMember, AllOrgs
<1>2. TypeOK
  BY DEF IInv
<1>3. /\ role' \in [AllOrgs -> [People -> Roles \cup {"none"}]]
      /\ \A x \in AllOrgs : clerk[x] # "live" => role'[x] = role[x]
      /\ \A x \in AllOrgs, y \in People : ~(x = o /\ y = p) => role'[x][y] = role[x][y]
      /\ founder' \in [Orgs -> PlatformAdmins \cup {None}]
      /\ \A x \in Orgs : founder'[x] = IF x = o /\ founder[x] = p THEN None ELSE founder[x]
  BY <1>1, <1>2 DEF TypeOK
<1>4. \A x \in Orgs : /\ founder'[x] \in {founder[x], None}
                     /\ founder'[x] # None => role'[x][founder[x]] = role[x][founder[x]]
  BY <1>2, <1>3 DEF TypeOK, AllOrgs, People
<1> QED
  BY <1>1, <1>2, <1>3, <1>4, OutOfBandInv DEF TypeOK

-----------------------------------------------------------------------------
LEMMA NextInv == IInv /\ [Next]_vars => IInv'
<1> SUFFICES ASSUME IInv, [Next]_vars PROVE IInv'
  OBVIOUS
<1>1. CASE UNCHANGED vars
  BY <1>1 DEF vars, clerkVars, IInv, TypeOK, RequestInv, RequestOK, ToldInv, Told,
              ClerkInv, SeatInv, IsMember, PlatformOutOfReach, AuditRow
<1>2. ASSUME NEW r \in Requests,
             \/ CreateOrg(r) \/ CreateInvitation(r) \/ RevokeInvitation(r)
             \/ InviteIntoOrg(r) \/ DeleteOrg(r)
      PROVE  IInv'
  BY <1>2, ArrivalsInv
<1>3. ASSUME NEW r \in Requests, Step(r) PROVE IInv'
  BY <1>3, CreateOrganizationInv, InviteInv, RevokeInv, NoChangeInv, DeleteInv,
     RemoveCreatorInv, CommitInv DEF Step
<1>4. ASSUME NEW r \in Requests, ClerkUnavailable(r) \/ CommitFails(r) PROVE IInv'
  BY <1>4, NoChangeInv
<1>5. ASSUME NEW i \in Requests, NEW p \in People, Accept(i, p) PROVE IInv'
  BY <1>5, AcceptInv
<1>6. ASSUME NEW o \in Orgs, NEW p \in OutOfBand,
             MembershipEnds(o, p) \/ \E granted \in Roles : MembershipBegins(o, p, granted)
      PROVE  IInv'
  BY <1>6, MembershipEndsInv, MembershipBeginsInv, OrgAssumption
<1> QED
  BY <1>1, <1>2, <1>3, <1>4, <1>5, <1>6 DEF Next

LEMMA InductiveInvariant == Spec => []IInv
BY InitInv, NextInv, PTL DEF Spec

-----------------------------------------------------------------------------
(* The theorems *)

\* Every variable keeps its type (the organisation routers, all actions).
THEOREM TypeCorrectness == Spec => []TypeOK
<1>1. IInv => TypeOK
  BY DEF IInv
<1> QED
  BY <1>1, InductiveInvariant, PTL

\* No audit row of the organisation routers says of Clerk what is not, or is no
\* longer, so, whatever other requests and Clerk do afterwards.
THEOREM AuditTruth == Spec => []AuditTellsTheTruth
<1>1. IInv => AuditTellsTheTruth
  <2> SUFFICES ASSUME IInv, NEW r \in Requests, audit[r] # None PROVE RowIsTrue(r)
    BY DEF AuditTellsTheTruth
  <2> DEFINE q == req[r]
  <2>1. RequestOK(r) /\ TypeOK /\ ClerkInv
    BY DEF IInv, RequestInv
  <2>2. q.step = "done" /\ Told(r) /\ audit[r] = AuditRow(q)
    BY <2>1 DEF RequestOK, IInv, ToldInv
  <2>3. audit[r].org = q.org /\ audit[r].invitation = q.invitation
        /\ audit[r].removed = q.removed
    BY <2>2 DEF AuditRow
  <2>4. q.org \in AllOrgs /\ q.kind \in Kinds
    BY <2>1, <2>2 DEF RequestOK
  <2>5. q.kind = "create" => clerk[q.org] # "unborn"
    BY <2>1, <2>4, OrgAssumption DEF RequestOK
  <2>6. q.kind = "delete" =>
          /\ \A p \in People : role[q.org][p] = "none"
          /\ \A i \in Requests : invited[i] # None /\ invited[i].org = q.org
                                 => invited[i].status # "pending"
    BY <2>1, <2>2, <2>4 DEF Told, ClerkInv
  <2> QED
    BY <2>2, <2>3, <2>4, <2>5, <2>6 DEF RowIsTrue, Told, Kinds
<1> QED
  BY <1>1, InductiveInvariant, PTL

\* A platform admin who sits in a client organisation since they created it has no
\* answer to the removal, and whoever reads the audit row of a creation that ended well
\* learns that they do (create_org).
THEOREM CreatorsSeat == Spec => []CreatorsSitOnlyUnremoved
<1>1. IInv => CreatorsSitOnlyUnremoved
  <2> SUFFICES ASSUME IInv, NEW o \in Orgs, founder[o] # None
               PROVE  /\ IsMember(o, founder[o])
                      /\ \E r \in Requests :
                           /\ req[r].kind = "create" /\ req[r].org = o
                           /\ req[r].caller = founder[o] /\ ~req[r].removed
                           /\ At(r, "done") => audit[r] # None /\ ~audit[r].removed
    BY DEF CreatorsSitOnlyUnremoved
  <2>1. IsMember(o, founder[o])
    BY DEF IInv, SeatInv
  <2>2. PICK r \in Requests : req[r].kind = "create" /\ req[r].org = o
                              /\ req[r].caller = founder[o] /\ ~req[r].removed
    BY DEF IInv, SeatInv
  <2>3. ASSUME At(r, "done") PROVE audit[r] # None /\ ~audit[r].removed
    <3>1. RequestOK(r) /\ req[r] \in Handlers
      BY DEF IInv, RequestInv, TypeOK
    <3>2. audit[r] = AuditRow(req[r]) /\ req[r].org \in AllOrgs
      BY <2>3, <3>1 DEF RequestOK, At
    <3>3. AuditRow(req[r]) \in AuditRows
      BY <3>1, <3>2 DEF AuditRow, AuditRows, Handlers
    <3> QED
      BY <2>2, <3>2, <3>3, OrgAssumption DEF AuditRow
  <2> QED
    BY <2>1, <2>2, <2>3
<1> QED
  BY <1>1, InductiveInvariant, PTL

\* The platform organisation is neither deleted nor given another admin by
\* invitation, by any number of requests.
THEOREM PlatformSafe == Spec => []PlatformOutOfReach
<1>1. IInv => PlatformOutOfReach
  BY DEF IInv
<1> QED
  BY <1>1, InductiveInvariant, PTL

\* The routers implement RecordedChange: every step makes the change of one request,
\* records one that was made, or does neither.
THEOREM Refinement == Spec => ImplementsRecordedChange
<1> DEFINE recorded == {r \in Requests : audit[r] # None}
<1>1. Init => Recorded!Init
  BY DEF Init, Recorded!Init
<1>2. IInv /\ [Next]_vars => [Recorded!Next]_(Recorded!vars)
  <2> SUFFICES ASSUME IInv, [Next]_vars
               PROVE  Recorded!Next \/ UNCHANGED <<changed, recorded>>
    BY DEF Recorded!vars
  <2>1. ASSUME UNCHANGED <<changed, audit>>
        PROVE  UNCHANGED <<changed, recorded>>
    BY <2>1
  <2>2. ASSUME NEW r \in Requests, changed' = changed \cup {r}, UNCHANGED audit
        PROVE  Recorded!Next \/ UNCHANGED <<changed, recorded>>
    <3>1. CASE r \in changed
      BY <2>2, <3>1 DEF IInv, TypeOK
    <3>2. CASE r \notin changed
      BY <2>2, <3>2 DEF Recorded!Next, Recorded!Effect
    <3> QED
      BY <3>1, <3>2
  <2>3. ASSUME NEW r \in Requests, Commit(r) PROVE Recorded!Next
    <3>1. RequestOK(r) /\ req[r].step = "audit" /\ TypeOK
      BY <2>3 DEF Commit, At, IInv, RequestInv
    <3>2. r \in changed /\ r \notin recorded
      BY <3>1 DEF RequestOK
    <3>3. AuditRow(req[r]) # None
      BY <3>1, OrgAssumption DEF RequestOK, TypeOK, Handlers, AuditRow, AuditRows
    <3>4. recorded' = recorded \cup {r} /\ UNCHANGED changed
      BY <2>3, <3>1, <3>3 DEF Commit, TypeOK
    <3> QED
      BY <3>2, <3>4 DEF Recorded!Next, Recorded!Record
  <2>4. CASE UNCHANGED vars
    BY <2>1, <2>4 DEF vars
  <2>5. ASSUME NEW r \in Requests,
               \/ CreateOrg(r) \/ CreateInvitation(r) \/ RevokeInvitation(r)
               \/ InviteIntoOrg(r) \/ DeleteOrg(r)
        PROVE  UNCHANGED <<changed, audit>>
    BY <2>5 DEF CreateOrg, CreateInvitation, RevokeInvitation, InviteIntoOrg, DeleteOrg, Arrive
  <2>6. ASSUME NEW r \in Requests, Step(r), ~Commit(r)
        PROVE  UNCHANGED audit /\ (UNCHANGED changed \/ changed' = changed \cup {r})
    BY <2>6 DEF Step, CreateOrganization, Invite, Revoke, FetchOrganization,
                DeleteOrganization, RemoveCreator, ClerkRefuses
  <2>7. ASSUME NEW r \in Requests, ClerkUnavailable(r) \/ CommitFails(r)
        PROVE  UNCHANGED <<changed, audit>>
    BY <2>7 DEF ClerkUnavailable, CommitFails
  <2>8. ASSUME NEW i \in Requests, NEW p \in People, Accept(i, p)
        PROVE  UNCHANGED <<changed, audit>>
    BY <2>8 DEF Accept
  <2>9. ASSUME NEW o \in Orgs, NEW p \in OutOfBand,
               MembershipEnds(o, p) \/ \E granted \in Roles : MembershipBegins(o, p, granted)
        PROVE  UNCHANGED <<changed, audit>>
    BY <2>9 DEF MembershipEnds, MembershipBegins
  <2> QED
    BY <2>1, <2>2, <2>3, <2>4, <2>5, <2>6, <2>7, <2>8, <2>9 DEF Next
<1> QED
  BY <1>1, <1>2, InductiveInvariant, PTL DEF Spec, ImplementsRecordedChange, Recorded!Spec
=============================================================================
