-------------------------- MODULE AdminMembersProofs --------------------------
(***************************************************************************)
(* Proofs that AdminMembers is type correct and that nobody becomes an     *)
(* admin without Clerk, for every number of people, of concurrent requests *)
(* and of failures, and every combination of endpoints; and that the       *)
(* last-admin guard of the endpoints suffices and the grace window is kept *)
(* as long as no other request writes between their checks and commits.    *)
(***************************************************************************)
EXTENDS AdminMembers, FiniteSetTheorems, TLAPS

Calling  == {"provision", "downgrade", "grant", "guard"}
Changing == {"check", "clerk", "commit"}

\* What a request may rely on between its steps: whose it is, that the role in
\* its token was a Clerk role of its caller, and that a role it is about to
\* write locally was accepted by Clerk.
RequestOK(c, had) ==
    /\ c.step \in Calling => c.caller \in Members
    /\ c.kind # "visit" /\ c.step # "idle" =>
          /\ c.kind \in OwnOrg \cup CrossOrg
          /\ c.target \in Members
          /\ c.kind \notin Removals => c.role \in Roles
    /\ c.step \in Changing \cup {"guard"} => c.kind # "visit"
    /\ c.claim = "admin" => c.caller \in had
    /\ c.step = "grant" => c.claim = "admin"
    /\ c.step = "commit" /\ c.kind \notin Removals /\ c.role = "admin" => c.target \in had

RequestInv == \A r \in Requests : RequestOK(req[r], hadRole)

\* A Clerk admin, and whoever holds an admin's token, is on the record.
ClerkInv == \A u \in Members : clerk[u] = "admin" \/ token[u] = "admin" => u \in hadRole

IInv == TypeOK /\ RequestInv /\ ClerkInv /\ AdminsComeFromClerk

-----------------------------------------------------------------------------
LEMMA InitInv == Init => IInv
<1> SUFFICES ASSUME Init PROVE IInv
  OBVIOUS
<1>1. TypeOK
  BY AdminAssumption DEF Init, TypeOK, Idle, Steps, Roles, Clerk
<1>2. RequestInv
  BY AdminAssumption DEF Init, RequestInv, RequestOK, Idle, Calling, Changing, Roles
<1>3. ClerkInv /\ AdminsComeFromClerk
  BY DEF Init, ClerkInv, AdminsComeFromClerk, Active
<1> QED
  BY <1>1, <1>2, <1>3 DEF IInv

\* A request keeps its invariant while the record of admins only grows.
LEMMA RecordGrows ==
  ASSUME NEW c, NEW had, NEW more, had \subseteq more, RequestOK(c, had)
  PROVE  RequestOK(c, more)
  BY DEF RequestOK

\* So an action that replaces the request r by a good one keeps RequestInv.
LEMMA ReplaceRequest ==
  ASSUME TypeOK, RequestInv, NEW r \in Requests, NEW d, RequestOK(d, hadRole'),
         req' = [req EXCEPT ![r] = d], hadRole \subseteq hadRole'
  PROVE  RequestInv'
<1> SUFFICES ASSUME NEW q \in Requests PROVE RequestOK(req'[q], hadRole')
  BY DEF RequestInv
<1>1. CASE q = r
  BY <1>1 DEF TypeOK
<1>2. CASE q # r
  <2>1. req'[q] = req[q] /\ RequestOK(req[q], hadRole)
    BY <1>2 DEF TypeOK, RequestInv
  <2> QED
    BY <2>1, RecordGrows
<1> QED
  BY <1>1, <1>2

\* And one that leaves the requests alone.
LEMMA KeepRequests ==
  ASSUME RequestInv, req' = req, hadRole \subseteq hadRole'
  PROVE  RequestInv'
  BY RecordGrows DEF RequestInv

\* Rows change within their types.
LEMMA RowWrites ==
  ASSUME TypeOK, NEW u \in Members,
         Deactivate(u) \/ ReactivateOrCreate(u) \/ ReactivateIfExists(u)
  PROVE  /\ adminRow' \in [Members -> {"absent", "inactive", "active"}]
         /\ stamp' \in [Members -> {"null", "fresh", "old"}]
  BY DEF TypeOK, Deactivate, ReactivateOrCreate, ReactivateIfExists

\* The request that a step of r leaves behind, for the actions that end it or
\* take it one step further.
LEMMA EndKeeps ==
  ASSUME TypeOK, RequestInv, NEW r \in Requests, End(r), hadRole \subseteq hadRole'
  PROVE  RequestInv'
<1>1. RequestOK(Idle, hadRole')
  BY AdminAssumption DEF RequestOK, Idle, Calling, Changing, Roles
<1> QED
  BY <1>1, ReplaceRequest DEF End

\* Every request is of the type TypeOK says.
RequestType ==
    [step : Steps, kind : OwnOrg \cup CrossOrg \cup {"visit", None},
     caller : Members \cup {Platform, None}, claim : Roles \cup {None},
     target : Members \cup {None}, role : Roles \cup {None},
     admin : BOOLEAN, live : BOOLEAN]

LEMMA IdleType == Idle \in RequestType
  BY DEF Idle, RequestType, Steps

LEMMA RequestTypeOf ==
  ASSUME TypeOK, NEW r \in Requests
  PROVE  req[r] \in RequestType
  BY DEF TypeOK, RequestType

LEMMA ReplaceType ==
  ASSUME TypeOK, NEW r \in Requests, NEW d \in RequestType,
         req' = [req EXCEPT ![r] = d]
  PROVE  req' \in [Requests -> RequestType]
  BY DEF TypeOK, RequestType

LEMMA GoToKeeps ==
  ASSUME TypeOK, RequestInv, NEW r \in Requests, NEW s \in Steps, GoTo(r, s),
         hadRole \subseteq hadRole',
         req[r].step # "idle",
         s \in Calling => req[r].caller \in Members,
         s \in Changing \cup {"guard"} => req[r].kind # "visit",
         s = "grant" => req[r].claim = "admin",
         s = "commit" /\ req[r].kind \notin Removals /\ req[r].role = "admin"
            => req[r].target \in hadRole'
  PROVE  RequestInv' /\ req' \in [Requests -> RequestType]
<1> DEFINE d == [req[r] EXCEPT !.step = s]
<1>1. req[r] \in RequestType /\ RequestOK(req[r], hadRole)
  BY RequestTypeOf DEF RequestInv
<1>2. d \in RequestType
  BY <1>1 DEF RequestType
<1>3. /\ d.step = s /\ d.kind = req[r].kind /\ d.caller = req[r].caller
      /\ d.claim = req[r].claim /\ d.target = req[r].target /\ d.role = req[r].role
  BY <1>1 DEF RequestType
<1>4. RequestOK(d, hadRole')
  BY <1>1, <1>3 DEF RequestOK
<1>5. req' = [req EXCEPT ![r] = d]
  BY DEF GoTo
<1> HIDE DEF d
<1> QED
  BY <1>2, <1>4, <1>5, ReplaceRequest, ReplaceType

-----------------------------------------------------------------------------
(* The steps of people and of Clerk *)

LEMMA PersonStepInv ==
  ASSUME IInv, NEW u \in Members, PersonStep(u)
  PROVE  IInv'
<1> USE DEF IInv
<1>1. ASSUME NEW role \in Clerk, ClerkChange(u, role) PROVE IInv'
  <2>1. hadRole \subseteq hadRole' /\ req' = req
    BY <1>1 DEF ClerkChange, SetClerk
  <2>2. TypeOK'
    BY <1>1, AdminAssumption DEF ClerkChange, SetClerk, TypeOK, rowVars
  <2>3. RequestInv'
    BY <2>1, KeepRequests
  <2>4. ClerkInv'
    BY <1>1 DEF ClerkChange, SetClerk, ClerkInv, TypeOK
  <2>5. AdminsComeFromClerk'
    BY <1>1, <2>1 DEF ClerkChange, AdminsComeFromClerk, Active, rowVars
  <2> QED
    BY <2>2, <2>3, <2>4, <2>5
<1>2. CASE RefreshToken(u)
  <2>1. TypeOK'
    BY <1>2 DEF RefreshToken, TypeOK, rowVars, historyVars
  <2>2. RequestInv'
    BY <1>2, KeepRequests DEF RefreshToken, historyVars
  <2>3. ClerkInv'
    BY <1>2 DEF RefreshToken, ClerkInv, TypeOK, historyVars
  <2>4. AdminsComeFromClerk'
    BY <1>2 DEF RefreshToken, AdminsComeFromClerk, Active, rowVars, historyVars
  <2> QED
    BY <2>1, <2>2, <2>3, <2>4
<1>3. CASE GraceElapses(u)
  <2>1. TypeOK'
    BY <1>3 DEF GraceElapses, TypeOK
  <2>2. RequestInv'
    BY <1>3, KeepRequests DEF GraceElapses
  <2>3. ClerkInv' /\ AdminsComeFromClerk'
    BY <1>3 DEF GraceElapses, ClerkInv, AdminsComeFromClerk, Active
  <2> QED
    BY <2>1, <2>2, <2>3
<1>4. CASE Login(u)
  <2>1. TypeOK'
    BY <1>4 DEF Login, TypeOK, historyVars, Clerk
  <2>2. RequestInv'
    BY <1>4, KeepRequests DEF Login, historyVars
  <2>3. ClerkInv' /\ AdminsComeFromClerk'
    BY <1>4 DEF Login, ClerkInv, AdminsComeFromClerk, Active, TypeOK, historyVars
  <2> QED
    BY <2>1, <2>2, <2>3
<1> QED
  BY <1>1, <1>2, <1>3, <1>4 DEF PersonStep

-----------------------------------------------------------------------------
(* The steps of a request *)

LEMMA ArrivalInv ==
  ASSUME IInv, NEW r \in Requests, Arrival(r)
  PROVE  IInv'
<1> USE DEF IInv
<1>1. ASSUME NEW d \in RequestType, RequestOK(d, hadRole),
             req' = [req EXCEPT ![r] = d], changes' \in 0..MaxChanges,
             UNCHANGED <<clerk, token, rowVars, faults, historyVars>>
      PROVE  IInv'
  <2>1. req' \in [Requests -> RequestType]
    BY <1>1, ReplaceType
  <2>2. TypeOK'
    BY <1>1, <2>1 DEF TypeOK, RequestType, rowVars, historyVars
  <2>3. RequestInv'
    BY <1>1, ReplaceRequest DEF historyVars
  <2>4. ClerkInv' /\ AdminsComeFromClerk'
    BY <1>1 DEF ClerkInv, AdminsComeFromClerk, Active, rowVars, historyVars
  <2> QED
    BY <2>2, <2>3, <2>4
<1>2. ASSUME NEW u \in Members, Visit(r, u) PROVE IInv'
  <2> DEFINE d == [Idle EXCEPT !.step = "provision", !.kind = "visit",
                               !.caller = u, !.claim = token[u]]
  <2>1. token[u] \in Roles
    BY <1>2 DEF Visit, TypeOK, Clerk
  <2>2. d \in RequestType
    BY <2>1 DEF Idle, RequestType, Steps
  <2>3. RequestOK(d, hadRole)
    BY AdminAssumption, <2>1 DEF Idle, RequestOK, Calling, Changing, ClerkInv, Roles
  <2> HIDE DEF d
  <2>4. /\ req' = [req EXCEPT ![r] = d] /\ changes' = changes
        /\ UNCHANGED <<clerk, token, rowVars, faults, historyVars>>
    BY <1>2 DEF Visit, d
  <2> QED
    BY <1>1, <2>2, <2>3, <2>4 DEF TypeOK
<1>3. ASSUME NEW kind \in Kinds \cap OwnOrg, NEW u \in Members, NEW t \in Members,
             NEW role \in RolesOf(kind), CallOwnOrg(r, kind, u, t, role)
      PROVE  IInv'
  <2> DEFINE d == [Idle EXCEPT !.step = "provision", !.kind = kind, !.caller = u,
                               !.claim = token[u], !.target = t, !.role = role]
  <2>1. token[u] \in Roles
    BY <1>3 DEF CallOwnOrg, TypeOK, Clerk
  <2>2. role \in Roles \cup {None} /\ (kind \notin Removals => role \in Roles)
    BY DEF RolesOf
  <2>3. d \in RequestType
    BY <2>1, <2>2 DEF Idle, RequestType, Steps
  <2>4. RequestOK(d, hadRole)
    BY AdminAssumption, <2>1, <2>2
       DEF Idle, RequestOK, Calling, Changing, ClerkInv, Roles, OwnOrg
  <2> HIDE DEF d
  <2>5. /\ req' = [req EXCEPT ![r] = d]
        /\ changes < MaxChanges /\ changes' = changes + 1
        /\ UNCHANGED <<clerk, token, rowVars, faults, historyVars>>
    BY <1>3 DEF CallOwnOrg, d
  <2>6. changes' \in 0..MaxChanges
    BY <2>5, AdminAssumption DEF TypeOK
  <2> QED
    BY <1>1, <2>3, <2>4, <2>5, <2>6
<1>4. ASSUME NEW kind \in Kinds \cap CrossOrg, NEW t \in Members,
             NEW role \in RolesOf(kind), CallCrossOrg(r, kind, t, role)
      PROVE  IInv'
  <2> DEFINE d == [Idle EXCEPT !.step = "check", !.kind = kind, !.caller = Platform,
                               !.target = t, !.role = role]
  <2>1. role \in Roles \cup {None} /\ (kind \notin Removals => role \in Roles)
    BY DEF RolesOf
  <2>2. d \in RequestType
    BY <2>1 DEF Idle, RequestType, Steps
  <2>3. RequestOK(d, hadRole)
    BY AdminAssumption, <2>1 DEF Idle, RequestOK, Calling, Changing, Roles, CrossOrg
  <2> HIDE DEF d
  <2>4. /\ req' = [req EXCEPT ![r] = d]
        /\ changes < MaxChanges /\ changes' = changes + 1
        /\ UNCHANGED <<clerk, token, rowVars, faults, historyVars>>
    BY <1>4 DEF CallCrossOrg, d
  <2>5. changes' \in 0..MaxChanges
    BY <2>4, AdminAssumption DEF TypeOK
  <2> QED
    BY <1>1, <2>2, <2>3, <2>4, <2>5
<1> QED
  BY <1>2, <1>3, <1>4 DEF Arrival

\* A step that only moves the request r.
LEMMA MoveInv ==
  ASSUME IInv, req' \in [Requests -> RequestType], RequestInv',
         UNCHANGED <<clerk, token, rowVars, changes, faults, historyVars>>
  PROVE  IInv'
<1>1. TypeOK'
  BY DEF IInv, TypeOK, RequestType, rowVars, historyVars
<1>2. ClerkInv' /\ AdminsComeFromClerk'
  BY DEF IInv, ClerkInv, AdminsComeFromClerk, Active, rowVars, historyVars
<1> QED
  BY <1>1, <1>2 DEF IInv

LEMMA EndType ==
  ASSUME TypeOK, NEW r \in Requests, End(r)
  PROVE  req' \in [Requests -> RequestType]
  BY IdleType, ReplaceType DEF End

\* What is known of a request that is at one of its later steps.
LEMMA StepFacts ==
  ASSUME IInv, NEW r \in Requests, req[r].step \in Changing \cup {"guard"}
  PROVE  /\ req[r].kind \in OwnOrg \cup CrossOrg
         /\ req[r].target \in Members
         /\ req[r].kind \notin Removals => req[r].role \in Roles
         /\ req[r].step # "idle"
  BY DEF IInv, RequestInv, RequestOK, Changing

\* After provisioning a visit ends and a call comes to the guard.
LEMMA ProvisionedKeeps ==
  ASSUME IInv, NEW r \in Requests, req[r].step \in Calling, Provisioned(r),
         hadRole' = hadRole
  PROVE  RequestInv' /\ req' \in [Requests -> RequestType]
<1>1. CASE req[r].kind = "visit"
  <2>1. End(r)
    BY <1>1 DEF Provisioned
  <2> QED
    BY <2>1, EndKeeps, EndType DEF IInv
<1>2. CASE req[r].kind # "visit"
  <2>1. GoTo(r, "guard")
    BY <1>2 DEF Provisioned
  <2>2. /\ req[r].step # "idle" /\ req[r].caller \in Members
        /\ "guard" \in Steps
    BY DEF IInv, RequestInv, RequestOK, Calling, Steps
  <2> QED
    BY <1>2, <2>1, <2>2, GoToKeeps DEF IInv
<1> QED
  BY <1>1, <1>2

LEMMA ProvisionReadInv ==
  ASSUME IInv, NEW r \in Requests, ProvisionRead(r)
  PROVE  IInv'
<1>1. /\ req[r].step \in Calling /\ req[r].step # "idle" /\ req[r].caller \in Members
      /\ UNCHANGED <<clerk, token, rowVars, changes, faults, historyVars>>
      /\ hadRole' = hadRole
  BY DEF ProvisionRead, IInv, RequestInv, RequestOK, Calling, historyVars
<1>2. CASE GoTo(r, "downgrade")
  <2>1. RequestInv' /\ req' \in [Requests -> RequestType]
    BY <1>1, <1>2, GoToKeeps DEF IInv, Steps, Changing
  <2> QED
    BY <1>1, <2>1, MoveInv
<1>3. CASE req[r].claim = "admin" /\ GoTo(r, "grant")
  <2>1. RequestInv' /\ req' \in [Requests -> RequestType]
    BY <1>1, <1>3, GoToKeeps DEF IInv, Steps, Changing
  <2> QED
    BY <1>1, <2>1, MoveInv
<1>4. CASE Provisioned(r)
  BY <1>1, <1>4, ProvisionedKeeps, MoveInv
<1> QED
  BY <1>2, <1>3, <1>4 DEF ProvisionRead, NeedsGrant

LEMMA ProvisionWriteInv ==
  ASSUME IInv, NEW r \in Requests, ProvisionWrite(r)
  PROVE  IInv'
<1> DEFINE u == req[r].caller
<1>1. /\ req[r].step \in Calling /\ u \in Members /\ hadRole' = hadRole
      /\ req[r].step = "grant" => u \in hadRole
  BY DEF ProvisionWrite, IInv, RequestInv, RequestOK, Calling
<1>2. RequestInv' /\ req' \in [Requests -> RequestType]
  BY <1>1, ProvisionedKeeps DEF ProvisionWrite
<1>3. /\ adminRow' \in [Members -> {"absent", "inactive", "active"}]
      /\ stamp' \in [Members -> {"null", "fresh", "old"}]
  BY <1>1, RowWrites DEF ProvisionWrite, IInv
<1>4. TypeOK'
  BY <1>1, <1>2, <1>3 DEF ProvisionWrite, IInv, TypeOK, RequestType
<1>5. \A x \in Members : Active(x)' => Active(x) \/ x \in hadRole
  BY <1>1 DEF ProvisionWrite, IInv, TypeOK, Active, Deactivate, ReactivateOrCreate
<1>6. ClerkInv' /\ AdminsComeFromClerk'
  BY <1>1, <1>5 DEF ProvisionWrite, IInv, ClerkInv, AdminsComeFromClerk
<1> QED
  BY <1>2, <1>4, <1>6 DEF IInv

LEMMA GuardInv ==
  ASSUME IInv, NEW r \in Requests, Guard(r)
  PROVE  IInv'
<1>1. /\ req[r].step = "guard" /\ req[r].step # "idle" /\ hadRole' = hadRole
      /\ req[r].kind # "visit"
      /\ UNCHANGED <<clerk, token, rowVars, changes, faults, historyVars>>
  BY DEF Guard, IInv, RequestInv, RequestOK, historyVars
<1>2. CASE GoTo(r, "check")
  <2>1. RequestInv' /\ req' \in [Requests -> RequestType]
    BY <1>1, <1>2, GoToKeeps DEF IInv, Steps, Calling
  <2> QED
    BY <1>1, <2>1, MoveInv
<1>3. CASE End(r)
  BY <1>1, <1>3, EndKeeps, EndType, MoveInv DEF IInv
<1> QED
  BY <1>2, <1>3 DEF Guard

LEMMA CheckInv ==
  ASSUME IInv, NEW r \in Requests, Check(r)
  PROVE  IInv'
<1> DEFINE c == req[r]
           d == [c EXCEPT !.step = "clerk",
                          !.admin = TakenForAdmin(c.kind, c.target),
                          !.live = c.kind = "remove" /\ userRow[c.target] = "active"]
<1>1. /\ c \in RequestType /\ RequestOK(c, hadRole) /\ c.step = "check"
      /\ hadRole' = hadRole
      /\ UNCHANGED <<clerk, token, rowVars, changes, faults, historyVars>>
  BY RequestTypeOf DEF Check, IInv, RequestInv, historyVars
<1>2. CASE req' = [req EXCEPT ![r] = d]
  <2>1. TakenForAdmin(c.kind, c.target) \in BOOLEAN
    BY DEF TakenForAdmin
  <2>2. d \in RequestType
    BY <1>1, <2>1 DEF RequestType, Steps
  <2>3. /\ d.step = "clerk" /\ d.kind = c.kind /\ d.caller = c.caller
        /\ d.claim = c.claim /\ d.target = c.target /\ d.role = c.role
    BY <1>1 DEF RequestType
  <2>4. RequestOK(d, hadRole')
    BY <1>1, <2>3 DEF RequestOK, Calling, Changing
  <2> HIDE DEF d
  <2>5. RequestInv' /\ req' \in [Requests -> RequestType]
    BY <1>1, <1>2, <2>2, <2>4, ReplaceRequest, ReplaceType DEF IInv
  <2> QED
    BY <1>1, <2>5, MoveInv
<1>3. CASE End(r)
  BY <1>1, <1>3, EndKeeps, EndType, MoveInv DEF IInv
<1> QED
  BY <1>2, <1>3 DEF Check, End

\* Clerk's change on behalf of a request: the membership keeps its type, and a
\* new admin goes on the record.
LEMMA AskedOfClerk ==
  ASSUME IInv, NEW r \in Requests, req[r].step = "clerk",
         SetClerk(req[r].target, Asked(req[r])), token' = token
  PROVE  /\ clerk' \in [Members -> Clerk]
         /\ hadRole \subseteq hadRole' /\ hadRole' \subseteq Members
         /\ ClerkInv'
         /\ req[r].role = "admin" /\ req[r].kind \notin Removals
              => req[r].target \in hadRole'
<1>1. /\ req[r].target \in Members
      /\ req[r].kind \notin Removals => req[r].role \in Roles
  BY StepFacts DEF Changing
<1>2. Asked(req[r]) \in Clerk
  BY <1>1 DEF Asked, Clerk
<1> QED
  BY <1>1, <1>2 DEF SetClerk, Asked, IInv, TypeOK, ClerkInv

LEMMA ClerkAcceptsInv ==
  ASSUME IInv, NEW r \in Requests, ClerkAccepts(r)
  PROVE  IInv'
<1>1. /\ req[r].step = "clerk" /\ req[r].step # "idle" /\ req[r].kind # "visit"
      /\ clerk' \in [Members -> Clerk]
      /\ hadRole \subseteq hadRole' /\ hadRole' \subseteq Members
      /\ ClerkInv'
      /\ req[r].role = "admin" /\ req[r].kind \notin Removals
            => req[r].target \in hadRole'
  BY AskedOfClerk DEF ClerkAccepts, IInv, RequestInv, RequestOK, Changing
<1>2. RequestInv' /\ req' \in [Requests -> RequestType]
  BY <1>1, GoToKeeps DEF ClerkAccepts, IInv, Steps, Calling
<1>3. TypeOK'
  BY <1>1, <1>2 DEF ClerkAccepts, IInv, TypeOK, RequestType, rowVars
<1>4. AdminsComeFromClerk'
  BY <1>1 DEF ClerkAccepts, IInv, AdminsComeFromClerk, Active, rowVars
<1> QED
  BY <1>1, <1>2, <1>3, <1>4 DEF IInv

LEMMA ClerkFailsInv ==
  ASSUME IInv, NEW r \in Requests, ClerkFails(r)
  PROVE  IInv'
<1>1. /\ clerk' \in [Members -> Clerk]
      /\ hadRole \subseteq hadRole' /\ hadRole' \subseteq Members
      /\ ClerkInv'
  <2>1. CASE UNCHANGED <<clerk, hadRole>>
    BY <2>1 DEF ClerkFails, IInv, TypeOK, ClerkInv
  <2>2. CASE SetClerk(req[r].target, Asked(req[r]))
    BY <2>2, AskedOfClerk DEF ClerkFails
  <2> QED
    BY <2>1, <2>2 DEF ClerkFails
<1>2. RequestInv' /\ req' \in [Requests -> RequestType]
  BY <1>1, EndKeeps, EndType DEF ClerkFails, IInv
<1>3. faults' \in 0..MaxFaults
  BY AdminAssumption DEF ClerkFails, IInv, TypeOK
<1>4. TypeOK'
  BY <1>1, <1>2, <1>3 DEF ClerkFails, IInv, TypeOK, RequestType, rowVars
<1>5. AdminsComeFromClerk'
  BY <1>1 DEF ClerkFails, IInv, AdminsComeFromClerk, Active, rowVars
<1> QED
  BY <1>1, <1>2, <1>4, <1>5 DEF IInv

\* The local writes of an endpoint: rows keep their types, and whoever they make
\* an admin is on the record.
LEMMA WritesOfChange ==
  ASSUME IInv, NEW r \in Requests, CommitChange(r)
  PROVE  /\ adminRow' \in [Members -> {"absent", "inactive", "active"}]
         /\ stamp' \in [Members -> {"null", "fresh", "old"}]
         /\ userRow' \in [Members -> {"absent", "inactive", "active"}]
         /\ userRole' \in [Members -> Roles]
         /\ promoted' \subseteq Members
         /\ AdminsComeFromClerk'
<1> DEFINE c == req[r]
           t == c.target
<1>1. /\ t \in Members /\ hadRole' = hadRole
      /\ c.kind \notin Removals => c.role \in Roles
      /\ c.kind \notin Removals /\ c.role = "admin" => t \in hadRole
  BY StepFacts DEF CommitChange, IInv, RequestInv, RequestOK, Changing
<1> HIDE DEF c
<1>2. ASSUME c.kind \in Removals,
             Deactivate(t) \/ UNCHANGED <<adminRow, stamp>>
      PROVE  /\ adminRow' \in [Members -> {"absent", "inactive", "active"}]
             /\ stamp' \in [Members -> {"null", "fresh", "old"}]
             /\ \A x \in Members : Active(x)' => Active(x)
  BY <1>1, <1>2 DEF Deactivate, Active, IInv, TypeOK
<1>3. ASSUME c.role \in Roles, c.role = "admin" => t \in hadRole,
             IF c.role = "admin" THEN ReactivateOrCreate(t) \/ ReactivateIfExists(t)
                                 ELSE Deactivate(t)
      PROVE  /\ adminRow' \in [Members -> {"absent", "inactive", "active"}]
             /\ stamp' \in [Members -> {"null", "fresh", "old"}]
             /\ \A x \in Members : Active(x)' => Active(x) \/ x \in hadRole
  <2>1. /\ adminRow' \in [Members -> {"absent", "inactive", "active"}]
        /\ stamp' \in [Members -> {"null", "fresh", "old"}]
    BY <1>1, <1>3, RowWrites DEF IInv
  <2>2. \A x \in Members : Active(x)' => Active(x) \/ x \in hadRole
    BY <1>1, <1>3
       DEF Deactivate, ReactivateOrCreate, ReactivateIfExists, Active, IInv, TypeOK
  <2> QED
    BY <2>1, <2>2
<1>4. CASE c.kind = "remove" /\ WriteRemove(c)
  <2>1. c.kind \in Removals /\ (Deactivate(t) \/ UNCHANGED <<adminRow, stamp>>)
    BY <1>4 DEF WriteRemove, Removals
  <2> QED
    BY <1>1, <1>2, <1>4, <2>1 DEF WriteRemove, IInv, TypeOK, AdminsComeFromClerk
<1>5. CASE c.kind = "removeCross" /\ WriteRemoveCross(c)
  <2>1. c.kind \in Removals /\ (Deactivate(t) \/ UNCHANGED <<adminRow, stamp>>)
    BY <1>5 DEF WriteRemoveCross, Removals
  <2> QED
    BY <1>1, <1>2, <1>5, <2>1 DEF WriteRemoveCross, IInv, TypeOK, AdminsComeFromClerk
<1>6. CASE c.kind = "setRole" /\ WriteSetRole(c)
  <2>1. c.kind \notin Removals
    BY <1>6 DEF Removals
  <2>2. /\ promoted' \subseteq Members
        /\ userRow' = userRow
        /\ userRole' \in [Members -> Roles]
        /\ \A x \in Members : userRole'[x] = "admin" => userRole[x] = "admin" \/ x \in hadRole
    BY <1>1, <1>6, <2>1 DEF WriteSetRole, IInv, TypeOK
  <2> QED
    BY <1>1, <1>3, <1>6, <2>1, <2>2 DEF WriteSetRole, IInv, TypeOK, AdminsComeFromClerk
<1>7. CASE c.kind = "setRoleCross" /\ WriteSetRoleCross(c)
  <2>1. c.kind \notin Removals
    BY <1>7 DEF Removals
  <2>2. /\ promoted' \subseteq Members
        /\ userRow' = userRow
        /\ userRole' \in [Members -> Roles]
        /\ \A x \in Members : userRole'[x] = "admin" => userRole[x] = "admin" \/ x \in hadRole
    BY <1>1, <1>7, <2>1 DEF WriteSetRoleCross, IInv, TypeOK
  <2> QED
    BY <1>1, <1>3, <1>7, <2>1, <2>2 DEF WriteSetRoleCross, IInv, TypeOK, AdminsComeFromClerk
<1> QED
  BY <1>4, <1>5, <1>6, <1>7 DEF CommitChange, c

LEMMA CommitChangeInv ==
  ASSUME IInv, NEW r \in Requests, CommitChange(r)
  PROVE  IInv'
<1>1. RequestInv' /\ req' \in [Requests -> RequestType]
  BY EndKeeps, EndType DEF CommitChange, IInv
<1>2. TypeOK'
  BY <1>1, WritesOfChange DEF CommitChange, IInv, TypeOK, RequestType
<1>3. ClerkInv'
  BY DEF CommitChange, IInv, ClerkInv
<1> QED
  BY <1>1, <1>2, <1>3, WritesOfChange DEF IInv

LEMMA RollbackChangeInv ==
  ASSUME IInv, NEW r \in Requests, RollbackChange(r)
  PROVE  IInv'
<1>1. RequestInv' /\ req' \in [Requests -> RequestType]
  BY EndKeeps, EndType DEF RollbackChange, IInv, historyVars
<1>2. faults' \in 0..MaxFaults
  BY AdminAssumption DEF RollbackChange, IInv, TypeOK
<1>3. TypeOK'
  BY <1>1, <1>2 DEF RollbackChange, IInv, TypeOK, RequestType, rowVars, historyVars
<1>4. ClerkInv' /\ AdminsComeFromClerk'
  BY DEF RollbackChange, IInv, ClerkInv, AdminsComeFromClerk, Active, rowVars, historyVars
<1> QED
  BY <1>1, <1>3, <1>4 DEF IInv

LEMMA ClerkRefusesInv ==
  ASSUME IInv, NEW r \in Requests, ClerkRefuses(r)
  PROVE  IInv'
  BY EndKeeps, EndType, MoveInv DEF ClerkRefuses, IInv, historyVars

-----------------------------------------------------------------------------
LEMMA NextInv == IInv /\ [Next]_vars => IInv'
<1> SUFFICES ASSUME IInv, [Next]_vars PROVE IInv'
  OBVIOUS
<1>1. CASE \E u \in Members : PersonStep(u)
  BY <1>1, PersonStepInv
<1>2. ASSUME NEW r \in Requests, Arrival(r) PROVE IInv'
  BY <1>2, ArrivalInv
<1>3. ASSUME NEW r \in Requests, Progress(r) PROVE IInv'
  BY <1>3, ProvisionReadInv, ProvisionWriteInv, GuardInv, CheckInv, ClerkAcceptsInv,
     ClerkRefusesInv, CommitChangeInv DEF Progress
<1>4. ASSUME NEW r \in Requests, RequestFault(r) PROVE IInv'
  BY <1>4, ClerkFailsInv, RollbackChangeInv DEF RequestFault
<1>5. CASE UNCHANGED vars
  BY <1>5 DEF vars, rowVars, historyVars, IInv, TypeOK, RequestInv, RequestOK, ClerkInv,
              AdminsComeFromClerk, Active
<1> QED
  BY <1>1, <1>2, <1>3, <1>4, <1>5 DEF Next

\* The inductive invariant holds in every reachable state.
THEOREM InductiveInvariant == Spec => []IInv
  BY InitInv, NextInv, PTL DEF Spec

\* Every state is type correct: no row ever has a status, and no request a step,
\* that the guards and the counts of the endpoints do not know.
THEOREM TypeCorrectness == Spec => []TypeOK
<1>1. IInv => TypeOK
  BY DEF IInv
<1> QED
  BY <1>1, InductiveInvariant, PTL

\* Nobody holds an active admin row or the users role "admin" who was never an
\* admin in Clerk, however many requests interleave and calls to Clerk fail.
THEOREM NoAdminWithoutClerk == Spec => []AdminsComeFromClerk
<1>1. IInv => AdminsComeFromClerk
  BY DEF IInv
<1> QED
  BY <1>1, InductiveInvariant, PTL

\* The rows in a grace window are freshly stamped.
GraceInv == \A u \in promoted : stamp[u] = "fresh"

LEMMA GraceStep == TypeOK /\ TypeOK' /\ GraceInv /\ [Next]_vars => GraceInv'
<1> SUFFICES ASSUME TypeOK, TypeOK', GraceInv, [Next]_vars PROVE GraceInv'
  OBVIOUS
<1>1. CASE UNCHANGED <<stamp, promoted>>
  BY <1>1 DEF GraceInv
<1>2. ASSUME NEW u \in Members, GraceElapses(u) PROVE GraceInv'
  BY <1>2 DEF GraceElapses, GraceInv, TypeOK
<1>3. ASSUME NEW r \in Requests, ProvisionWrite(r) PROVE GraceInv'
  BY <1>3 DEF ProvisionWrite, Deactivate, ReactivateOrCreate, GraceInv, TypeOK
<1>4. ASSUME NEW r \in Requests, CommitChange(r) PROVE GraceInv'
  <2>1. CASE WriteRemove(req[r]) \/ WriteRemoveCross(req[r])
    BY <2>1 DEF WriteRemove, WriteRemoveCross, Deactivate, GraceInv, TypeOK
  <2>2. CASE WriteSetRole(req[r])
    BY <2>2 DEF WriteSetRole, Deactivate, ReactivateOrCreate, GraceInv, TypeOK
  <2>3. CASE WriteSetRoleCross(req[r])
    BY <2>3 DEF WriteSetRoleCross, Deactivate, ReactivateIfExists, GraceInv, TypeOK
  <2> QED
    BY <1>4, <2>1, <2>2, <2>3 DEF CommitChange
<1>5. ASSUME NEW u \in Members, PersonStep(u) PROVE GraceInv'
  BY <1>1, <1>2, <1>5 DEF PersonStep, ClerkChange, RefreshToken, Login, rowVars, historyVars
<1>6. ASSUME NEW r \in Requests, Arrival(r) PROVE UNCHANGED <<stamp, promoted>>
  BY <1>6 DEF Arrival, Visit, CallOwnOrg, CallCrossOrg, rowVars, historyVars
<1>7. ASSUME NEW r \in Requests, Progress(r) PROVE GraceInv'
  BY <1>1, <1>3, <1>4, <1>7 DEF Progress, ProvisionRead, Guard, Check, ClerkAccepts,
     ClerkRefuses, rowVars, historyVars
<1>8. ASSUME NEW r \in Requests, RequestFault(r) PROVE UNCHANGED <<stamp, promoted>>
  BY <1>8 DEF RequestFault, ClerkFails, RollbackChange, rowVars, historyVars
<1>9. CASE UNCHANGED vars
  BY <1>1, <1>9 DEF vars, rowVars, historyVars
<1> QED
  BY <1>1, <1>5, <1>6, <1>7, <1>8, <1>9 DEF Next

-----------------------------------------------------------------------------
(* What the last-admin guard is worth.  TLC shows that requests which overlap  *)
(* break it; here is how much order suffices.                                  *)

\* While a change waits for Clerk or for its commit, no other request is about
\* to write an admin row.  People and Clerk may do what they like meanwhile.
NoOverlap ==
    \A r, s \in Requests :
        r # s /\ req[r].step \in {"clerk", "commit"}
            => req[s].step \notin {"downgrade", "grant", "commit"}

\* The commit will deactivate the row of the request's target.
Demotes(c) == IF c.kind \in Removals THEN c.admin ELSE c.role # "admin"

\* What the checks established still holds when the request comes to its commit.
ChangeOK(c, admins) ==
    c.step \in {"clerk", "commit"} =>
        /\ Demotes(c) => \E u \in admins : u # c.target
        /\ c.kind = "remove" => (c.admin <=> c.target \in admins)

ChangeInv == \A r \in Requests : ChangeOK(req[r], ActiveAdmins)

\* Somebody else is active if the last-admin guard lets a request pass.
LEMMA SomebodyElse ==
  ASSUME ~LastAdmin, NEW t \in Members
  PROVE  \E u \in ActiveAdmins : u # t
<1> SUFFICES ASSUME \A u \in ActiveAdmins : u = t PROVE FALSE
  OBVIOUS
<1>1. ActiveAdmins \subseteq {t} /\ IsFiniteSet({t}) /\ Cardinality({t}) = 1
  BY FS_Singleton
<1>2. /\ IsFiniteSet(ActiveAdmins) /\ Cardinality(ActiveAdmins) <= Cardinality({t})
      /\ Cardinality(ActiveAdmins) \in Nat
  BY <1>1, FS_Subset, FS_CardinalityType
<1> QED
  BY <1>1, <1>2 DEF LastAdmin

\* The checks of all four endpoints are strong enough for what they decide,
\* whichever of the three records of a role they look at.
LEMMA ChecksSuffice ==
  ASSUME IInv, NEW r \in Requests, Check(r)
  PROVE  ChangeOK(req'[r], ActiveAdmins)
<1> DEFINE c == req[r]
           t == c.target
           d == [c EXCEPT !.step = "clerk",
                          !.admin = TakenForAdmin(c.kind, t),
                          !.live = c.kind = "remove" /\ userRow[t] = "active"]
<1>1. /\ c \in RequestType /\ t \in Members
      /\ c.kind \in OwnOrg \cup CrossOrg
      /\ c.kind \notin Removals => c.role \in Roles
  BY RequestTypeOf, StepFacts DEF Check, IInv, Changing
<1>2. req'[r] = IF CheckPasses(c) THEN d ELSE Idle
  BY DEF Check, IInv, TypeOK
<1>3. CASE ~CheckPasses(c)
  BY <1>2, <1>3 DEF ChangeOK, Idle
<1>4. CASE CheckPasses(c)
  <2>1. /\ d.kind = c.kind /\ d.target = t /\ d.role = c.role
        /\ d.admin = TakenForAdmin(c.kind, t)
    BY <1>1 DEF RequestType
  <2>2. Demotes(d) => ~LastAdmin
    <3>1. CASE c.kind = "remove" /\ MayRemove(t)
      BY <2>1, <3>1 DEF MayRemove, Demotes, TakenForAdmin, Removals
    <3>2. CASE c.kind = "removeCross" /\ MayRemoveCross(t)
      BY <2>1, <3>2 DEF MayRemoveCross, Demotes, TakenForAdmin, Removals
    <3>3. CASE c.kind = "setRole" /\ MaySetRole(t, c.role)
      BY <1>1, <2>1, <3>3 DEF MaySetRole, Demotes, Removals, Roles, IInv, TypeOK
    <3>4. CASE c.kind = "setRoleCross" /\ MaySetRoleCross(t, c.role)
      BY <1>1, <2>1, <3>4 DEF MaySetRoleCross, Demotes, Removals, Roles, Clerk, IInv, TypeOK
    <3> QED
      BY <1>4, <3>1, <3>2, <3>3, <3>4 DEF CheckPasses
  <2>3. Demotes(d) => \E u \in ActiveAdmins : u # t
    BY <1>1, <2>2, SomebodyElse
  <2>4. d.kind = "remove" => (d.admin <=> t \in ActiveAdmins)
    BY <1>1, <2>1 DEF TakenForAdmin, ActiveAdmins
  <2> HIDE DEF d
  <2>5. req'[r] = d
    BY <1>2, <1>4
  <2> QED
    BY <2>1, <2>3, <2>4, <2>5 DEF ChangeOK
<1> QED
  BY <1>3, <1>4

\* A step that leaves the admin rows and the change in progress alone.
LEMMA ChangeGoesOn ==
  ASSUME NEW c, NEW d, NEW admins, ChangeOK(c, admins),
         d.step \in {"clerk", "commit"} => c.step \in {"clerk", "commit"},
         d.kind = c.kind, d.target = c.target, d.role = c.role, d.admin = c.admin
  PROVE  ChangeOK(d, admins)
  BY DEF ChangeOK, Demotes

LEMMA SameAdmins == adminRow' = adminRow => ActiveAdmins' = ActiveAdmins
  BY DEF ActiveAdmins, Active

\* The rows are written with no other change in progress, and a request that ends
\* has none.
LEMMA WriteEnds ==
  ASSUME TypeOK, NEW r \in Requests, NoOverlap, ChangeInv,
         req[r].step \in {"downgrade", "grant", "commit"},
         Provisioned(r) \/ End(r)
  PROVE  ChangeInv'
<1> SUFFICES ASSUME NEW s \in Requests PROVE ChangeOK(req'[s], ActiveAdmins')
  BY DEF ChangeInv
<1>1. req'[s].step \notin {"clerk", "commit"}
  <2>1. CASE s = r
    BY <2>1, RequestTypeOf DEF TypeOK, Provisioned, End, GoTo, Idle, RequestType
  <2>2. CASE s # r
    BY <2>2 DEF NoOverlap, TypeOK, Provisioned, End, GoTo
  <2> QED
    BY <2>1, <2>2
<1> QED
  BY <1>1 DEF ChangeOK

\* All other requests keep what they have when r moves and the rows stay.
LEMMA OthersGoOn ==
  ASSUME TypeOK, NEW r \in Requests, NEW d, ChangeInv, adminRow' = adminRow,
         req' = [req EXCEPT ![r] = d], ChangeOK(d, ActiveAdmins)
  PROVE  ChangeInv'
<1> SUFFICES ASSUME NEW s \in Requests PROVE ChangeOK(req'[s], ActiveAdmins')
  BY DEF ChangeInv
<1>1. CASE s = r
  BY <1>1, SameAdmins DEF TypeOK
<1>2. CASE s # r
  <2>1. req'[s] = req[s] /\ ChangeOK(req[s], ActiveAdmins)
    BY <1>2 DEF TypeOK, ChangeInv
  <2> QED
    BY <2>1, SameAdmins
<1> QED
  BY <1>1, <1>2

LEMMA EndGoesOn ==
  ASSUME TypeOK, NEW r \in Requests, ChangeInv, adminRow' = adminRow, End(r)
  PROVE  ChangeInv'
<1>1. ChangeOK(Idle, ActiveAdmins)
  BY DEF ChangeOK, Idle
<1> QED
  BY <1>1, OthersGoOn DEF End

LEMMA GoToGoesOn ==
  ASSUME TypeOK, NEW r \in Requests, NEW s, ChangeInv, adminRow' = adminRow, GoTo(r, s),
         s \in {"clerk", "commit"} => req[r].step \in {"clerk", "commit"}
  PROVE  ChangeInv'
<1> DEFINE d == [req[r] EXCEPT !.step = s]
<1>1. req[r] \in RequestType /\ ChangeOK(req[r], ActiveAdmins)
  BY RequestTypeOf DEF ChangeInv
<1>2. /\ d.step = s /\ d.kind = req[r].kind /\ d.target = req[r].target
      /\ d.role = req[r].role /\ d.admin = req[r].admin
  BY <1>1 DEF RequestType
<1>3. req' = [req EXCEPT ![r] = d]
  BY DEF GoTo
<1> HIDE DEF d
<1>4. ChangeOK(d, ActiveAdmins)
  BY <1>1, <1>2, ChangeGoesOn
<1> QED
  BY <1>3, <1>4, OthersGoOn

\* What the checks established lasts until the commit.
LEMMA ChangeStep == IInv /\ NoOverlap /\ ChangeInv /\ [Next]_vars => ChangeInv'
<1> SUFFICES ASSUME IInv, NoOverlap, ChangeInv, [Next]_vars PROVE ChangeInv'
  OBVIOUS
<1>1. TypeOK
  BY DEF IInv
<1>2. CASE UNCHANGED <<adminRow, req>>
  BY <1>2, SameAdmins DEF ChangeInv
<1>3. ASSUME NEW u \in Members, PersonStep(u) PROVE UNCHANGED <<adminRow, req>>
  BY <1>3 DEF PersonStep, ClerkChange, RefreshToken, GraceElapses, Login, rowVars
<1>4. ASSUME NEW r \in Requests, Arrival(r) PROVE ChangeInv'
  <2>1. PICK d : req' = [req EXCEPT ![r] = d]
    BY <1>4 DEF Arrival, Visit, CallOwnOrg, CallCrossOrg
  <2>2. req'[r].step \in {"provision", "check"} /\ req'[r] = d
    <3>1. ASSUME NEW u \in Members, Visit(r, u) PROVE req'[r].step = "provision"
      BY <1>1, <3>1 DEF Visit, Idle, TypeOK
    <3>2. ASSUME NEW kind, NEW u, NEW t, NEW role, CallOwnOrg(r, kind, u, t, role)
          PROVE  req'[r].step = "provision"
      BY <1>1, <3>2 DEF CallOwnOrg, Idle, TypeOK
    <3>3. ASSUME NEW kind, NEW t, NEW role, CallCrossOrg(r, kind, t, role)
          PROVE  req'[r].step = "check"
      BY <1>1, <3>3 DEF CallCrossOrg, Idle, TypeOK
    <3> QED
      BY <1>1, <1>4, <2>1, <3>1, <3>2, <3>3 DEF Arrival, TypeOK
  <2>3. adminRow' = adminRow /\ ChangeOK(d, ActiveAdmins)
    BY <1>4, <2>2 DEF Arrival, Visit, CallOwnOrg, CallCrossOrg, rowVars, ChangeOK
  <2> QED
    BY <1>1, <2>1, <2>3, OthersGoOn
<1>5. ASSUME NEW r \in Requests, ProvisionRead(r) PROVE ChangeInv'
  <2>1. adminRow' = adminRow
    BY <1>5 DEF ProvisionRead, rowVars
  <2>2. \/ GoTo(r, "downgrade") \/ GoTo(r, "grant") \/ GoTo(r, "guard") \/ End(r)
    BY <1>5 DEF ProvisionRead, Provisioned
  <2> QED
    BY <1>1, <2>1, <2>2, GoToGoesOn, EndGoesOn
<1>6. ASSUME NEW r \in Requests, ProvisionWrite(r) PROVE ChangeInv'
  BY <1>1, <1>6, WriteEnds DEF ProvisionWrite
<1>7. ASSUME NEW r \in Requests, Guard(r) PROVE ChangeInv'
  <2>1. adminRow' = adminRow /\ (GoTo(r, "check") \/ End(r))
    BY <1>7 DEF Guard, rowVars
  <2> QED
    BY <1>1, <2>1, GoToGoesOn, EndGoesOn
<1>8. ASSUME NEW r \in Requests, Check(r) PROVE ChangeInv'
  <2>1. PICK d : req' = [req EXCEPT ![r] = d]
    BY <1>8 DEF Check
  <2>2. adminRow' = adminRow /\ req'[r] = d
    BY <1>1, <1>8, <2>1 DEF Check, rowVars, TypeOK
  <2>3. ChangeOK(d, ActiveAdmins)
    BY <1>8, <2>2, ChecksSuffice
  <2>4. ChangeOK(d, ActiveAdmins)
    BY <2>2, <2>3, ChangeGoesOn
  <2> QED
    BY <1>1, <2>1, <2>2, <2>4, OthersGoOn
<1>9. ASSUME NEW r \in Requests, ClerkAccepts(r) PROVE ChangeInv'
  BY <1>1, <1>9, GoToGoesOn DEF ClerkAccepts, rowVars
<1>10. ASSUME NEW r \in Requests, ClerkRefuses(r) \/ RequestFault(r) PROVE ChangeInv'
  BY <1>1, <1>10, EndGoesOn DEF ClerkRefuses, RequestFault, ClerkFails, RollbackChange, rowVars
<1>11. ASSUME NEW r \in Requests, CommitChange(r) PROVE ChangeInv'
  BY <1>1, <1>11, WriteEnds DEF CommitChange
<1>12. CASE UNCHANGED vars
  BY <1>2, <1>12 DEF vars, rowVars
<1> QED
  BY <1>2, <1>3, <1>4, <1>5, <1>6, <1>7, <1>8, <1>9, <1>10, <1>11, <1>12
     DEF Next, Progress

\* So a commit leaves an admin ...
LEMMA CommitKeepsAnAdmin ==
  ASSUME TypeOK, ChangeInv, IInv, NEW r \in Requests, CommitChange(r), ActiveAdmins # {}
  PROVE  \E u \in Members : adminRow'[u] = "active"
<1> DEFINE c == req[r]
           t == c.target
<1>1. /\ t \in Members /\ c.step = "commit" /\ ChangeOK(c, ActiveAdmins)
      /\ c.kind \notin Removals => c.role \in Roles
  BY StepFacts DEF CommitChange, ChangeInv, Changing
<1> HIDE DEF c
<1>2. CASE Demotes(c)
  <2>1. PICK u \in ActiveAdmins : u # t
    BY <1>1, <1>2 DEF ChangeOK
  <2>2. Deactivate(t) \/ UNCHANGED adminRow
    BY <1>2 DEF CommitChange, WriteRemove, WriteRemoveCross, WriteSetRole,
                WriteSetRoleCross, Demotes, Removals, c
  <2>3. u \in Members /\ adminRow'[u] = "active"
    BY <1>1, <2>1, <2>2 DEF Deactivate, ActiveAdmins, Active, TypeOK
  <2> QED
    BY <2>3
<1>3. CASE ~Demotes(c)
  <2>1. ReactivateOrCreate(t) \/ ReactivateIfExists(t) \/ UNCHANGED adminRow
    BY <1>3 DEF CommitChange, WriteRemove, WriteRemoveCross, WriteSetRole,
                WriteSetRoleCross, Demotes, Removals, c
  <2>2. \A u \in ActiveAdmins : adminRow'[u] = "active"
    BY <1>1, <2>1 DEF ReactivateOrCreate, ReactivateIfExists, ActiveAdmins, Active, TypeOK
  <2> QED
    BY <2>2 DEF ActiveAdmins
<1> QED
  BY <1>2, <1>3

\* ... and a removal no access.
LEMMA CommitRevokes ==
  ASSUME TypeOK, ChangeInv, IInv, NEW r \in Requests, req[r].kind = "remove", CommitChange(r)
  PROVE  adminRow'[req[r].target] # "active"
<1> DEFINE t == req[r].target
<1>1. t \in Members /\ (req[r].admin <=> Active(t))
  BY StepFacts DEF CommitChange, ChangeInv, ChangeOK, Changing, ActiveAdmins
<1>2. IF req[r].admin THEN Deactivate(t) ELSE UNCHANGED adminRow
  BY DEF CommitChange, WriteRemove
<1> QED
  BY <1>1, <1>2 DEF Deactivate, Active, TypeOK

\* What a request relies on lasts in every behaviour without such overlaps.
LEMMA ChangesLast == Spec /\ []NoOverlap => []ChangeInv
<1>1. Init => ChangeInv
  BY DEF Init, ChangeInv, ChangeOK, Idle
<1> QED
  BY <1>1, ChangeStep, InductiveInvariant, PTL DEF Spec

\* The last-admin guard of every endpoint does its work, whichever record of a role it
\* looks at and whatever people and Clerk do, as long as no other request writes an
\* admin row between a request's checks and its commit.
THEOREM GuardKeepsAnAdmin == Spec /\ []NoOverlap => EndpointsKeepAnAdmin
<1>1. IInv /\ ChangeInv /\ [Next]_vars
        => [(\E r \in Requests : CommitChange(r)) /\ ActiveAdmins # {}
              => \E u \in Members : adminRow'[u] = "active"]_vars
  BY CommitKeepsAnAdmin DEF IInv
<1> QED
  BY <1>1, ChangesLast, InductiveInvariant, PTL DEF Spec, EndpointsKeepAnAdmin

\* And so long a member whom remove_member removes is left without an admin row.
THEOREM RemovalIsComplete == Spec /\ []NoOverlap => RemovalRevokesAdmin
<1>1. IInv /\ ChangeInv /\ [Next]_vars
        => [\A r \in Requests :
               req[r].kind = "remove" /\ CommitChange(r)
                 => adminRow'[req[r].target] # "active"]_vars
  BY CommitRevokes DEF IInv
<1> QED
  BY <1>1, ChangesLast, InductiveInvariant, PTL DEF Spec, RemovalRevokesAdmin

\* A downgrade that was decided still concerns a row outside the grace window.
SparesGrace(c) == c.step = "downgrade" => c.caller \notin promoted

DowngradeInv == \A r \in Requests : SparesGrace(req[r])

LEMMA DowngradeStep ==
  IInv /\ GraceInv /\ NoOverlap /\ DowngradeInv /\ [Next]_vars => DowngradeInv'
<1> SUFFICES ASSUME IInv, GraceInv, NoOverlap, DowngradeInv, [Next]_vars,
                    NEW s \in Requests, req'[s].step = "downgrade"
             PROVE  req'[s].caller \notin promoted'
  BY DEF DowngradeInv, SparesGrace
<1>1. TypeOK
  BY DEF IInv
<1>2. ASSUME req'[s] = req[s], promoted' \subseteq promoted
      PROVE  req'[s].caller \notin promoted'
  BY <1>2 DEF DowngradeInv, SparesGrace
<1>3. ASSUME NEW u \in Members, PersonStep(u) PROVE req' = req /\ promoted' \subseteq promoted
  BY <1>3 DEF PersonStep, ClerkChange, RefreshToken, GraceElapses, Login, historyVars
<1>4. ASSUME NEW r \in Requests, Arrival(r) PROVE req'[s].caller \notin promoted'
  <2>1. CASE r # s
    BY <1>1, <1>2, <1>4, <2>1
       DEF Arrival, Visit, CallOwnOrg, CallCrossOrg, historyVars, TypeOK
  <2>2. req'[r].step # "downgrade"
    <3>1. ASSUME NEW u \in Members, Visit(r, u) PROVE req'[r].step = "provision"
      BY <1>1, <3>1 DEF Visit, Idle, TypeOK
    <3>2. ASSUME NEW kind, NEW u, NEW t, NEW role, CallOwnOrg(r, kind, u, t, role)
          PROVE  req'[r].step = "provision"
      BY <1>1, <3>2 DEF CallOwnOrg, Idle, TypeOK
    <3>3. ASSUME NEW kind, NEW t, NEW role, CallCrossOrg(r, kind, t, role)
          PROVE  req'[r].step = "check"
      BY <1>1, <3>3 DEF CallCrossOrg, Idle, TypeOK
    <3> QED
      BY <1>4, <3>1, <3>2, <3>3 DEF Arrival
  <2> QED
    BY <2>1, <2>2
<1>5. ASSUME NEW r \in Requests, ProvisionRead(r) PROVE req'[s].caller \notin promoted'
  <2>1. promoted' = promoted
    BY <1>5 DEF ProvisionRead, historyVars
  <2>2. CASE r # s
    BY <1>1, <1>2, <1>5, <2>1, <2>2 DEF ProvisionRead, Provisioned, GoTo, End, TypeOK
  <2>3. CASE r = s
    <3>1. req'[s].step = "downgrade" => GoTo(s, "downgrade")
      BY <1>1, <1>5, <2>3 DEF ProvisionRead, Provisioned, GoTo, End, Idle, TypeOK
    <3>2. NeedsDowngrade(req[s].caller, req[s].claim) /\ req'[s].caller = req[s].caller
      BY <1>1, <1>5, <2>3, <3>1 DEF ProvisionRead, Provisioned, GoTo, End, Idle, TypeOK
    <3> QED
      BY <2>1, <3>2 DEF NeedsDowngrade, GraceInv
  <2> QED
    BY <2>2, <2>3
<1>6. ASSUME NEW r \in Requests, ProvisionWrite(r) PROVE req'[s].caller \notin promoted'
  <2>1. r # s
    BY <1>1, <1>6 DEF ProvisionWrite, Provisioned, GoTo, End, Idle, TypeOK
  <2> QED
    BY <1>1, <1>2, <1>6, <2>1 DEF ProvisionWrite, Provisioned, GoTo, End, TypeOK
<1>7. ASSUME NEW r \in Requests, CommitChange(r) PROVE FALSE
  <2>1. r # s
    BY <1>1, <1>7 DEF CommitChange, End, Idle, TypeOK
  <2>2. req'[s] = req[s] /\ req[r].step = "commit"
    BY <1>1, <1>7, <2>1 DEF CommitChange, End, TypeOK
  <2> QED
    BY <2>1, <2>2 DEF NoOverlap
<1>8. ASSUME NEW r \in Requests,
             \/ Guard(r) \/ Check(r) \/ ClerkAccepts(r) \/ ClerkRefuses(r) \/ RequestFault(r)
      PROVE  req'[s].caller \notin promoted'
  <2>1. promoted' = promoted
    BY <1>8 DEF Guard, Check, ClerkAccepts, ClerkRefuses, RequestFault, ClerkFails,
                RollbackChange, historyVars
  <2>2. r # s
    <3>1. CASE GoTo(r, "check") \/ GoTo(r, "commit") \/ End(r)
      BY <1>1, <3>1 DEF GoTo, End, Idle, TypeOK
    <3>2. CASE Check(r)
      <4>1. req[r] \in RequestType
        BY <1>1, RequestTypeOf
      <4>2. req'[r].step \in {"clerk", "idle"}
        BY <1>1, <3>2, <4>1 DEF Check, Idle, TypeOK, RequestType
      <4> QED
        BY <4>2
    <3> QED
      BY <1>8, <3>1, <3>2 DEF Guard, ClerkAccepts, ClerkRefuses, RequestFault, ClerkFails,
                              RollbackChange
  <2>3. req'[s] = req[s]
    BY <1>1, <1>8, <2>2 DEF Guard, Check, ClerkAccepts, ClerkRefuses, RequestFault,
                            ClerkFails, RollbackChange, GoTo, End, TypeOK
  <2> QED
    BY <1>2, <2>1, <2>3
<1>9. CASE UNCHANGED vars
  BY <1>2, <1>9 DEF vars, historyVars
<1> QED
  BY <1>2, <1>3, <1>4, <1>5, <1>6, <1>7, <1>8, <1>9 DEF Next, Progress

\* Nor does the downgrade sync take a row back within the grace window that an
\* endpoint reactivated, as long as no other request is about to write an admin row
\* while a change waits for its commit: however old the token, whatever Clerk does.
THEOREM GraceIsKept == Spec /\ []NoOverlap => GraceCoversReactivation
<1>1. Init => GraceInv /\ DowngradeInv
  BY DEF Init, GraceInv, DowngradeInv, SparesGrace, Idle
<1>2. IInv /\ IInv' /\ GraceInv /\ [Next]_vars => GraceInv'
  BY GraceStep DEF IInv
<1>3. DowngradeInv /\ [Next]_vars
        => [\A r \in Requests : req[r].step = "downgrade" /\ ProvisionWrite(r)
              => req[r].caller \notin promoted]_vars
  BY DEF DowngradeInv, SparesGrace
<1> QED
  BY <1>1, <1>2, <1>3, DowngradeStep, InductiveInvariant, PTL
     DEF Spec, GraceCoversReactivation

\* In particular all three hold if one request is served at a time, for any number
\* of people, changes and failures.
THEOREM GuardHoldsSerially ==
  ASSUME \A r, s \in Requests : r = s
  PROVE  Spec => EndpointsKeepAnAdmin /\ RemovalRevokesAdmin /\ GraceCoversReactivation
<1>1. NoOverlap
  BY DEF NoOverlap
<1> QED
  BY <1>1, GuardKeepsAnAdmin, RemovalIsComplete, GraceIsKept, PTL
=============================================================================
