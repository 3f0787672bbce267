------------------------ MODULE JitProvisioningProofs ------------------------
(***************************************************************************)
(* Proofs that first logins keep their promises for every number of        *)
(* people, organisations and racing requests: rows never change their      *)
(* organisation, and for everybody who is in one organisation the handler  *)
(* finds its caller, no race ends in an error and whoever was served is    *)
(* known.                                                                  *)
(***************************************************************************)
EXTENDS JitProvisioning, TLAPS

\* The row of the caller of c is in the scope of c, committed or not.
Finds(c, h) == h[c.table][c.person] = c.org \/ "row" \in c.wrote

\* What a request may rely on between its statements, given the committed rows:
\* whose it is; that what it wrote belongs to nobody else; that it has seen, or
\* written, what it is about to use.
RequestOK(c, h, o) ==
    /\ c.pc = "new" => c.wrote = {}
    /\ c.pc # "new" => <<c.person, c.org>> \in Member
    /\ c.pc \in {"insert", "reactivate"} => c.table = "users"
    /\ c.pc = "grant" => c.table = "clerk_admin_users"
    /\ c.pc = "reactivate" => h[c.table][c.person] = c.org
    /\ "row" \in c.wrote => h[c.table][c.person] \in {None, c.org}
    /\ c.pc = "reread" => c.org \in o \/ "org" \in c.wrote

\* What it may rely on besides, if its caller is in one organisation.
RequestServedWell(c, h) ==
    /\ c.pc = "handler" => Finds(c, h)
    /\ c.pc = "served" => h[c.table][c.person] = c.org
    /\ c.pc # "rejected"

RequestInv == \A r \in Requests : RequestOK(req[r], home, organisation)

ServiceInv ==
    \A r \in Requests : InOneOrg(req[r].person) => RequestServedWell(req[r], home)

\* A committed row is in an organisation of its person.
HomeInv ==
    \A t \in Tables, p \in People : home[t][p] # None => <<p, home[t][p]>> \in Member

\* At most one open transaction has written a person's row.
OneWriter ==
    \A r, s \in Requests :
        /\ "row" \in req[r].wrote /\ "row" \in req[s].wrote
        /\ req[r].table = req[s].table /\ req[r].person = req[s].person
        => r = s

IInv == TypeOK /\ RequestInv /\ ServiceInv /\ HomeInv /\ OneWriter

-----------------------------------------------------------------------------
LEMMA InitInv == Init => IInv
<1> SUFFICES ASSUME Init PROVE IInv
  OBVIOUS
<1>1. TypeOK
  BY JitAssumption DEF Init, TypeOK, NoRequest, Tables, Stages
<1>2. RequestInv /\ ServiceInv
  BY DEF Init, RequestInv, ServiceInv, RequestOK, RequestServedWell, NoRequest
<1>3. HomeInv /\ OneWriter
  BY DEF Init, HomeInv, OneWriter, NoRequest
<1> QED
  BY <1>1, <1>2, <1>3 DEF IInv

\* Types, for the steps that change one request and no row.
LEMMA StepType ==
  ASSUME TypeOK, NEW r \in Requests, UNCHANGED committed,
         \A q \in Requests \ {r} : req'[q] = req[q],
         req' = [q \in Requests |-> req'[q]],
         req'[r] \in [pc : Stages, person : People \cup {None}, org : Orgs \cup {None},
                      table : Tables, wrote : SUBSET {"org", "row"}],
         faults' \in 0..MaxFaults, removals' \in 0..MaxRemovals
  PROVE  TypeOK'
<1>1. \A q \in Requests :
         req'[q] \in [pc : Stages, person : People \cup {None}, org : Orgs \cup {None},
                     table : Tables, wrote : SUBSET {"org", "row"}]
  BY DEF TypeOK
<1>2. req' \in [Requests -> [pc : Stages, person : People \cup {None},
                            org : Orgs \cup {None}, table : Tables,
                            wrote : SUBSET {"org", "row"}]]
  BY <1>1
<1> QED
  BY <1>2 DEF TypeOK, committed

\* Such a step keeps the invariant if the request it changes keeps its part, and
\* has not written a row that another open transaction has written.
LEMMA StepInv ==
  ASSUME IInv, TypeOK', NEW r \in Requests, UNCHANGED committed,
         \A q \in Requests \ {r} : req'[q] = req[q],
         RequestOK(req'[r], home, organisation),
         InOneOrg(req'[r].person) => RequestServedWell(req'[r], home),
         "row" \in req'[r].wrote =>
            \/ /\ "row" \in req[r].wrote
               /\ req'[r].table = req[r].table /\ req'[r].person = req[r].person
            \/ ~RowLocked(req'[r].table, req'[r].person)
  PROVE  IInv'
<1>1. RequestInv'
  BY DEF IInv, RequestInv, committed
<1>2. ServiceInv'
  BY DEF IInv, ServiceInv, InOneOrg, committed
<1>3. HomeInv'
  BY DEF IInv, HomeInv, committed
<1>4. OneWriter'
  <2> SUFFICES ASSUME NEW q \in Requests, NEW s \in Requests,
                      "row" \in req'[q].wrote, "row" \in req'[s].wrote,
                      req'[q].table = req'[s].table, req'[q].person = req'[s].person,
                      q # s
               PROVE  FALSE
    BY DEF OneWriter
  <2>1. CASE q # r /\ s # r
    BY <2>1 DEF IInv, OneWriter
  <2>2. CASE q = r
    BY <2>2 DEF IInv, OneWriter, RowLocked
  <2>3. CASE s = r
    BY <2>3 DEF IInv, OneWriter, RowLocked
  <2> QED
    BY <2>1, <2>2, <2>3
<1> QED
  BY <1>1, <1>2, <1>3, <1>4 DEF IInv

\* The shapes of a change to one request.
LEMMA GotoShape ==
  ASSUME TypeOK, NEW r \in Requests, NEW pc, Goto(r, pc)
  PROVE  /\ req' = [q \in Requests |-> req'[q]]
         /\ \A q \in Requests \ {r} : req'[q] = req[q]
         /\ req'[r] = [req[r] EXCEPT !.pc = pc]
  BY DEF TypeOK, Goto

LEMMA WriteShape ==
  ASSUME TypeOK, NEW r \in Requests, NEW what, NEW pc, Write(r, what, pc)
  PROVE  /\ req' = [q \in Requests |-> req'[q]]
         /\ \A q \in Requests \ {r} : req'[q] = req[q]
         /\ req'[r] = [req[r] EXCEPT !.pc = pc, !.wrote = @ \cup {what}]
  BY DEF TypeOK, Write

LEMMA AbandonShape ==
  ASSUME TypeOK, NEW r \in Requests, NEW pc, Abandon(r, pc)
  PROVE  /\ req' = [q \in Requests |-> req'[q]]
         /\ \A q \in Requests \ {r} : req'[q] = req[q]
         /\ req'[r] = [req[r] EXCEPT !.pc = pc, !.wrote = {}]
  BY DEF TypeOK, Abandon

\* A request that only moves on keeps the invariant if its new stage is justified.
LEMMA GotoInv ==
  ASSUME IInv, NEW r \in Requests, NEW pc \in Stages, Goto(r, pc), UNCHANGED committed,
         faults' \in 0..MaxFaults, removals' \in 0..MaxRemovals,
         RequestOK([req[r] EXCEPT !.pc = pc], home, organisation),
         InOneOrg(req[r].person) => RequestServedWell([req[r] EXCEPT !.pc = pc], home)
  PROVE  IInv'
<1>1. /\ req' = [q \in Requests |-> req'[q]]
      /\ \A q \in Requests \ {r} : req'[q] = req[q]
      /\ req'[r] = [req[r] EXCEPT !.pc = pc]
  BY GotoShape DEF IInv
<1>2. TypeOK'
  <2>1. req'[r] \in [pc : Stages, person : People \cup {None}, org : Orgs \cup {None},
                     table : Tables, wrote : SUBSET {"org", "row"}]
    BY <1>1 DEF IInv, TypeOK
  <2>2. TypeOK /\ faults' \in 0..MaxFaults /\ removals' \in 0..MaxRemovals
    BY DEF IInv, TypeOK
  <2> QED
    BY <1>1, <2>1, <2>2, StepType
<1>3. req'[r].wrote = req[r].wrote /\ req'[r].table = req[r].table
      /\ req'[r].person = req[r].person
  BY <1>1 DEF IInv, TypeOK
<1> QED
  BY <1>1, <1>2, <1>3, StepInv

\* So does one that writes the row of a key nobody else has written.
LEMMA WriteInv ==
  ASSUME IInv, NEW r \in Requests, NEW what \in {"org", "row"}, NEW pc \in Stages,
         Write(r, what, pc), UNCHANGED committed, UNCHANGED budgets,
         what = "row" => ~RowLocked(req[r].table, req[r].person),
         RequestOK([req[r] EXCEPT !.pc = pc, !.wrote = @ \cup {what}], home, organisation),
         InOneOrg(req[r].person) =>
            RequestServedWell([req[r] EXCEPT !.pc = pc, !.wrote = @ \cup {what}], home)
  PROVE  IInv'
<1>1. /\ req' = [q \in Requests |-> req'[q]]
      /\ \A q \in Requests \ {r} : req'[q] = req[q]
      /\ req'[r] = [req[r] EXCEPT !.pc = pc, !.wrote = @ \cup {what}]
  BY WriteShape DEF IInv
<1>2. TypeOK'
  <2>1. req'[r] \in [pc : Stages, person : People \cup {None}, org : Orgs \cup {None},
                     table : Tables, wrote : SUBSET {"org", "row"}]
    <3> DEFINE w == req[r].wrote \cup {what}
    <3>1. req[r].wrote \in SUBSET {"org", "row"}
      BY DEF IInv, TypeOK
    <3>2. w \in SUBSET {"org", "row"}
      BY <3>1
    <3>3. req'[r] = [req[r] EXCEPT !.pc = pc, !.wrote = w]
      BY <1>1
    <3> HIDE DEF w
    <3> QED
      BY <3>2, <3>3 DEF IInv, TypeOK
  <2>2. TypeOK /\ faults' \in 0..MaxFaults /\ removals' \in 0..MaxRemovals
    BY DEF IInv, TypeOK, budgets
  <2> QED
    BY <1>1, <2>1, <2>2, StepType
<1>3. req'[r].wrote = req[r].wrote \cup {what} /\ req'[r].table = req[r].table
      /\ req'[r].person = req[r].person
  BY <1>1 DEF IInv, TypeOK
<1> QED
  BY <1>1, <1>2, <1>3, StepInv

\* And one whose transaction ends without a commit.
LEMMA AbandonInv ==
  ASSUME IInv, NEW r \in Requests, NEW pc \in Ended, Abandon(r, pc), UNCHANGED committed,
         faults' \in 0..MaxFaults, removals' \in 0..MaxRemovals,
         req[r].pc # "new",
         InOneOrg(req[r].person) => pc \notin {"served", "rejected"}
  PROVE  IInv'
<1>1. /\ req' = [q \in Requests |-> req'[q]]
      /\ \A q \in Requests \ {r} : req'[q] = req[q]
      /\ req'[r] = [req[r] EXCEPT !.pc = pc, !.wrote = {}]
  BY AbandonShape DEF IInv
<1>2. TypeOK'
  <2>1. req'[r] \in [pc : Stages, person : People \cup {None}, org : Orgs \cup {None},
                     table : Tables, wrote : SUBSET {"org", "row"}]
    BY <1>1 DEF IInv, TypeOK, Stages
  <2>2. TypeOK /\ faults' \in 0..MaxFaults /\ removals' \in 0..MaxRemovals
    BY DEF IInv, TypeOK
  <2> QED
    BY <1>1, <2>1, <2>2, StepType
<1>3. /\ req'[r].wrote = {} /\ req'[r].pc = pc
      /\ req'[r].person = req[r].person /\ req'[r].org = req[r].org
  BY <1>1 DEF IInv, TypeOK
<1>4. RequestOK(req'[r], home, organisation)
  BY <1>3 DEF RequestOK, Ended, IInv, RequestInv
<1>5. InOneOrg(req'[r].person) => RequestServedWell(req'[r], home)
  BY <1>3 DEF RequestServedWell, Ended
<1> QED
  BY <1>1, <1>2, <1>3, <1>4, <1>5, StepInv

-----------------------------------------------------------------------------
\* What a commit does to the committed rows: it adds, and overwrites nothing.
LEMMA CommitRows ==
  ASSUME IInv, NEW r \in Requests, req[r].pc # "new", NEW pc, Commit(r, pc)
  PROVE  /\ organisation \subseteq organisation' /\ organisation' \subseteq Orgs
         /\ home' \in [Tables -> [People -> Orgs \cup {None}]]
         /\ active' \in [Tables -> SUBSET People]
         /\ \A t \in Tables, p \in People :
               \/ home'[t][p] = home[t][p]
               \/ /\ home[t][p] = None /\ home'[t][p] = req[r].org
                  /\ "row" \in req[r].wrote /\ t = req[r].table /\ p = req[r].person
         /\ "row" \in req[r].wrote => home'[req[r].table][req[r].person] = req[r].org
<1>1. /\ <<req[r].person, req[r].org>> \in Member
      /\ req[r].person \in People /\ req[r].org \in Orgs /\ req[r].table \in Tables
  BY JitAssumption DEF IInv, RequestInv, RequestOK, TypeOK
<1>2. "row" \in req[r].wrote =>
         home[req[r].table][req[r].person] \in {None, req[r].org}
  BY DEF IInv, RequestInv, RequestOK
<1>3. organisation \subseteq organisation' /\ organisation' \subseteq Orgs
  BY <1>1 DEF Commit, IInv, TypeOK
<1>4. CASE "row" \in req[r].wrote
  <2>1. /\ home' = [home EXCEPT ![req[r].table][req[r].person] = req[r].org]
        /\ active' = [active EXCEPT ![req[r].table] = @ \cup {req[r].person}]
    BY <1>4 DEF Commit
  <2>2. /\ home' \in [Tables -> [People -> Orgs \cup {None}]]
        /\ active' \in [Tables -> SUBSET People]
    BY <1>1, <2>1 DEF IInv, TypeOK
  <2>3. home'[req[r].table][req[r].person] = req[r].org
    BY <1>1, <2>1 DEF IInv, TypeOK
  <2>4. ASSUME NEW t \in Tables, NEW p \in People,
               t # req[r].table \/ p # req[r].person
        PROVE  home'[t][p] = home[t][p]
    BY <1>1, <2>1, <2>4 DEF IInv, TypeOK
  <2> QED
    BY <1>1, <1>2, <1>3, <1>4, <2>2, <2>3, <2>4
<1>5. CASE "row" \notin req[r].wrote
  BY <1>3, <1>5 DEF Commit, IInv, TypeOK
<1> QED
  BY <1>4, <1>5

\* A commit keeps the invariant; a request is served with a row only.
LEMMA CommitInv ==
  ASSUME IInv, NEW r \in Requests, NEW pc \in {"guard", "served"}, req[r].pc # "new",
         Commit(r, pc), UNCHANGED budgets,
         InOneOrg(req[r].person) /\ pc = "served" => Finds(req[r], home)
  PROVE  IInv'
<1>1. /\ req' = [q \in Requests |-> req'[q]]
      /\ \A q \in Requests \ {r} : req'[q] = req[q]
      /\ req'[r] = [req[r] EXCEPT !.pc = pc, !.wrote = {}]
  BY AbandonShape DEF IInv, Commit
<1>2. /\ organisation \subseteq organisation' /\ organisation' \subseteq Orgs
      /\ home' \in [Tables -> [People -> Orgs \cup {None}]]
      /\ active' \in [Tables -> SUBSET People]
  BY CommitRows
<1>3. \A t \in Tables, p \in People :
         \/ home'[t][p] = home[t][p]
         \/ /\ home[t][p] = None /\ home'[t][p] = req[r].org
            /\ "row" \in req[r].wrote /\ t = req[r].table /\ p = req[r].person
  BY CommitRows
<1>4. /\ <<req[r].person, req[r].org>> \in Member
      /\ req[r].person \in People /\ req[r].org \in Orgs /\ req[r].table \in Tables
  BY JitAssumption DEF IInv, RequestInv, RequestOK, TypeOK
<1>5. TypeOK'
  <2>1. req'[r] \in [pc : Stages, person : People \cup {None}, org : Orgs \cup {None},
                     table : Tables, wrote : SUBSET {"org", "row"}]
    BY <1>1 DEF IInv, TypeOK, Stages, Ended
  <2>2. \A q \in Requests :
           req'[q] \in [pc : Stages, person : People \cup {None}, org : Orgs \cup {None},
                       table : Tables, wrote : SUBSET {"org", "row"}]
    BY <1>1, <2>1 DEF IInv, TypeOK
  <2>3. req' \in [Requests -> [pc : Stages, person : People \cup {None},
                              org : Orgs \cup {None}, table : Tables,
                              wrote : SUBSET {"org", "row"}]]
    BY <1>1, <2>2
  <2>4. faults' \in 0..MaxFaults /\ removals' \in 0..MaxRemovals
    BY DEF IInv, TypeOK, budgets
  <2> QED
    BY <1>2, <2>3, <2>4 DEF TypeOK
<1>6. /\ req'[r].wrote = {} /\ req'[r].pc = pc /\ req'[r].table = req[r].table
      /\ req'[r].person = req[r].person /\ req'[r].org = req[r].org
  BY <1>1 DEF IInv, TypeOK
<1>7. ASSUME NEW q \in Requests, q # r, req[q].pc # "new"
      PROVE  /\ req[q].table \in Tables /\ req[q].person \in People
             /\ home[req[q].table][req[q].person] # None =>
                   home'[req[q].table][req[q].person] = home[req[q].table][req[q].person]
             /\ "row" \in req[q].wrote =>
                   home'[req[q].table][req[q].person] = home[req[q].table][req[q].person]
  <2>1. <<req[q].person, req[q].org>> \in Member /\ req[q].table \in Tables
    BY <1>7 DEF IInv, RequestInv, RequestOK, TypeOK
  <2>2. req[q].person \in People
    BY <2>1, JitAssumption
  <2>3. "row" \in req[q].wrote /\ "row" \in req[r].wrote =>
           req[q].table # req[r].table \/ req[q].person # req[r].person
    BY <1>7 DEF IInv, OneWriter
  <2> QED
    BY <1>3, <2>1, <2>2, <2>3
<1>8. RequestInv'
  <2> SUFFICES ASSUME NEW q \in Requests PROVE RequestOK(req'[q], home', organisation')
    BY DEF RequestInv
  <2>1. CASE q = r
    BY <1>4, <1>6, <2>1 DEF RequestOK
  <2>2. CASE q # r /\ req[q].pc = "new"
    BY <1>1, <2>2 DEF IInv, RequestInv, RequestOK
  <2>3. CASE q # r /\ req[q].pc # "new"
    <3>1. req'[q] = req[q] /\ RequestOK(req[q], home, organisation)
      BY <1>1, <2>3 DEF IInv, RequestInv
    <3>2. req[q].org \in Orgs
      BY <3>1, <2>3, JitAssumption DEF RequestOK
    <3> QED
      BY <1>2, <1>7, <2>3, <3>1, <3>2, JitAssumption DEF RequestOK
  <2> QED
    BY <2>1, <2>2, <2>3
<1>9. ServiceInv'
  <2> SUFFICES ASSUME NEW q \in Requests, InOneOrg(req'[q].person)
               PROVE  RequestServedWell(req'[q], home')
    BY DEF ServiceInv, InOneOrg
  <2>1. CASE q = r
    <3>1. pc = "served" => home'[req[r].table][req[r].person] = req[r].org
      <4>1. CASE "row" \in req[r].wrote
        BY <4>1, CommitRows
      <4>2. CASE "row" \notin req[r].wrote
        BY <1>3, <1>4, <1>6, <2>1, <4>2 DEF Finds
      <4> QED
        BY <4>1, <4>2
    <3> QED
      BY <1>6, <2>1, <3>1 DEF RequestServedWell
  <2>2. CASE q # r /\ req[q].pc = "new"
    BY <1>1, <2>2 DEF RequestServedWell
  <2>3. CASE q # r /\ req[q].pc # "new"
    <3>1. req'[q] = req[q] /\ RequestServedWell(req[q], home)
      BY <1>1, <2>3 DEF IInv, ServiceInv
    <3>2. req[q].org \in Orgs /\ req[q].org # None
      BY <2>3, JitAssumption DEF IInv, RequestInv, RequestOK
    <3> QED
      BY <1>7, <2>3, <3>1, <3>2 DEF RequestServedWell, Finds
  <2> QED
    BY <2>1, <2>2, <2>3
<1>10. HomeInv'
  BY <1>3, <1>4 DEF IInv, HomeInv
<1>11. OneWriter'
  BY <1>1, <1>6 DEF IInv, OneWriter
<1> QED
  BY <1>5, <1>8, <1>9, <1>10, <1>11 DEF IInv

-----------------------------------------------------------------------------
\* Facts about the request at hand: types, its part of the invariant, and that
\* for a caller in one organisation a committed row is visible.
LEMMA AtHand ==
  ASSUME IInv, NEW r \in Requests, req[r].pc # "new"
  PROVE  /\ req[r] \in [pc : Stages, person : People \cup {None}, org : Orgs \cup {None},
                        table : Tables, wrote : SUBSET {"org", "row"}]
         /\ RequestOK(req[r], home, organisation)
         /\ <<req[r].person, req[r].org>> \in Member
         /\ req[r].person \in People /\ req[r].org \in Orgs
         /\ InOneOrg(req[r].person) => RequestServedWell(req[r], home)
         /\ InOneOrg(req[r].person) => ~HiddenRow(r)
         /\ faults \in 0..MaxFaults /\ removals \in 0..MaxRemovals
<1>1. /\ req[r] \in [pc : Stages, person : People \cup {None}, org : Orgs \cup {None},
                     table : Tables, wrote : SUBSET {"org", "row"}]
      /\ RequestOK(req[r], home, organisation)
      /\ <<req[r].person, req[r].org>> \in Member
      /\ InOneOrg(req[r].person) => RequestServedWell(req[r], home)
      /\ faults \in 0..MaxFaults /\ removals \in 0..MaxRemovals
  BY DEF IInv, TypeOK, RequestInv, RequestOK, ServiceInv
<1>2. req[r].person \in People /\ req[r].org \in Orgs
  BY <1>1, JitAssumption
<1>3. /\ home[req[r].table][req[r].person] \in Orgs \cup {None}
      /\ home[req[r].table][req[r].person] # None =>
            <<req[r].person, home[req[r].table][req[r].person]>> \in Member
  BY <1>1, <1>2 DEF IInv, HomeInv, TypeOK
<1>4. InOneOrg(req[r].person) => ~HiddenRow(r)
  BY <1>1, <1>2, <1>3 DEF InOneOrg, HiddenRow
<1> QED
  BY <1>1, <1>2, <1>4

LEMMA ArriveInv ==
  ASSUME IInv, NEW r \in Requests, Arrive(r)
  PROVE  IInv'
<1>1. PICK m \in Member, t \in Tables :
         req' = [req EXCEPT ![r] =
                   [pc |-> IF t = "users" THEN "identity" ELSE "organisation",
                    person |-> m[1], org |-> m[2], table |-> t, wrote |-> {}]]
  BY DEF Arrive
<1>2. m[1] \in People /\ m[2] \in Orgs /\ m = <<m[1], m[2]>>
  BY JitAssumption
<1>3. /\ req' = [q \in Requests |-> req'[q]]
      /\ \A q \in Requests \ {r} : req'[q] = req[q]
      /\ req'[r] = [pc |-> IF t = "users" THEN "identity" ELSE "organisation",
                    person |-> m[1], org |-> m[2], table |-> t, wrote |-> {}]
  BY <1>1 DEF IInv, TypeOK
<1>4. UNCHANGED committed /\ UNCHANGED budgets
  BY DEF Arrive, committed, budgets
<1>5. TypeOK'
  BY <1>2, <1>3, <1>4, StepType DEF IInv, TypeOK, Stages, budgets
<1>6. RequestOK(req'[r], home, organisation)
  BY <1>2, <1>3 DEF RequestOK
<1>7. RequestServedWell(req'[r], home)
  BY <1>3 DEF RequestServedWell
<1>8. req'[r].wrote = {}
  BY <1>3
<1> QED
  BY <1>3, <1>4, <1>5, <1>6, <1>7, <1>8, StepInv

LEMMA ProvisionInv ==
  ASSUME IInv, NEW r \in Requests, Provision(r)
  PROVE  IInv'
<1>1. req[r].pc # "new"
  BY DEF Provision, ReadIdentity, ReadOrganisation, FetchOrganisation, ClerkUnavailable,
         InsertOrganisation, RereadOrganisation, InsertUser, Reactivate, GrantAdmin
<1>2. /\ req[r] \in [pc : Stages, person : People \cup {None}, org : Orgs \cup {None},
                     table : Tables, wrote : SUBSET {"org", "row"}]
      /\ RequestOK(req[r], home, organisation)
      /\ <<req[r].person, req[r].org>> \in Member
      /\ req[r].person \in People /\ req[r].org \in Orgs
      /\ InOneOrg(req[r].person) => ~HiddenRow(r)
      /\ faults \in 0..MaxFaults /\ removals \in 0..MaxRemovals
  BY <1>1, AtHand
<1>3. CASE ReadIdentity(r)
  <2> DEFINE next == IF req[r].table = "users"
                     THEN IF ~SeesIdentity(r) THEN "organisation"
                          ELSE IF SeesActive(r) THEN "handler" ELSE "reactivate"
                     ELSE IF SeesActive(r) THEN "provisioned" ELSE "grant"
  <2>1. Goto(r, next) /\ UNCHANGED committed /\ UNCHANGED budgets
    BY <1>3 DEF ReadIdentity
  <2>2. next \in Stages /\ next # "new" /\ next \notin {"insert", "reread"}
    BY DEF Stages
  <2>3. next = "reactivate" => home[req[r].table][req[r].person] = req[r].org
    BY <1>2 DEF SeesIdentity, SeesActive
  <2>4. next = "handler" => Finds(req[r], home)
    BY DEF SeesIdentity, Finds
  <2>5. /\ next = "reactivate" => req[r].table = "users"
        /\ next = "grant" => req[r].table = "clerk_admin_users"
    BY <1>2 DEF Tables
  <2>6. next \notin {"served", "rejected"}
    OBVIOUS
  <2> HIDE DEF next
  <2>7. RequestOK([req[r] EXCEPT !.pc = next], home, organisation)
    BY <1>2, <2>2, <2>3, <2>5 DEF RequestOK
  <2>8. RequestServedWell([req[r] EXCEPT !.pc = next], home)
    BY <1>2, <2>4, <2>6 DEF RequestServedWell, Finds
  <2> QED
    BY <1>2, <2>1, <2>2, <2>7, <2>8, GotoInv DEF budgets
<1>4. CASE ReadOrganisation(r)
  <2> DEFINE next == IF SeesOrg(r) THEN AfterOrg(r) ELSE "clerk"
  <2>1. Goto(r, next) /\ UNCHANGED committed /\ UNCHANGED budgets
    BY <1>4 DEF ReadOrganisation
  <2>2. next \in {"insert", "identity", "clerk"} /\ (next = "insert" => req[r].table = "users")
    BY DEF AfterOrg
  <2> HIDE DEF next
  <2>3. RequestOK([req[r] EXCEPT !.pc = next], home, organisation)
    BY <1>2, <2>2 DEF RequestOK
  <2>4. RequestServedWell([req[r] EXCEPT !.pc = next], home)
    BY <1>2, <2>2 DEF RequestServedWell
  <2>5. next \in Stages
    BY <2>2 DEF Stages
  <2> QED
    BY <1>2, <2>1, <2>3, <2>4, <2>5, GotoInv DEF budgets
<1>5. CASE FetchOrganisation(r)
  <2>1. Goto(r, "insertOrg") /\ UNCHANGED committed /\ UNCHANGED budgets
    BY <1>5 DEF FetchOrganisation
  <2>2. RequestOK([req[r] EXCEPT !.pc = "insertOrg"], home, organisation)
    BY <1>2 DEF RequestOK
  <2>3. RequestServedWell([req[r] EXCEPT !.pc = "insertOrg"], home)
    BY <1>2 DEF RequestServedWell
  <2>4. "insertOrg" \in Stages
    BY DEF Stages
  <2> QED
    BY <1>2, <2>1, <2>2, <2>3, <2>4, GotoInv DEF budgets
<1>6. CASE ClerkUnavailable(r)
  <2>1. /\ Abandon(r, "unavailable") /\ UNCHANGED committed
        /\ faults' \in 0..MaxFaults /\ removals' \in 0..MaxRemovals
    BY <1>2, <1>6, JitAssumption DEF ClerkUnavailable, committed
  <2> QED
    BY <1>1, <2>1, AbandonInv DEF Ended
<1>7. CASE InsertOrganisation(r)
  <2>1. UNCHANGED committed /\ UNCHANGED budgets
    BY <1>7 DEF InsertOrganisation
  <2>2. "reread" \in Stages
    BY DEF Stages
  <2>3. CASE req[r].org \in organisation
    <3>1. Goto(r, "reread")
      BY <1>7, <2>3 DEF InsertOrganisation
    <3>2. RequestOK([req[r] EXCEPT !.pc = "reread"], home, organisation)
      BY <1>2, <2>3 DEF RequestOK
    <3>3. RequestServedWell([req[r] EXCEPT !.pc = "reread"], home)
      BY <1>2 DEF RequestServedWell
    <3> QED
      BY <1>2, <2>1, <2>2, <3>1, <3>2, <3>3, GotoInv DEF budgets
  <2>4. CASE req[r].org \notin organisation
    <3>1. Write(r, "org", "reread")
      BY <1>7, <2>4 DEF InsertOrganisation
    <3>2. RequestOK([req[r] EXCEPT !.pc = "reread", !.wrote = @ \cup {"org"}],
                    home, organisation)
      BY <1>2 DEF RequestOK
    <3>3. RequestServedWell([req[r] EXCEPT !.pc = "reread", !.wrote = @ \cup {"org"}], home)
      BY <1>2 DEF RequestServedWell
    <3> QED
      BY <2>1, <2>2, <3>1, <3>2, <3>3, WriteInv
  <2> QED
    BY <2>3, <2>4
<1>8. CASE RereadOrganisation(r)
  <2>1. SeesOrg(r)
    BY <1>2, <1>8 DEF RereadOrganisation, RequestOK, SeesOrg
  <2>2. Goto(r, AfterOrg(r)) /\ UNCHANGED committed /\ UNCHANGED budgets
    BY <1>8, <2>1 DEF RereadOrganisation
  <2> DEFINE next == AfterOrg(r)
  <2>3. next \in {"insert", "identity"} /\ (next = "insert" => req[r].table = "users")
    BY DEF AfterOrg
  <2>4. Goto(r, next)
    BY <2>2
  <2> HIDE DEF next
  <2>5. RequestOK([req[r] EXCEPT !.pc = next], home, organisation)
    BY <1>2, <2>3 DEF RequestOK
  <2>6. RequestServedWell([req[r] EXCEPT !.pc = next], home)
    BY <1>2, <2>3 DEF RequestServedWell
  <2>7. next \in Stages
    BY <2>3 DEF Stages
  <2> QED
    BY <1>2, <2>2, <2>4, <2>5, <2>6, <2>7, GotoInv DEF budgets
<1>9. CASE InsertUser(r)
  <2>1. /\ req[r].table = "users" /\ ~RowLocked("users", req[r].person)
        /\ UNCHANGED committed /\ UNCHANGED budgets
    BY <1>2, <1>9 DEF InsertUser, RequestOK
  <2>2. "handler" \in Stages
    BY DEF Stages
  <2>3. CASE home["users"][req[r].person] = None
    <3>1. Write(r, "row", "handler")
      BY <1>9, <2>3 DEF InsertUser
    <3>2. RequestOK([req[r] EXCEPT !.pc = "handler", !.wrote = @ \cup {"row"}],
                    home, organisation)
      BY <1>2, <2>1, <2>3 DEF RequestOK
    <3>3. RequestServedWell([req[r] EXCEPT !.pc = "handler", !.wrote = @ \cup {"row"}], home)
      BY <1>2 DEF RequestServedWell, Finds
    <3> QED
      BY <2>1, <2>2, <3>1, <3>2, <3>3, WriteInv
  <2>4. CASE home["users"][req[r].person] # None
    <3>1. Goto(r, "handler")
      BY <1>9, <2>4 DEF InsertUser
    <3>2. RequestOK([req[r] EXCEPT !.pc = "handler"], home, organisation)
      BY <1>2 DEF RequestOK
    <3>3. InOneOrg(req[r].person) => RequestServedWell([req[r] EXCEPT !.pc = "handler"], home)
      BY <1>2, <2>1, <2>4 DEF RequestServedWell, Finds, HiddenRow
    <3> QED
      BY <1>2, <2>1, <2>2, <3>1, <3>2, <3>3, GotoInv DEF budgets
  <2> QED
    BY <2>3, <2>4
<1>10. CASE Reactivate(r)
  <2>1. /\ req[r].table = "users" /\ ~RowLocked("users", req[r].person)
        /\ home[req[r].table][req[r].person] = req[r].org
        /\ UNCHANGED committed /\ UNCHANGED budgets
        /\ Write(r, "row", "handler")
    BY <1>2, <1>10 DEF Reactivate, RequestOK
  <2>2. RequestOK([req[r] EXCEPT !.pc = "handler", !.wrote = @ \cup {"row"}],
                  home, organisation)
    BY <1>2, <2>1 DEF RequestOK
  <2>3. RequestServedWell([req[r] EXCEPT !.pc = "handler", !.wrote = @ \cup {"row"}], home)
    BY <1>2 DEF RequestServedWell, Finds
  <2>4. "handler" \in Stages
    BY DEF Stages
  <2> QED
    BY <2>1, <2>2, <2>3, <2>4, WriteInv
<1>11. CASE GrantAdmin(r)
  <2>1. /\ req[r].table = "clerk_admin_users"
        /\ ~RowLocked("clerk_admin_users", req[r].person)
        /\ UNCHANGED committed /\ UNCHANGED budgets
    BY <1>2, <1>11 DEF GrantAdmin, RequestOK
  <2>2. CASE HiddenRow(r)
    <3>1. Abandon(r, "rejected") /\ ~InOneOrg(req[r].person)
      BY <1>2, <1>11, <2>2 DEF GrantAdmin
    <3> QED
      BY <1>1, <1>2, <2>1, <3>1, AbandonInv DEF Ended, budgets
  <2>3. CASE ~HiddenRow(r)
    <3>1. Write(r, "row", "provisioned")
      BY <1>11, <2>3 DEF GrantAdmin
    <3>2. RequestOK([req[r] EXCEPT !.pc = "provisioned", !.wrote = @ \cup {"row"}],
                    home, organisation)
      BY <1>2, <2>3 DEF RequestOK, HiddenRow
    <3>3. RequestServedWell([req[r] EXCEPT !.pc = "provisioned", !.wrote = @ \cup {"row"}],
                            home)
      BY <1>2 DEF RequestServedWell
    <3>4. "provisioned" \in Stages
      BY DEF Stages
    <3> QED
      BY <2>1, <3>1, <3>2, <3>3, <3>4, WriteInv
  <2> QED
    BY <2>2, <2>3
<1> QED
  BY <1>3, <1>4, <1>5, <1>6, <1>7, <1>8, <1>9, <1>10, <1>11 DEF Provision

LEMMA HandleInv ==
  ASSUME IInv, NEW r \in Requests, Handle(r)
  PROVE  IInv'
<1>1. req[r].pc # "new"
  BY DEF Handle, CommitProvisioning, Guard, HandlerReturns, HandlerRaises
<1>2. /\ req[r] \in [pc : Stages, person : People \cup {None}, org : Orgs \cup {None},
                     table : Tables, wrote : SUBSET {"org", "row"}]
      /\ RequestOK(req[r], home, organisation)
      /\ InOneOrg(req[r].person) => RequestServedWell(req[r], home)
      /\ faults \in 0..MaxFaults /\ removals \in 0..MaxRemovals
  BY <1>1, AtHand
<1>3. CASE CommitProvisioning(r)
  BY <1>1, <1>3, CommitInv DEF CommitProvisioning
<1>4. CASE Guard(r)
  <2> DEFINE next == IF SeesActive(r) THEN "handler" ELSE "refused"
  <2>1. Goto(r, next) /\ UNCHANGED committed /\ UNCHANGED budgets
    BY <1>4 DEF Guard
  <2>2. next \in {"handler", "refused"} /\ (next = "handler" => Finds(req[r], home))
    BY DEF SeesActive, SeesIdentity, Finds
  <2> HIDE DEF next
  <2>3. RequestOK([req[r] EXCEPT !.pc = next], home, organisation)
    BY <1>1, <1>2, <2>2 DEF RequestOK
  <2>4. RequestServedWell([req[r] EXCEPT !.pc = next], home)
    BY <1>2, <2>2 DEF RequestServedWell, Finds
  <2>5. next \in Stages
    BY <2>2 DEF Stages, Ended
  <2> QED
    BY <1>2, <2>1, <2>3, <2>4, <2>5, GotoInv DEF budgets
<1>5. CASE HandlerReturns(r)
  <2>1. Commit(r, "served") /\ UNCHANGED budgets /\ req[r].pc = "handler"
    BY <1>5 DEF HandlerReturns
  <2>2. InOneOrg(req[r].person) => Finds(req[r], home)
    BY <1>2, <2>1 DEF RequestServedWell
  <2> QED
    BY <1>1, <2>1, <2>2, CommitInv
<1>6. CASE HandlerRaises(r)
  <2>1. /\ Abandon(r, "raised") /\ UNCHANGED committed
        /\ faults' \in 0..MaxFaults /\ removals' \in 0..MaxRemovals
    BY <1>2, <1>6, JitAssumption DEF HandlerRaises, committed
  <2> QED
    BY <1>1, <2>1, AbandonInv DEF Ended
<1> QED
  BY <1>3, <1>4, <1>5, <1>6 DEF Handle

LEMMA RemoveInv ==
  ASSUME IInv, NEW t \in Tables, NEW p \in People, Remove(t, p)
  PROVE  IInv'
<1>1. UNCHANGED <<organisation, home, req, faults>>
  BY DEF Remove
<1>2. TypeOK'
  BY JitAssumption DEF IInv, TypeOK, Remove
<1>3. RequestInv' /\ ServiceInv' /\ HomeInv' /\ OneWriter'
  BY <1>1 DEF IInv, RequestInv, ServiceInv, InOneOrg, HomeInv, OneWriter
<1> QED
  BY <1>2, <1>3 DEF IInv

LEMMA NextInv == IInv /\ [Next]_vars => IInv'
<1> SUFFICES ASSUME IInv, [Next]_vars PROVE IInv'
  OBVIOUS
<1>1. ASSUME NEW r \in Requests, Arrive(r) \/ Provision(r) \/ Handle(r)
      PROVE  IInv'
  BY <1>1, ArriveInv, ProvisionInv, HandleInv
<1>2. ASSUME NEW t \in Tables, NEW p \in People, Remove(t, p)
      PROVE  IInv'
  BY <1>2, RemoveInv
<1>3. CASE UNCHANGED vars
  BY <1>3 DEF vars, IInv, TypeOK, RequestInv, ServiceInv, InOneOrg, HomeInv,
              OneWriter
<1> QED
  BY <1>1, <1>2, <1>3 DEF Next

\* The inductive invariant holds in every reachable state.
THEOREM InductiveInvariant == Spec => []IInv
  BY InitInv, NextInv, PTL DEF Spec

-----------------------------------------------------------------------------
\* Types are kept, for every number of people, organisations and requests
\* (get_db and get_admin_db).
THEOREM TypeCorrectness == Spec => []TypeOK
<1>1. IInv => TypeOK
  BY DEF IInv
<1> QED
  BY <1>1, InductiveInvariant, PTL

\* For a person in one organisation, the handler of every request finds the
\* caller's row, whatever other first logins do (the asserts after get_db).
THEOREM HandlersFindTheirCaller == Spec => []HandlerFindsCaller
<1>1. IInv => HandlerFindsCaller
  BY DEF IInv, ServiceInv, RequestServedWell, Finds, HandlerFindsCaller, SeesIdentity
<1> QED
  BY <1>1, InductiveInvariant, PTL

\* And no request fails for losing a race (ON CONFLICT throughout).
THEOREM LoginsDoNotCollide == Spec => []RacingLoginsDoNotCollide
<1>1. IInv => RacingLoginsDoNotCollide
  BY DEF IInv, ServiceInv, RequestServedWell, RacingLoginsDoNotCollide
<1> QED
  BY <1>1, InductiveInvariant, PTL

\* And whoever was served has a committed row in the organisation of their token.
THEOREM ServedMeansKnown == Spec => []ServedCallersAreKnown
<1>1. IInv => ServedCallersAreKnown
  BY DEF IInv, ServiceInv, RequestServedWell, ServedCallersAreKnown
<1> QED
  BY <1>1, InductiveInvariant, PTL

\* No step moves a row from one organisation to another, whatever memberships
\* people have (the conflict clauses and the org_isolation policies).
THEOREM NoRowMoves == Spec => RowsStayHome
<1> DEFINE Stay == \A t \in Tables, p \in People :
                      home[t][p] # None => home'[t][p] = home[t][p]
<1>1. IInv /\ [Next]_vars => [Stay]_vars
  <2> SUFFICES ASSUME IInv, Next PROVE Stay
    BY DEF vars
  <2>1. ASSUME NEW r \in Requests, NEW pc, req[r].pc # "new", Commit(r, pc)
        PROVE  Stay
    BY <2>1, CommitRows
  <2>2. ASSUME UNCHANGED home PROVE Stay
    BY <2>2
  <2>3. ASSUME NEW r \in Requests, Arrive(r) \/ Provision(r) PROVE Stay
    BY <2>2, <2>3 DEF Arrive, Provision, ReadIdentity, ReadOrganisation,
          FetchOrganisation, ClerkUnavailable, InsertOrganisation, RereadOrganisation,
          InsertUser, Reactivate, GrantAdmin, committed
  <2>4. ASSUME NEW r \in Requests, Handle(r) PROVE Stay
    <3>1. CASE CommitProvisioning(r) \/ HandlerReturns(r)
      BY <2>1, <3>1 DEF CommitProvisioning, HandlerReturns
    <3>2. CASE Guard(r) \/ HandlerRaises(r)
      BY <2>2, <3>2 DEF Guard, HandlerRaises, committed
    <3> QED
      BY <2>4, <3>1, <3>2 DEF Handle
  <2>5. ASSUME NEW t \in Tables, NEW p \in People, Remove(t, p) PROVE Stay
    BY <2>2, <2>5 DEF Remove
  <2> QED
    BY <2>3, <2>4, <2>5 DEF Next
<1>2. Spec => [][Stay]_vars
  BY <1>1, InductiveInvariant, PTL DEF Spec
<1> QED
  BY <1>2 DEF RowsStayHome

-----------------------------------------------------------------------------
(* Why requests end: they only go forward, and their waits do not close.  The  *)
(* rest of the argument, that whoever does not wait can move and is scheduled, *)
(* is the fairness that TLC's run assumes.                                     *)

\* The statement of r waits for the transaction of s.
WaitsFor(r, s) ==
    \/ /\ req[r].pc = "insertOrg"
       /\ s # r /\ req[s].org = req[r].org /\ "org" \in req[s].wrote
    \/ /\ req[r].pc \in {"insert", "reactivate", "grant"}
       /\ req[s].table = req[r].table /\ req[s].person = req[r].person
       /\ "row" \in req[s].wrote

\* WaitsFor is what the guards of the three waiting statements say.
LEMMA GuardsWait ==
  ASSUME IInv, NEW r \in Requests
  PROVE  /\ req[r].pc = "insertOrg" =>
               (OrgLocked(r) <=> \E s \in Requests : WaitsFor(r, s))
         /\ req[r].pc \in {"insert", "reactivate"} =>
               (RowLocked("users", req[r].person) <=> \E s \in Requests : WaitsFor(r, s))
         /\ req[r].pc = "grant" =>
               (RowLocked("clerk_admin_users", req[r].person)
                  <=> \E s \in Requests : WaitsFor(r, s))
<1>1. RequestOK(req[r], home, organisation)
  BY DEF IInv, RequestInv
<1>2. CASE req[r].pc = "insertOrg"
  BY <1>2 DEF WaitsFor, OrgLocked
<1>3. CASE req[r].pc \in {"insert", "reactivate"}
  BY <1>1, <1>3 DEF WaitsFor, RowLocked, RequestOK
<1>4. CASE req[r].pc = "grant"
  BY <1>1, <1>4 DEF WaitsFor, RowLocked, RequestOK
<1> QED
  BY <1>2, <1>3, <1>4

\* A request waits for an open transaction, never for its own, and a chain of
\* requests that wait for each other has two links at most: whoever holds a row has
\* nothing left to wait for, and whoever holds an organisation at most a row.
NobodyWaitsInCircles ==
    \A r, s \in Requests : WaitsFor(r, s) =>
        /\ s # r /\ req[s].pc \notin Ended \cup {"new"}
        /\ \A t \in Requests : WaitsFor(s, t) => \A u \in Requests : ~WaitsFor(t, u)

\* When a request holds what.
HoldsOK(c) ==
    /\ "row" \in c.wrote => c.pc \in {"handler", "provisioned"}
    /\ "org" \in c.wrote =>
          /\ c.pc \in {"reread", "insert", "identity", "grant", "provisioned", "handler"}
          /\ c.pc = "identity" => c.table = "clerk_admin_users"

HoldsInv == \A r \in Requests : HoldsOK(req[r])

\* How many statements a request has before it at most.
Left(c) ==
    CASE c.pc = "new" -> 10
      [] c.pc = "organisation" -> IF c.table = "users" THEN 6 ELSE 9
      [] c.pc = "clerk" -> IF c.table = "users" THEN 5 ELSE 8
      [] c.pc = "insertOrg" -> IF c.table = "users" THEN 4 ELSE 7
      [] c.pc = "reread" -> IF c.table = "users" THEN 3 ELSE 6
      [] c.pc = "identity" -> IF c.table = "users" THEN 7 ELSE 5
      [] c.pc = "grant" -> 4
      [] c.pc = "provisioned" -> 3
      [] c.pc \in {"insert", "reactivate", "guard"} -> 2
      [] c.pc = "handler" -> 1
      [] OTHER -> 0

\* No request does anything twice: whatever the others do, each of its steps brings
\* it nearer to its end.
RequestsGoForward ==
    [][\A r \in Requests : req'[r] # req[r] => Left(req'[r]) < Left(req[r])]_vars

\* A step of a request leaves the others alone; it goes forward and holds no more
\* than its new stage allows.
Advances(r) ==
    /\ \A q \in Requests \ {r} : req'[q] = req[q]
    /\ HoldsOK(req'[r])
    /\ Left(req'[r]) < Left(req[r])

LEMMA GotoAdvances ==
  ASSUME TypeOK, NEW r \in Requests, HoldsOK(req[r]), NEW pc, Goto(r, pc),
         Left([req[r] EXCEPT !.pc = pc]) < Left(req[r]),
         HoldsOK([req[r] EXCEPT !.pc = pc])
  PROVE  Advances(r)
  BY GotoShape DEF Advances

LEMMA AbandonAdvances ==
  ASSUME TypeOK, NEW r \in Requests, NEW pc \in Ended, Abandon(r, pc),
         req[r].pc \notin Ended, req[r].pc \in Stages
  PROVE  Advances(r)
<1>1. /\ \A q \in Requests \ {r} : req'[q] = req[q]
      /\ req'[r].pc = pc /\ req'[r].wrote = {}
  <2>1. /\ \A q \in Requests \ {r} : req'[q] = req[q]
        /\ req'[r] = [req[r] EXCEPT !.pc = pc, !.wrote = {}]
    BY AbandonShape
  <2> QED
    BY <2>1 DEF TypeOK
<1>2. HoldsOK(req'[r])
  BY <1>1 DEF HoldsOK
<1>3. Left(req'[r]) = 0
  BY <1>1 DEF Left, Ended
<1>4. Left(req[r]) \in 1 .. 10
  BY DEF Left, Ended, Stages
<1> QED
  BY <1>1, <1>2, <1>3, <1>4 DEF Advances

LEMMA ArriveAdvances ==
  ASSUME TypeOK, NEW r \in Requests, Arrive(r)
  PROVE  Advances(r)
<1>1. PICK m \in Member, t \in Tables :
         req' = [req EXCEPT ![r] =
                   [pc |-> IF t = "users" THEN "identity" ELSE "organisation",
                    person |-> m[1], org |-> m[2], table |-> t, wrote |-> {}]]
  BY DEF Arrive
<1>2. /\ \A q \in Requests \ {r} : req'[q] = req[q]
      /\ req'[r].wrote = {} /\ req'[r].table = t
      /\ req'[r].pc = IF t = "users" THEN "identity" ELSE "organisation"
  BY <1>1 DEF TypeOK
<1>3. Left(req[r]) = 10
  BY DEF Arrive, Left
<1>4. Left(req'[r]) \in 0 .. 9
  BY <1>2 DEF Left, Tables
<1> QED
  BY <1>2, <1>3, <1>4 DEF Advances, HoldsOK

LEMMA WriteAdvances ==
  ASSUME TypeOK, NEW r \in Requests, HoldsOK(req[r]), NEW what \in {"org", "row"}, NEW pc,
         Write(r, what, pc),
         \/ req[r].pc = "insertOrg" /\ pc = "reread" /\ what = "org"
         \/ req[r].pc \in {"insert", "reactivate"} /\ pc = "handler" /\ what = "row"
         \/ req[r].pc = "grant" /\ pc = "provisioned" /\ what = "row"
  PROVE  Advances(r)
<1>1. /\ \A q \in Requests \ {r} : req'[q] = req[q]
      /\ req'[r].pc = pc /\ req'[r].table = req[r].table
      /\ req'[r].wrote = req[r].wrote \cup {what}
  <2>1. /\ \A q \in Requests \ {r} : req'[q] = req[q]
        /\ req'[r] = [req[r] EXCEPT !.pc = pc, !.wrote = @ \cup {what}]
    BY WriteShape
  <2> QED
    BY <2>1 DEF TypeOK
<1>2. Left(req'[r]) < Left(req[r])
  BY <1>1 DEF Left
<1>3. HoldsOK(req'[r])
  BY <1>1 DEF HoldsOK
<1> QED
  BY <1>1, <1>2, <1>3 DEF Advances

LEMMA MoveAdvances ==
  ASSUME TypeOK, NEW r \in Requests, HoldsOK(req[r]), NEW pc, Goto(r, pc),
         LET users == req[r].table = "users" IN
         \/ req[r].pc = "identity" /\ users /\ pc \in {"organisation", "handler", "reactivate"}
         \/ req[r].pc = "identity" /\ ~users /\ pc \in {"provisioned", "grant"}
         \/ req[r].pc \in {"organisation", "reread"} /\ pc = IF users THEN "insert" ELSE "identity"
         \/ req[r].pc = "organisation" /\ pc = "clerk"
         \/ req[r].pc = "clerk" /\ pc = "insertOrg"
         \/ req[r].pc = "insertOrg" /\ pc = "reread"
         \/ req[r].pc = "insert" /\ pc = "handler"
         \/ req[r].pc = "guard" /\ pc \in {"handler", "refused"}
  PROVE  Advances(r)
<1> DEFINE d == [req[r] EXCEPT !.pc = pc]
<1>1. d.pc = pc /\ d.table = req[r].table /\ d.wrote = req[r].wrote
  BY DEF TypeOK
<1>2. req[r].table \in Tables
  BY DEF TypeOK
<1> HIDE DEF d
<1>3. Left(d) < Left(req[r])
  BY <1>1, <1>2 DEF Left, Tables
<1>4. HoldsOK(d)
  BY <1>1, <1>2 DEF HoldsOK, Tables
<1> QED
  BY <1>3, <1>4, GotoAdvances DEF d

LEMMA RequestAdvances ==
  ASSUME TypeOK, NEW r \in Requests, HoldsOK(req[r]), Arrive(r) \/ Provision(r) \/ Handle(r)
  PROVE  Advances(r)
<1>1. req[r].pc \in Stages /\ req[r].table \in Tables
  BY DEF TypeOK
<1>2. CASE Arrive(r)
  BY <1>2, ArriveAdvances
<1>3. CASE ReadIdentity(r)
  BY <1>3, MoveAdvances DEF ReadIdentity
<1>4. CASE ReadOrganisation(r)
  BY <1>4, MoveAdvances DEF ReadOrganisation, AfterOrg
<1>5. CASE FetchOrganisation(r)
  BY <1>5, MoveAdvances DEF FetchOrganisation
<1>6. CASE InsertOrganisation(r)
  BY <1>6, MoveAdvances, WriteAdvances DEF InsertOrganisation
<1>7. CASE RereadOrganisation(r)
  <2>1. CASE SeesOrg(r)
    BY <1>7, <2>1, MoveAdvances DEF RereadOrganisation, AfterOrg
  <2>2. CASE ~SeesOrg(r)
    BY <1>1, <1>7, <2>2, AbandonAdvances DEF RereadOrganisation, Ended
  <2> QED
    BY <2>1, <2>2
<1>8. CASE InsertUser(r)
  BY <1>8, MoveAdvances, WriteAdvances DEF InsertUser
<1>9. CASE Reactivate(r)
  BY <1>9, WriteAdvances DEF Reactivate
<1>10. CASE GrantAdmin(r)
  <2>1. CASE HiddenRow(r)
    BY <1>1, <1>10, <2>1, AbandonAdvances DEF GrantAdmin, Ended
  <2>2. CASE ~HiddenRow(r)
    BY <1>10, <2>2, WriteAdvances DEF GrantAdmin
  <2> QED
    BY <2>1, <2>2
<1>11. CASE ClerkUnavailable(r) \/ HandlerReturns(r) \/ HandlerRaises(r)
  BY <1>1, <1>11, AbandonAdvances
     DEF ClerkUnavailable, HandlerReturns, HandlerRaises, Commit, Ended
<1>12. CASE CommitProvisioning(r)
  <2>1. Abandon(r, "guard") /\ req[r].pc = "provisioned"
    BY <1>12 DEF CommitProvisioning, Commit
  <2>2. /\ \A q \in Requests \ {r} : req'[q] = req[q]
        /\ req'[r].pc = "guard" /\ req'[r].wrote = {}
    <3>1. /\ \A q \in Requests \ {r} : req'[q] = req[q]
          /\ req'[r] = [req[r] EXCEPT !.pc = "guard", !.wrote = {}]
      BY <2>1, AbandonShape
    <3> QED
      BY <3>1 DEF TypeOK
  <2>3. Left(req'[r]) = 2 /\ Left(req[r]) = 3
    BY <2>1, <2>2 DEF Left
  <2>4. HoldsOK(req'[r])
    BY <2>2 DEF HoldsOK
  <2> QED
    BY <2>2, <2>3, <2>4 DEF Advances
<1>13. CASE Guard(r)
  BY <1>13, MoveAdvances DEF Guard
<1> QED
  BY <1>2, <1>3, <1>4, <1>5, <1>6, <1>7, <1>8, <1>9, <1>10, <1>11, <1>12, <1>13
     DEF Provision, Handle

LEMMA HoldsStep == TypeOK /\ HoldsInv /\ [Next]_vars => HoldsInv'
<1> SUFFICES ASSUME TypeOK, HoldsInv, [Next]_vars PROVE HoldsInv'
  OBVIOUS
<1>1. ASSUME NEW r \in Requests, Arrive(r) \/ Provision(r) \/ Handle(r) PROVE HoldsInv'
  BY <1>1, RequestAdvances DEF HoldsInv, Advances
<1>2. CASE req' = req
  BY <1>2 DEF HoldsInv
<1> QED
  BY <1>1, <1>2 DEF Next, Remove, vars

\* In every reachable state the chains of waiting requests end, after two links at
\* most, at one that waits for nobody (the row locks and unique keys that get_db and
\* get_admin_db take, in the same order everywhere).
THEOREM WaitsAreShort == Spec => []NobodyWaitsInCircles
<1>1. Init => HoldsInv
  BY DEF Init, HoldsInv, HoldsOK, NoRequest
<1>2. HoldsInv => NobodyWaitsInCircles
  BY DEF HoldsInv, HoldsOK, NobodyWaitsInCircles, WaitsFor, Ended
<1>3. IInv => TypeOK
  BY DEF IInv
<1> QED
  BY <1>1, <1>2, <1>3, HoldsStep, InductiveInvariant, PTL DEF Spec

\* And every step of a request is one of at most ten, so that none goes on for ever.
THEOREM RequestsAreFinite == Spec => RequestsGoForward
<1>1. Init => HoldsInv
  BY DEF Init, HoldsInv, HoldsOK, NoRequest
<1>2. TypeOK /\ HoldsInv /\ [Next]_vars
        => [\A r \in Requests : req'[r] # req[r] => Left(req'[r]) < Left(req[r])]_vars
  <2> SUFFICES ASSUME TypeOK, HoldsInv, Next, NEW q \in Requests, req'[q] # req[q]
               PROVE  Left(req'[q]) < Left(req[q])
    OBVIOUS
  <2>1. ASSUME NEW r \in Requests, Arrive(r) \/ Provision(r) \/ Handle(r)
        PROVE  Left(req'[q]) < Left(req[q])
    BY <2>1, RequestAdvances DEF HoldsInv, Advances
  <2> QED
    BY <2>1 DEF Next, Remove
<1>3. IInv => TypeOK
  BY DEF IInv
<1> QED
  BY <1>1, <1>2, <1>3, HoldsStep, InductiveInvariant, PTL DEF Spec, RequestsGoForward
=============================================================================
