------------------------- MODULE TenantScopeProofs -------------------------
(***************************************************************************)
(* Proofs, for every number of requests, backends and organisations, that  *)
(* no backend is handed on with a tenant's setting, that re-scoping never  *)
(* loses or misplaces a row, and that TenantScope implements               *)
(* TenantIsolation.                                                        *)
(***************************************************************************)
EXTENDS TenantScope, TLAPS

\* The stages in which the transaction is scoped to the request's tenant, and
\* those in which it is scoped to the target of a cross-organisation call.
\* ("clerk" and "rescope" are neither: a count may have moved the scope before.)
TenantStages == {"provision", "provisioned", "guard", "handler", "memberships",
                 "audit", "search"}
TargetStages == {"count", "localRows", "adminRow", "usersRow", "flush", "scopeBack"}

\* The stages that a call reaches by passing the platform's guard, and, of a
\* change, by passing the checks on its target.
ChangeStages   == {"count", "clerk", "rescope", "adminRow", "usersRow", "flush",
                   "scopeBack", "audit"}
PlatformStages == ChangeStages \cup {"memberships", "localRows"}

\* The stages of a change before Clerk has been asked.
EarlyStages == {"idle", "begin", "beginAgain", "provision", "provisioned", "guard",
                "handler", "memberships", "localRows", "count", "assert", "search"}

\* Below, c, p, o are a request's call, stage and the setting of its backend;
\* u, w, s the rows it has not flushed, written and committed; v what it has
\* seen; k and h whether Clerk has made its change and whether it was hurt.

\* The setting is the one that the stage calls for, and every row that waits
\* for a flush is of the organisation it will be flushed under.
ScopeFits(c, p, o, u, w) ==
    /\ p \in TenantStages => o = c.tenant
    /\ p \in TargetStages => o = c.target
    /\ \A row \in u : row.org = o
    /\ p \notin {"handler", "flush", "commit"} => u = {}
    /\ p \notin Open => w = {}

\* The stage is one that the call may reach, and rows written and seen are of
\* the organisations that the call acts for.
StaysHome(c, p, u, w, s, v) ==
    /\ c.kind \in CrossOrg => c.target \in Orgs
    /\ p \in PlatformStages => c.kind \in CrossOrg /\ c.admin /\ c.tenant = PlatformOrg
    /\ p \in ChangeStages => c.kind = "change" /\ c.target # PlatformOrg
    /\ p \in {"idle", "begin"} => s = {} /\ v = {}
    /\ p \in {"provision", "provisioned", "beginAgain"} => c.kind # "search"
    /\ \A row \in u \cup w \cup s : row.org \in ActsFor(c)
    /\ v \subseteq ActsFor(c)

\* How far a change and its audit row have come.
ChangeFits(c, p, u, w, s, k) ==
    c.kind = "change" /\ c.target # c.tenant =>
        /\ Row("human_audit_log", c.target) \notin u \cup w \cup s
        /\ p \notin Ended => \A row \in s : row.org # c.target
        /\ p \in EarlyStages => ~k /\ \A row \in w : row.org # c.target
        /\ p = "flush" => Row("users", c.target) \in u
        /\ p \in {"scopeBack", "audit"} /\ c.member => Row("users", c.target) \in w
        /\ p = "commit" =>
               /\ (\E row \in u \cup w : row.org = c.target) =>
                      Row("human_audit_log", c.tenant) \in u
               /\ k => /\ Row("human_audit_log", c.tenant) \in u
                       /\ c.member => Row("users", c.target) \in w
        /\ (\E row \in s : row.org = c.target) => Row("human_audit_log", c.tenant) \in s
        /\ p = "served" /\ k => /\ Row("human_audit_log", c.tenant) \in s
                                /\ c.member => Row("users", c.target) \in s

VerdictFits(c, p, h) ==
    /\ p = "failed" => h
    /\ p = "denied" => ~c.admin \/ (c.kind # "orgAdmin" /\ c.tenant # PlatformOrg)

RequestOK(c, p, o, u, w, s, v, k, h) ==
    /\ ScopeFits(c, p, o, u, w)
    /\ StaysHome(c, p, u, w, s, v)
    /\ ChangeFits(c, p, u, w, s, k)
    /\ VerdictFits(c, p, h)
    /\ p = "idle" => ~k

RequestInv ==
    \A r \in Requests :
        RequestOK(call[r], pc[r], local[on[r]], unflushed[r], written[r], stored[r],
                  seen[r], clerk[r], hurt[r])

\* A backend runs the open transaction of at most one request, and has a
\* setting only while it does.
BackendInv ==
    /\ \A r \in Requests : pc[r] \in Open <=> on[r] # None
    /\ \A q, r \in Requests : on[q] # None /\ on[q] = on[r] => q = r
    /\ \A b \in Backends : session[b] = Unset
    /\ \A b \in Backends : local[b] # Unset => \E r \in Requests : on[r] = b

IInv == TypeOK /\ BackendInv /\ RequestInv

-----------------------------------------------------------------------------
LEMMA InitInv == Init => IInv
<1> SUFFICES ASSUME Init PROVE IInv
  OBVIOUS
<1>1. NoCall \in Call
  BY TenantScopeAssumption DEF NoCall, Call, Kinds, Product
<1>2. TypeOK
  BY <1>1, TenantScopeAssumption DEF Init, TypeOK, Stages
<1>3. BackendInv
  BY DEF Init, BackendInv, Open
<1>4. RequestInv
  <2> SUFFICES ASSUME NEW r \in Requests
               PROVE  RequestOK(NoCall, "idle", local[on[r]], {}, {}, {}, {},
                                clerk[r], hurt[r])
    BY DEF Init, RequestInv
  <2> QED
    BY TenantScopeAssumption
    DEF RequestOK, ScopeFits, StaysHome, ChangeFits, VerdictFits, NoCall, CrossOrg, Open,
        Ended, TenantStages, TargetStages, PlatformStages, ChangeStages, Init
<1> QED
  BY <1>2, <1>3, <1>4 DEF IInv

-----------------------------------------------------------------------------
(* What the invariant of one request allows, value by value.               *)

LEMMA RowFacts ==
  ASSUME NEW t \in Tables, NEW o \in Orgs
  PROVE  /\ Row(t, o) \in Rows
         /\ Row(t, o).table = t
         /\ Row(t, o).org = o
BY DEF Row, Rows

\* To look at rows in scope.
LEMMA SeeOK ==
  ASSUME NEW c \in Call, NEW p \in TenantStages \cup TargetStages, NEW o,
         NEW u, NEW w, NEW s, NEW v, NEW k, NEW h,
         RequestOK(c, p, o, u, w, s, v, k, h)
  PROVE  RequestOK(c, p, o, u, w, s, v \cup ({o} \cap Orgs), k, h)
<1>1. o \in ActsFor(c)
  BY DEF RequestOK, ScopeFits, StaysHome, ActsFor, TenantStages, TargetStages,
         PlatformStages, ChangeStages
<1>2. StaysHome(c, p, u, w, s, v \cup ({o} \cap Orgs))
  BY <1>1 DEF RequestOK, StaysHome, TenantStages, TargetStages
<1> QED
  BY <1>2 DEF RequestOK

\* To go on to a stage that asks for nothing more.
PlainMoves == {<<"provision", "provisioned">>, <<"provision", "handler">>,
               <<"guard", "handler">>, <<"handler", "commit">>,
               <<"memberships", "commit">>, <<"localRows", "commit">>,
               <<"search", "commit">>}

LEMMA PlainMoveOK ==
  ASSUME NEW c \in Call, NEW p, NEW q, <<p, q>> \in PlainMoves, NEW o,
         NEW u, NEW w, NEW s, NEW v, NEW k, NEW h,
         RequestOK(c, p, o, u, w, s, v, k, h)
  PROVE  RequestOK(c, q, o, u, w, s, v, k, h)
<1>0. \/ p = "provision" /\ q \in {"provisioned", "handler"}
      \/ p = "guard" /\ q = "handler"
      \/ p \in {"handler", "memberships", "localRows", "search"} /\ q = "commit"
  BY DEF PlainMoves
<1>1. ScopeFits(c, q, o, u, w)
  BY <1>0 DEF RequestOK, ScopeFits, TenantStages, TargetStages, Open
<1>2. StaysHome(c, q, u, w, s, v)
  BY <1>0 DEF RequestOK, StaysHome, PlatformStages, ChangeStages
<1>3. ChangeFits(c, q, u, w, s, k)
  <2> SUFFICES ASSUME c.kind = "change", c.target # c.tenant
               PROVE  ChangeFits(c, q, u, w, s, k)
    BY DEF ChangeFits
  <2>1. p \in EarlyStages /\ p \notin Ended /\ q \notin Ended /\ q # "served"
    BY <1>0 DEF EarlyStages, Ended
  <2>2. ~k /\ (\A row \in w : row.org # c.target) /\ (\A row \in s : row.org # c.target)
    BY <2>1 DEF RequestOK, ChangeFits
  <2>3. q = "commit" => \A row \in u : row.org # c.target
    <3> SUFFICES ASSUME q = "commit", NEW row \in u PROVE row.org # c.target
      OBVIOUS
    <3>1. p = "handler"
      BY <1>0 DEF RequestOK, ScopeFits
    <3> QED
      BY <3>1 DEF RequestOK, ScopeFits, TenantStages
  <2> QED
    BY <1>0, <2>1, <2>2, <2>3 DEF RequestOK, ChangeFits
<1>4. VerdictFits(c, q, h) /\ q # "idle"
  BY <1>0 DEF VerdictFits
<1> QED
  BY <1>1, <1>2, <1>3, <1>4 DEF RequestOK

\* To roll back with a verdict.
LEMMA EndOK ==
  ASSUME NEW c \in Call, NEW p \in Open \cup {"begin", "beginAgain"}, NEW o, NEW n,
         NEW u, NEW w, NEW s, NEW v, NEW k, NEW h, NEW i,
         NEW q \in {"denied", "refused", "failed"},
         RequestOK(c, p, o, u, w, s, v, k, h),
         VerdictFits(c, q, i)
  PROVE  RequestOK(c, q, n, {}, {}, s, v, k, i)
<1>1. ScopeFits(c, q, n, {}, {})
  BY DEF ScopeFits, TenantStages, TargetStages
<1>2. StaysHome(c, q, {}, {}, s, v)
  BY DEF RequestOK, StaysHome, PlatformStages, ChangeStages
<1>3. p \notin Ended /\ q \in Ended /\ q # "served" /\ q \notin EarlyStages
      /\ q \notin {"flush", "scopeBack", "audit", "commit"}
  BY DEF Open, Ended, EarlyStages
<1>4. ChangeFits(c, q, {}, {}, s, k)
  BY <1>3 DEF RequestOK, ChangeFits
<1> QED
  BY <1>1, <1>2, <1>4 DEF RequestOK

\* To commit, at the end or after provisioning.
LEMMA CommitOK ==
  ASSUME NEW c \in Call, NEW o, NEW n, NEW u, NEW w, NEW s, NEW v, NEW k, NEW h, NEW i,
         NEW q \in {"served", "failed"}, q = "failed" => i,
         RequestOK(c, "commit", o, u, w, s, v, k, h)
  PROVE  RequestOK(c, q, n, {}, {}, s \cup w \cup u, v, k, i)
<1>1. ScopeFits(c, q, n, {}, {})
  BY DEF ScopeFits, TenantStages, TargetStages
<1>2. StaysHome(c, q, {}, {}, s \cup w \cup u, v)
  BY DEF RequestOK, StaysHome, PlatformStages, ChangeStages
<1>3. ChangeFits(c, q, {}, {}, s \cup w \cup u, k)
  BY DEF RequestOK, ChangeFits, EarlyStages, Ended
<1>4. VerdictFits(c, q, i)
  BY DEF VerdictFits
<1> QED
  BY <1>1, <1>2, <1>3, <1>4 DEF RequestOK

LEMMA CommitProvisioningOK ==
  ASSUME NEW c \in Call, NEW o, NEW n, NEW u, NEW w, NEW s, NEW v, NEW k, NEW h,
         RequestOK(c, "provisioned", o, u, w, s, v, k, h)
  PROVE  RequestOK(c, "beginAgain", n, {}, {}, s \cup w \cup u, v, k, h)
<1>1. u = {}
  BY DEF RequestOK, ScopeFits
<1>2. ScopeFits(c, "beginAgain", n, {}, {})
  BY DEF ScopeFits, TenantStages, TargetStages
<1>3. StaysHome(c, "beginAgain", {}, {}, s \cup w \cup u, v)
  BY DEF RequestOK, StaysHome, PlatformStages, ChangeStages
<1>4. ChangeFits(c, "beginAgain", {}, {}, s \cup w \cup u, k)
  BY <1>1 DEF RequestOK, ChangeFits, EarlyStages, Ended
<1>5. VerdictFits(c, "beginAgain", h)
  BY DEF VerdictFits
<1> QED
  BY <1>2, <1>3, <1>4, <1>5 DEF RequestOK

-----------------------------------------------------------------------------
(* A step changes one request.                                             *)

LEMMA Facts ==
  ASSUME IInv, NEW r \in Requests
  PROVE  /\ call[r] \in Call
         /\ RequestOK(call[r], pc[r], local[on[r]], unflushed[r], written[r], stored[r],
                      seen[r], clerk[r], hurt[r])
BY DEF IInv, TypeOK, RequestInv

LEMMA OpenFacts ==
  ASSUME IInv, NEW r \in Requests, pc[r] \in Open
  PROVE  /\ on[r] \in Backends
         /\ Setting(on[r]) = local[on[r]]
         /\ Admitted(r) = {row \in Rows : row.org = local[on[r]]}
<1>1. on[r] \in Backends
  BY DEF IInv, TypeOK, BackendInv
<1>2. Setting(on[r]) = local[on[r]]
  BY <1>1 DEF IInv, TypeOK, BackendInv, Setting
<1> QED
  BY <1>1, <1>2 DEF Admitted

\* Nothing but the settings of other requests' backends may concern them.
Only(r) ==
    \A q \in Requests \ {r} :
        /\ call'[q] = call[q] /\ pc'[q] = pc[q]
        /\ unflushed'[q] = unflushed[q] /\ written'[q] = written[q]
        /\ stored'[q] = stored[q] /\ seen'[q] = seen[q]
        /\ clerk'[q] = clerk[q]
        /\ hurt'[q] = hurt[q]

\* If they keep their settings too, they keep their part of the invariant.
LEMMA OthersKeep ==
  ASSUME BackendInv, RequestInv, NEW r \in Requests, Only(r),
         NEW q \in Requests \ {r},
         on[q] # None => on'[q] = on[q] /\ local'[on[q]] = local[on[q]]
  PROVE  RequestOK(call[q], pc[q], local[on[q]], unflushed[q], written[q], stored[q],
                   seen[q], clerk[q], hurt[q])'
<1>1. RequestOK(call[q], pc[q], local[on[q]], unflushed[q], written[q], stored[q],
                seen[q], clerk[q], hurt[q])
  BY DEF RequestInv
<1>2. /\ StaysHome(call[q], pc[q], unflushed[q], written[q], stored[q], seen[q])'
      /\ ChangeFits(call[q], pc[q], unflushed[q], written[q], stored[q], clerk[q])'
      /\ VerdictFits(call[q], pc[q], hurt[q])'
      /\ pc'[q] = "idle" => ~clerk'[q]
  BY <1>1 DEF RequestOK, Only, StaysHome, ChangeFits, VerdictFits
<1>3. ScopeFits(call[q], pc[q], local[on[q]], unflushed[q], written[q])'
  <2>1. CASE pc[q] \in Open
    BY <1>1, <2>1 DEF RequestOK, Only, ScopeFits, BackendInv
  <2>2. CASE pc[q] \notin Open
    BY <1>1, <2>2 DEF RequestOK, Only, ScopeFits, Open, TenantStages, TargetStages
  <2> QED
    BY <2>1, <2>2
<1> QED
  BY <1>2, <1>3 DEF RequestOK

LEMMA RequestsKeep ==
  ASSUME BackendInv, RequestInv, NEW r \in Requests, Only(r),
         \A q \in Requests \ {r} :
             on[q] # None => on'[q] = on[q] /\ local'[on[q]] = local[on[q]],
         RequestOK(call[r], pc[r], local[on[r]], unflushed[r], written[r], stored[r],
                   seen[r], clerk[r], hurt[r])'
  PROVE  RequestInv'
<1> SUFFICES ASSUME NEW q \in Requests
             PROVE  RequestOK(call[q], pc[q], local[on[q]], unflushed[q], written[q],
                              stored[q], seen[q], clerk[q], hurt[q])'
  BY DEF RequestInv
<1>1. CASE q = r
  BY <1>1
<1>2. CASE q # r
  BY <1>2, OthersKeep
<1> QED
  BY <1>1, <1>2

\* A step that leaves the settings alone.
LEMMA Stays ==
  ASSUME IInv, TypeOK', NEW r \in Requests, Only(r), UNCHANGED settings,
         pc'[r] \in Open <=> pc[r] \in Open,
         RequestOK(call'[r], pc'[r], local[on[r]], unflushed'[r], written'[r], stored'[r],
                   seen'[r], clerk'[r], hurt'[r])
  PROVE  IInv'
<1>1. BackendInv'
  BY DEF IInv, TypeOK, BackendInv, Only, settings
<1>2. RequestInv'
  BY RequestsKeep DEF IInv, settings
<1> QED
  BY <1>1, <1>2 DEF IInv

\* A step that scopes the open transaction to o.
LEMMA Rescopes ==
  ASSUME IInv, TypeOK', NEW r \in Requests, Only(r), NEW o, SetConfig(on[r], o), on' = on,
         pc[r] \in Open, pc'[r] \in Open,
         RequestOK(call'[r], pc'[r], o, unflushed'[r], written'[r], stored'[r],
                   seen'[r], clerk'[r], hurt'[r])
  PROVE  IInv'
<1>1. on[r] \in Backends
  BY OpenFacts
<1>2. /\ local'[on'[r]] = o
      /\ \A q \in Requests \ {r} : on[q] # None => local'[on[q]] = local[on[q]]
  BY <1>1 DEF IInv, TypeOK, BackendInv, SetConfig
<1>3. BackendInv'
  BY <1>1 DEF IInv, TypeOK, BackendInv, Only, SetConfig
<1>4. RequestInv'
  BY <1>2, RequestsKeep DEF IInv
<1> QED
  BY <1>3, <1>4 DEF IInv

\* A step that ends the transaction.
LEMMA Ends ==
  ASSUME IInv, TypeOK', NEW r \in Requests, Only(r), EndTransaction(r),
         pc[r] \in Open, pc'[r] \notin Open,
         \A n : RequestOK(call'[r], pc'[r], n, {}, {}, stored'[r],
                          seen'[r], clerk'[r], hurt'[r])
  PROVE  IInv'
<1>1. on[r] \in Backends
  BY OpenFacts
<1>2. /\ unflushed'[r] = {} /\ written'[r] = {} /\ on'[r] = None
      /\ \A q \in Requests \ {r} :
             on'[q] = on[q] /\ (on[q] # None => local'[on[q]] = local[on[q]])
  BY <1>1 DEF IInv, TypeOK, BackendInv, EndTransaction
<1>3. BackendInv'
  BY <1>1, <1>2, TenantScopeAssumption
  DEF IInv, TypeOK, BackendInv, Only, EndTransaction
<1>4. RequestInv'
  BY <1>2, RequestsKeep DEF IInv
<1> QED
  BY <1>3, <1>4 DEF IInv

LEMMA RollsBack ==
  ASSUME IInv, TypeOK', NEW r \in Requests, Only(r), pc[r] \in Open,
         NEW q \in {"denied", "refused", "failed"}, Rollback(r, q),
         call'[r] = call[r], clerk' = clerk,
         NEW v, seen'[r] = v,
         RequestOK(call[r], pc[r], local[on[r]], unflushed[r], written[r], stored[r], v,
                   clerk[r], hurt[r]),
         VerdictFits(call[r], q, hurt'[r])
  PROVE  IInv'
<1>1. pc'[r] = q /\ stored'[r] = stored[r]
  BY DEF Rollback, IInv, TypeOK
<1>2. \A n : RequestOK(call[r], q, n, {}, {}, stored[r], v, clerk[r], hurt'[r])
  BY EndOK, Facts
<1>3. \A n : RequestOK(call'[r], pc'[r], n, {}, {}, stored'[r], seen'[r],
                        clerk'[r], hurt'[r])
  BY <1>1, <1>2
<1>4. pc'[r] \notin Open
  BY <1>1 DEF Open
<1> QED
  BY <1>3, <1>4, Ends DEF Rollback

-----------------------------------------------------------------------------
(* The actions, one by one.                                               *)

LEMMA StepTouchesOne ==
  ASSUME TypeOK, NEW r \in Requests, Step(r)
  PROVE  Only(r)
<1>1. CASE Arrive(r)
  BY <1>1 DEF TypeOK, Only, Arrive, settings, rows, Goto
<1>2. CASE Provision(r)
  BY <1>2 DEF TypeOK, Only, Provision, settings, Select, Send, Rollback, EndTransaction
<1>3. CASE CommitProvisioning(r)
  BY <1>3 DEF TypeOK, Only, CommitProvisioning, Commit, Rollback, EndTransaction
<1>4. CASE Guard(r)
  BY <1>4 DEF TypeOK, Only, Guard, settings, rows, Goto, Select, Rollback, EndTransaction
<1>5. CASE Statement(r)
  BY <1>5 DEF TypeOK, Only, Statement, settings, Select
<1>6. CASE HandlerReturns(r)
  BY <1>6 DEF TypeOK, Only, HandlerReturns, settings, rows, Goto
<1>7. CASE HandlerRaises(r)
  BY <1>7 DEF TypeOK, Only, HandlerRaises, Rollback, EndTransaction
<1>8. CASE ScopeForList(r)
  BY <1>8 DEF TypeOK, Only, ScopeForList, rows, Goto, SetConfig
<1>9. CASE ReadLocalRows(r)
  BY <1>9 DEF TypeOK, Only, ReadLocalRows, settings, rows, Goto, Select
<1>10. CASE RefuseTarget(r)
  BY <1>10 DEF TypeOK, Only, RefuseTarget, Rollback, EndTransaction
<1>11. CASE NothingToDo(r)
  BY <1>11 DEF TypeOK, Only, NothingToDo, settings, rows, Goto
<1>12. CASE NoCount(r)
  BY <1>12 DEF TypeOK, Only, NoCount, settings, rows, Goto
<1>13. CASE ScopeForCount(r)
  BY <1>13 DEF TypeOK, Only, ScopeForCount, rows, Goto, SetConfig
<1>14. CASE CountAdmins(r)
  BY <1>14 DEF TypeOK, Only, CountAdmins, settings, rows, Goto, Select, Rollback, EndTransaction
<1>15. CASE ClerkApplies(r)
  BY <1>15 DEF TypeOK, Only, ClerkApplies, settings, rows, Goto
<1>16. CASE Rescope(r)
  BY <1>16 DEF TypeOK, Only, Rescope, rows, Goto, SetConfig
<1>17. CASE WriteAdminRow(r)
  BY <1>17 DEF TypeOK, Only, WriteAdminRow, settings, Goto
<1>18. CASE ChangeUsersRow(r)
  BY <1>18 DEF TypeOK, Only, ChangeUsersRow, settings, Goto, Select
<1>19. CASE Flush(r)
  BY <1>19 DEF TypeOK, Only, Flush, settings, Send, Rollback, EndTransaction
<1>20. CASE ScopeBack(r)
  BY <1>20 DEF TypeOK, Only, ScopeBack, rows, Goto, SetConfig
<1>21. CASE Audit(r)
  BY <1>21 DEF TypeOK, Only, Audit, settings, Goto, Select, Rollback, EndTransaction
<1>22. CASE AssertScoped(r)
  BY <1>22 DEF TypeOK, Only, AssertScoped, settings, rows, Goto, Rollback, EndTransaction
<1>23. CASE HybridSearch(r)
  BY <1>23 DEF TypeOK, Only, HybridSearch, settings, rows, Goto, Select
<1>24. CASE CommitCall(r)
  BY <1>24 DEF TypeOK, Only, CommitCall, Commit, Rollback, EndTransaction
<1>25. CASE Fails(r)
  BY <1>25 DEF TypeOK, Only, Fails, Rollback, EndTransaction
<1>26. CASE NoBackend(r)
  BY <1>26 DEF TypeOK, Only, NoBackend, settings, rows
<1>27. CASE AnswerLost(r)
  BY <1>27 DEF TypeOK, Only, AnswerLost, Commit, Rollback, EndTransaction
<1>28. CASE \E b \in Backends : Begin(r, b)
  BY <1>28 DEF TypeOK, Only, Begin, rows, SetConfig
<1> QED
  BY <1>1, <1>2, <1>3, <1>4, <1>5, <1>6, <1>7, <1>8, <1>9, <1>10, <1>11, <1>12,
     <1>13, <1>14, <1>15, <1>16, <1>17, <1>18, <1>19, <1>20, <1>21, <1>22,
     <1>23, <1>24, <1>25, <1>26, <1>27, <1>28 DEF Step

LEMMA StepKeepsTypes ==
  ASSUME TypeOK, NEW r \in Requests, Step(r)
  PROVE  TypeOK'
<1>1. CASE Arrive(r)
  BY <1>1 DEF TypeOK, Arrive, settings, rows, Goto, Calls, Stages, Open, Ended
<1>2. CASE Provision(r)
  <2>1. \A t \in Tables : Row(t, call[r].tenant) \in Rows
    BY RowFacts DEF TypeOK, Call
  <2>2. PICK own \in SUBSET Rows, next \in Stages : Send(r, own, next)
    BY <1>2, <2>1 DEF Provision, Tables, Stages, Open
  <2>3. /\ pc' \in [Requests -> Stages] /\ stored' \in [Requests -> SUBSET Rows]
        /\ unflushed' \in [Requests -> SUBSET Rows]
        /\ written' \in [Requests -> SUBSET Rows]
    BY <2>2 DEF TypeOK, Send, Rollback, EndTransaction, Stages, Ended
  <2>4. /\ on' \in [Requests -> Backends \cup {None}]
        /\ session' \in [Backends -> Orgs \cup {Unset}]
        /\ local' \in [Backends -> Orgs \cup {Unset}]
    BY <2>2 DEF TypeOK, settings, Send, Rollback, EndTransaction
  <2> QED
    BY <1>2, <2>3, <2>4 DEF TypeOK, Provision, Select
<1>3. CASE CommitProvisioning(r)
  BY <1>3 DEF TypeOK, CommitProvisioning, Commit, Rollback, EndTransaction,
      Stages, Open, Ended
<1>4. CASE Guard(r)
  BY <1>4 DEF TypeOK, Guard, settings, rows, Goto, Select, Rollback,
      EndTransaction, AfterGuard, Stages, Open, Ended
<1>5. CASE Statement(r)
  BY <1>5 DEF TypeOK, Statement, settings, Select, Row, Rows, Tables, Call
<1>6. CASE HandlerReturns(r)
  BY <1>6 DEF TypeOK, HandlerReturns, settings, rows, Goto, Stages, Open, Ended
<1>7. CASE HandlerRaises(r)
  BY <1>7 DEF TypeOK, HandlerRaises, Rollback, EndTransaction, Stages, Open,
      Ended
<1>8. CASE ScopeForList(r)
  BY <1>8 DEF TypeOK, ScopeForList, rows, Goto, SetConfig, Call, Stages, Open,
      Ended
<1>9. CASE ReadLocalRows(r)
  BY <1>9 DEF TypeOK, ReadLocalRows, settings, rows, Goto, Select, Stages, Open,
      Ended
<1>10. CASE RefuseTarget(r)
  BY <1>10 DEF TypeOK, RefuseTarget, Rollback, EndTransaction, Stages, Open,
      Ended
<1>11. CASE NothingToDo(r)
  BY <1>11 DEF TypeOK, NothingToDo, settings, rows, Goto, Stages, Open, Ended
<1>12. CASE NoCount(r)
  BY <1>12 DEF TypeOK, NoCount, settings, rows, Goto, Stages, Open, Ended
<1>13. CASE ScopeForCount(r)
  BY <1>13 DEF TypeOK, ScopeForCount, rows, Goto, SetConfig, Call, Stages, Open,
      Ended
<1>14. CASE CountAdmins(r)
  BY <1>14 DEF TypeOK, CountAdmins, settings, rows, Goto, Select, Rollback,
      EndTransaction, Stages, Open, Ended
<1>15. CASE ClerkApplies(r)
  BY <1>15 DEF TypeOK, ClerkApplies, settings, rows, Goto, Stages, Open, Ended
<1>16. CASE Rescope(r)
  BY <1>16 DEF TypeOK, Rescope, rows, Goto, SetConfig, Call, Stages, Open, Ended
<1>17. CASE WriteAdminRow(r)
  BY <1>17 DEF TypeOK, WriteAdminRow, settings, Goto, Admitted, Stages, Open,
      Ended
<1>18. CASE ChangeUsersRow(r)
  BY <1>18 DEF TypeOK, ChangeUsersRow, settings, Goto, Select, Admitted, Stages,
      Open, Ended
<1>19. CASE Flush(r)
  BY <1>19 DEF TypeOK, Flush, settings, Send, Rollback, EndTransaction, Stages,
      Open, Ended
<1>20. CASE ScopeBack(r)
  BY <1>20 DEF TypeOK, ScopeBack, rows, Goto, SetConfig, Call, Stages, Open,
      Ended
<1>21. CASE Audit(r)
  <2>1. Row("human_audit_log", call[r].tenant) \in Rows
    BY RowFacts DEF TypeOK, Call, Tables
  <2> QED
    BY <1>21, <2>1 DEF TypeOK, Audit, settings, Goto, Select, Rollback,
       EndTransaction, Stages, Open, Ended
<1>22. CASE AssertScoped(r)
  BY <1>22 DEF TypeOK, AssertScoped, settings, rows, Goto, Rollback,
      EndTransaction, Stages, Open, Ended
<1>23. CASE HybridSearch(r)
  BY <1>23 DEF TypeOK, HybridSearch, settings, rows, Goto, Select, Stages, Open,
      Ended
<1>24. CASE CommitCall(r)
  BY <1>24 DEF TypeOK, CommitCall, Commit, Rollback, EndTransaction, Stages,
      Open, Ended
<1>25. CASE Fails(r)
  BY <1>25 DEF TypeOK, Fails, Rollback, EndTransaction, Stages, Open, Ended
<1>26. CASE NoBackend(r)
  BY <1>26 DEF TypeOK, NoBackend, settings, rows, Stages, Open, Ended
<1>27. CASE AnswerLost(r)
  BY <1>27 DEF TypeOK, AnswerLost, Commit, Rollback, EndTransaction, Stages,
      Open, Ended
<1>28. CASE \E b \in Backends : Begin(r, b)
  BY <1>28 DEF TypeOK, Begin, FirstScope, AfterFirstScope, Call, Stages, Open,
      rows, SetConfig
<1> QED
  BY <1>1, <1>2, <1>3, <1>4, <1>5, <1>6, <1>7, <1>8, <1>9, <1>10, <1>11, <1>12,
     <1>13, <1>14, <1>15, <1>16, <1>17, <1>18, <1>19, <1>20, <1>21, <1>22,
     <1>23, <1>24, <1>25, <1>26, <1>27, <1>28 DEF Step

-----------------------------------------------------------------------------
(* Each action keeps the request's part of the invariant.                *)

\* After a SELECT in scope, the request still keeps it.
LEMMA SelectOK ==
  ASSUME IInv, NEW r \in Requests, pc[r] \in TenantStages \cup TargetStages, Select(r)
  PROVE  RequestOK(call[r], pc[r], local[on[r]], unflushed[r], written[r], stored[r],
                   seen'[r], clerk[r], hurt[r])
<1>1. pc[r] \in Open
  BY DEF Open, TenantStages, TargetStages
<1>2. seen'[r] = seen[r] \cup ({local[on[r]]} \cap Orgs)
  BY <1>1, OpenFacts DEF Select, IInv, TypeOK
<1> QED
  BY <1>2, Facts, SeeOK

LEMMA PlainMove ==
  ASSUME IInv, TypeOK', NEW r \in Requests, Only(r), NEW p, NEW q, Goto(r, p, q),
         <<p, q>> \in PlainMoves,
         UNCHANGED <<settings, call, rows, clerk, hurt>>,
         seen' = seen \/ Select(r)
  PROVE  IInv'
<1>1. pc[r] = p /\ pc'[r] = q
  BY DEF Goto, IInv, TypeOK
<1>2. p \in TenantStages \cup TargetStages /\ p \in Open /\ q \in Open
  BY DEF PlainMoves, TenantStages, TargetStages, Open
<1>3. RequestOK(call[r], p, local[on[r]], unflushed[r], written[r], stored[r],
                seen'[r], clerk[r], hurt[r])
  BY <1>1, <1>2, Facts, SelectOK
<1>4. RequestOK(call[r], q, local[on[r]], unflushed[r], written[r], stored[r],
                seen'[r], clerk[r], hurt[r])
  BY <1>3, Facts, PlainMoveOK
<1> QED
  BY <1>1, <1>2, <1>4, Stays DEF rows

LEMMA Refuses ==
  ASSUME IInv, TypeOK', NEW r \in Requests, Only(r), pc[r] \in Open,
         NEW q \in {"denied", "refused", "failed"}, Rollback(r, q),
         UNCHANGED <<call, clerk>>,
         seen' = seen \/ (pc[r] \in TenantStages \cup TargetStages /\ Select(r)),
         VerdictFits(call[r], q, hurt'[r])
  PROVE  IInv'
<1>1. RequestOK(call[r], pc[r], local[on[r]], unflushed[r], written[r], stored[r],
                seen'[r], clerk[r], hurt[r])
  BY Facts, SelectOK
<1> QED
  BY <1>1, RollsBack

LEMMA HandlerReturnsKeeps ==
  ASSUME IInv, TypeOK', NEW r \in Requests, Only(r), HandlerReturns(r)
  PROVE  IInv'
BY PlainMove DEF HandlerReturns, PlainMoves, rows

LEMMA NothingToDoKeeps ==
  ASSUME IInv, TypeOK', NEW r \in Requests, Only(r), NothingToDo(r)
  PROVE  IInv'
BY PlainMove DEF NothingToDo, PlainMoves, rows

LEMMA ReadLocalRowsKeeps ==
  ASSUME IInv, TypeOK', NEW r \in Requests, Only(r), ReadLocalRows(r)
  PROVE  IInv'
BY PlainMove DEF ReadLocalRows, PlainMoves, rows

LEMMA HybridSearchKeeps ==
  ASSUME IInv, TypeOK', NEW r \in Requests, Only(r), HybridSearch(r)
  PROVE  IInv'
BY PlainMove DEF HybridSearch, PlainMoves, rows

LEMMA HandlerRaisesKeeps ==
  ASSUME IInv, TypeOK', NEW r \in Requests, Only(r), HandlerRaises(r)
  PROVE  IInv'
<1>1. pc[r] \in Open /\ VerdictFits(call[r], "refused", hurt'[r])
  BY DEF HandlerRaises, Open, VerdictFits
<1> QED
  BY <1>1, Refuses DEF HandlerRaises

LEMMA RefuseTargetKeeps ==
  ASSUME IInv, TypeOK', NEW r \in Requests, Only(r), RefuseTarget(r)
  PROVE  IInv'
<1>1. pc[r] \in Open /\ VerdictFits(call[r], "refused", hurt'[r])
  BY DEF RefuseTarget, Open, VerdictFits
<1> QED
  BY <1>1, Refuses DEF RefuseTarget

LEMMA FailsKeeps ==
  ASSUME IInv, TypeOK', NEW r \in Requests, Only(r), Fails(r)
  PROVE  IInv'
<1>1. pc[r] \in Open /\ hurt'[r]
  BY DEF Fails, IInv, TypeOK
<1>2. VerdictFits(call[r], "failed", hurt'[r])
  BY <1>1 DEF VerdictFits
<1> QED
  BY <1>1, <1>2, Refuses DEF Fails

LEMMA NoCountKeeps ==
  ASSUME IInv, TypeOK', NEW r \in Requests, Only(r), NoCount(r)
  PROVE  IInv'
<1>1. /\ pc[r] = "memberships" /\ pc'[r] = "clerk"
      /\ call'[r] = call[r] /\ stored'[r] = stored[r] /\ seen'[r] = seen[r] /\ hurt'[r] = hurt[r]
      /\ unflushed'[r] = unflushed[r] /\ written'[r] = written[r] /\ clerk'[r] = clerk[r]
  BY DEF NoCount, Goto, IInv, TypeOK, rows, settings
<1>2. RequestOK(call[r], "memberships", local[on[r]], unflushed[r], written[r], stored[r],
                seen[r], clerk[r], hurt[r])
  BY <1>1, Facts
<1>4. IsChange(r)
  BY DEF NoCount
<1>3. RequestOK(call[r], "clerk", local[on[r]], unflushed[r], written[r], stored[r],
                seen[r], clerk[r], hurt[r])
  BY <1>2, <1>4 DEF RequestOK, ScopeFits, StaysHome, ChangeFits, VerdictFits, ActsFor,
     Open, Ended, TenantStages, TargetStages, PlatformStages, ChangeStages, EarlyStages, IsChange
<1> QED
  BY <1>1, <1>3, Stays DEF NoCount, Open

LEMMA ClerkAppliesKeeps ==
  ASSUME IInv, TypeOK', NEW r \in Requests, Only(r), ClerkApplies(r)
  PROVE  IInv'
<1>1. /\ pc[r] = "clerk" /\ pc'[r] = "rescope"
      /\ call'[r] = call[r] /\ stored'[r] = stored[r] /\ seen'[r] = seen[r] /\ hurt'[r] = hurt[r]
      /\ unflushed'[r] = unflushed[r] /\ written'[r] = written[r] /\ clerk'[r] = TRUE
  BY DEF ClerkApplies, Goto, IInv, TypeOK, rows, settings
<1>2. RequestOK(call[r], "clerk", local[on[r]], unflushed[r], written[r], stored[r],
                seen[r], clerk[r], hurt[r])
  BY <1>1, Facts
<1>3. RequestOK(call[r], "rescope", local[on[r]], unflushed[r], written[r], stored[r],
                seen[r], TRUE, hurt[r])
  BY <1>2 DEF RequestOK, ScopeFits, StaysHome, ChangeFits, VerdictFits, ActsFor,
     Open, Ended, TenantStages, TargetStages, PlatformStages, ChangeStages, EarlyStages
<1> QED
  BY <1>1, <1>3, Stays DEF ClerkApplies, Open

LEMMA ScopeForListKeeps ==
  ASSUME IInv, TypeOK', NEW r \in Requests, Only(r), ScopeForList(r)
  PROVE  IInv'
<1>1. /\ pc[r] = "memberships" /\ pc'[r] = "localRows"
      /\ call'[r] = call[r] /\ stored'[r] = stored[r] /\ seen'[r] = seen[r] /\ hurt'[r] = hurt[r]
      /\ unflushed'[r] = unflushed[r] /\ written'[r] = written[r] /\ clerk'[r] = clerk[r]
  BY DEF ScopeForList, Goto, IInv, TypeOK, rows
<1>2. RequestOK(call[r], "memberships", local[on[r]], unflushed[r], written[r], stored[r],
                seen[r], clerk[r], hurt[r])
  BY <1>1, Facts
<1>4. call[r].kind = "list" /\ call[r].target \in Orgs
  BY <1>2 DEF ScopeForList, RequestOK, StaysHome, CrossOrg
<1>3. RequestOK(call[r], "localRows", call[r].target, unflushed[r], written[r], stored[r],
                seen[r], clerk[r], hurt[r])
  BY <1>2, <1>4 DEF RequestOK, ScopeFits, StaysHome, ChangeFits, VerdictFits, ActsFor,
     Open, Ended, TenantStages, TargetStages, PlatformStages, ChangeStages, EarlyStages
<1> QED
  BY <1>1, <1>3, <1>4, Rescopes DEF ScopeForList, Open

LEMMA ScopeForCountKeeps ==
  ASSUME IInv, TypeOK', NEW r \in Requests, Only(r), ScopeForCount(r)
  PROVE  IInv'
<1>1. /\ pc[r] = "memberships" /\ pc'[r] = "count"
      /\ call'[r] = call[r] /\ stored'[r] = stored[r] /\ seen'[r] = seen[r] /\ hurt'[r] = hurt[r]
      /\ unflushed'[r] = unflushed[r] /\ written'[r] = written[r] /\ clerk'[r] = clerk[r]
  BY DEF ScopeForCount, Goto, IInv, TypeOK, rows
<1>2. RequestOK(call[r], "memberships", local[on[r]], unflushed[r], written[r], stored[r],
                seen[r], clerk[r], hurt[r])
  BY <1>1, Facts
<1>4. IsChange(r)
  BY DEF ScopeForCount
<1>3. RequestOK(call[r], "count", call[r].target, unflushed[r], written[r], stored[r],
                seen[r], clerk[r], hurt[r])
  BY <1>2, <1>4 DEF RequestOK, ScopeFits, StaysHome, ChangeFits, VerdictFits, ActsFor,
     Open, Ended, TenantStages, TargetStages, PlatformStages, ChangeStages, EarlyStages, IsChange
<1> QED
  BY <1>1, <1>3, Rescopes DEF ScopeForCount, Open

LEMMA RescopeKeeps ==
  ASSUME IInv, TypeOK', NEW r \in Requests, Only(r), Rescope(r)
  PROVE  IInv'
<1>1. /\ pc[r] = "rescope" /\ pc'[r] = "adminRow"
      /\ call'[r] = call[r] /\ stored'[r] = stored[r] /\ seen'[r] = seen[r] /\ hurt'[r] = hurt[r]
      /\ unflushed'[r] = unflushed[r] /\ written'[r] = written[r] /\ clerk'[r] = clerk[r]
  BY DEF Rescope, Goto, IInv, TypeOK, rows
<1>2. RequestOK(call[r], "rescope", local[on[r]], unflushed[r], written[r], stored[r],
                seen[r], clerk[r], hurt[r])
  BY <1>1, Facts
<1>3. RequestOK(call[r], "adminRow", call[r].target, unflushed[r], written[r], stored[r],
                seen[r], clerk[r], hurt[r])
  BY <1>2 DEF RequestOK, ScopeFits, StaysHome, ChangeFits, VerdictFits, ActsFor,
     Open, Ended, TenantStages, TargetStages, PlatformStages, ChangeStages, EarlyStages
<1> QED
  BY <1>1, <1>3, Rescopes DEF Rescope, Open

LEMMA ScopeBackKeeps ==
  ASSUME IInv, TypeOK', NEW r \in Requests, Only(r), ScopeBack(r)
  PROVE  IInv'
<1>1. /\ pc[r] = "scopeBack" /\ pc'[r] = "audit"
      /\ call'[r] = call[r] /\ stored'[r] = stored[r] /\ seen'[r] = seen[r] /\ hurt'[r] = hurt[r]
      /\ unflushed'[r] = unflushed[r] /\ written'[r] = written[r] /\ clerk'[r] = clerk[r]
  BY DEF ScopeBack, Goto, IInv, TypeOK, rows
<1>2. RequestOK(call[r], "scopeBack", local[on[r]], unflushed[r], written[r], stored[r],
                seen[r], clerk[r], hurt[r])
  BY <1>1, Facts
<1>3. RequestOK(call[r], "audit", call[r].tenant, unflushed[r], written[r], stored[r],
                seen[r], clerk[r], hurt[r])
  BY <1>2 DEF RequestOK, ScopeFits, StaysHome, ChangeFits, VerdictFits, ActsFor,
     Open, Ended, TenantStages, TargetStages, PlatformStages, ChangeStages, EarlyStages
<1> QED
  BY <1>1, <1>3, Rescopes DEF ScopeBack, Open

LEMMA StatementKeeps ==
  ASSUME IInv, TypeOK', NEW r \in Requests, Only(r), Statement(r)
  PROVE  IInv'
<1>1. pc[r] = "handler" /\ pc[r] \in TenantStages \cup TargetStages
  BY DEF Statement, TenantStages
<1>2. PICK added \in {{}, {Row("other", call[r].tenant)}} :
          unflushed' = [unflushed EXCEPT ![r] = @ \cup added]
  BY DEF Statement
<1>3. unflushed'[r] = unflushed[r] \cup added
  BY <1>2 DEF IInv, TypeOK
<1>4. RequestOK(call[r], "handler", local[on[r]], unflushed[r], written[r], stored[r],
                seen'[r], clerk[r], hurt[r])
  BY <1>1, SelectOK DEF Statement
<1>5. \A row \in added : /\ row.org = call[r].tenant
                         /\ row # Row("human_audit_log", call[r].target)
                         /\ row # Row("users", call[r].target)
  BY DEF Row
<1>6. RequestOK(call[r], "handler", local[on[r]], unflushed[r] \cup added, written[r],
                stored[r], seen'[r], clerk[r], hurt[r])
  <2>1. ScopeFits(call[r], "handler", local[on[r]], unflushed[r] \cup added, written[r])
    BY <1>4, <1>5 DEF RequestOK, ScopeFits, TenantStages, Open
  <2>2. StaysHome(call[r], "handler", unflushed[r] \cup added, written[r], stored[r], seen'[r])
    BY <1>4, <1>5 DEF RequestOK, StaysHome, ActsFor, PlatformStages, ChangeStages
  <2>3. ChangeFits(call[r], "handler", unflushed[r] \cup added, written[r], stored[r], clerk[r])
    BY <1>4, <1>5 DEF RequestOK, ChangeFits, EarlyStages, Ended
  <2> QED
    BY <1>4, <2>1, <2>2, <2>3 DEF RequestOK
<1> QED
  BY <1>1, <1>3, <1>6, Stays DEF Statement

LEMMA GuardKeeps ==
  ASSUME IInv, TypeOK', NEW r \in Requests, Only(r), Guard(r)
  PROVE  IInv'
<1>1. /\ pc[r] = "guard" /\ pc[r] \in TenantStages \cup TargetStages /\ pc[r] \in Open
      /\ Select(r)
  BY DEF Guard, TenantStages, Open
<1>2. Setting(on[r]) = call[r].tenant
  BY <1>1, Facts, OpenFacts DEF RequestOK, ScopeFits, TenantStages
<1>3. CASE MayCall(r)
  <2>1. /\ pc'[r] = AfterGuard(r) /\ AfterGuard(r) \in {"memberships", "handler"}
        /\ call'[r] = call[r] /\ clerk'[r] = clerk[r] /\ hurt'[r] = hurt[r]
        /\ unflushed'[r] = unflushed[r] /\ written'[r] = written[r] /\ stored'[r] = stored[r]
        /\ UNCHANGED settings
    BY <1>3 DEF Guard, Goto, AfterGuard, IInv, TypeOK, rows
  <2>2. RequestOK(call[r], "guard", local[on[r]], unflushed[r], written[r], stored[r],
                  seen'[r], clerk[r], hurt[r])
    BY <1>1, SelectOK
  <2>3. AfterGuard(r) = "memberships" =>
            call[r].kind \in CrossOrg /\ call[r].admin /\ call[r].tenant = PlatformOrg
    BY <1>3 DEF AfterGuard, MayCall, GuardFinds, CrossOrg
  <2>4. RequestOK(call[r], AfterGuard(r), local[on[r]], unflushed[r], written[r], stored[r],
                  seen'[r], clerk[r], hurt[r])
    BY <2>1, <2>2, <2>3
    DEF RequestOK, ScopeFits, StaysHome, ChangeFits, VerdictFits, Open, Ended, TenantStages,
        TargetStages, PlatformStages, ChangeStages, EarlyStages
  <2> QED
    BY <1>1, <2>1, <2>4, Stays DEF Open
<1>4. CASE ~MayCall(r)
  <2>1. VerdictFits(call[r], "denied", hurt'[r])
    BY <1>2, <1>4 DEF VerdictFits, MayCall, GuardFinds
  <2> QED
    BY <1>1, <1>4, <2>1, Refuses DEF Guard
<1> QED
  BY <1>3, <1>4

LEMMA CountAdminsKeeps ==
  ASSUME IInv, TypeOK', NEW r \in Requests, Only(r), CountAdmins(r)
  PROVE  IInv'
<1>1. /\ pc[r] = "count" /\ pc[r] \in TenantStages \cup TargetStages /\ pc[r] \in Open
      /\ Select(r)
  BY DEF CountAdmins, TargetStages, Open
<1>2. CASE Goto(r, "count", "clerk") /\ UNCHANGED <<settings, rows>>
  <2>1. /\ pc'[r] = "clerk"
        /\ call'[r] = call[r] /\ clerk'[r] = clerk[r] /\ hurt'[r] = hurt[r]
        /\ unflushed'[r] = unflushed[r] /\ written'[r] = written[r] /\ stored'[r] = stored[r]
    BY <1>2 DEF CountAdmins, Goto, IInv, TypeOK, rows
  <2>2. RequestOK(call[r], "count", local[on[r]], unflushed[r], written[r], stored[r],
                  seen'[r], clerk[r], hurt[r])
    BY <1>1, SelectOK
  <2>3. RequestOK(call[r], "clerk", local[on[r]], unflushed[r], written[r], stored[r],
                  seen'[r], clerk[r], hurt[r])
    BY <2>2
    DEF RequestOK, ScopeFits, StaysHome, ChangeFits, VerdictFits, Open, Ended, TenantStages,
        TargetStages, PlatformStages, ChangeStages, EarlyStages
  <2> QED
    BY <1>1, <1>2, <2>1, <2>3, Stays DEF Open
<1>3. CASE Rollback(r, "refused")
  <2>1. VerdictFits(call[r], "refused", hurt'[r])
    BY DEF VerdictFits
  <2> QED
    BY <1>1, <1>3, <2>1, Refuses DEF CountAdmins
<1> QED
  BY <1>2, <1>3 DEF CountAdmins

LEMMA ArriveKeeps ==
  ASSUME IInv, TypeOK', NEW r \in Requests, Only(r), Arrive(r)
  PROVE  IInv'
<1>1. PICK c \in Calls : call' = [call EXCEPT ![r] = c]
  BY DEF Arrive
<1>2. /\ pc[r] = "idle" /\ pc'[r] = "begin" /\ call'[r] = c
      /\ unflushed'[r] = unflushed[r] /\ written'[r] = written[r] /\ stored'[r] = stored[r]
      /\ seen'[r] = seen[r] /\ clerk'[r] = clerk[r] /\ hurt'[r] = hurt[r]
      /\ UNCHANGED settings
  BY <1>1 DEF Arrive, Goto, IInv, TypeOK, rows
<1>3. RequestOK(call[r], "idle", local[on[r]], unflushed[r], written[r], stored[r],
                seen[r], clerk[r], hurt[r])
  BY <1>2, Facts
<1>4. /\ unflushed[r] = {} /\ written[r] = {} /\ stored[r] = {} /\ seen[r] = {}
      /\ ~clerk[r]
  BY <1>3 DEF RequestOK, ScopeFits, StaysHome, Open
<1>5. RequestOK(c, "begin", local[on[r]], {}, {}, {}, {}, clerk[r], hurt[r])
  BY <1>4
  DEF RequestOK, ScopeFits, StaysHome, ChangeFits, VerdictFits, Calls, Open, Ended,
      TenantStages, TargetStages, PlatformStages, ChangeStages
<1> QED
  BY <1>2, <1>4, <1>5, Stays DEF Open

LEMMA NoBackendKeeps ==
  ASSUME IInv, TypeOK', NEW r \in Requests, Only(r), NoBackend(r)
  PROVE  IInv'
<1>1. /\ pc[r] \in {"begin", "beginAgain"} /\ pc'[r] = "failed" /\ hurt'[r] = TRUE
      /\ call'[r] = call[r] /\ unflushed'[r] = unflushed[r] /\ written'[r] = written[r]
      /\ stored'[r] = stored[r] /\ seen'[r] = seen[r] /\ clerk'[r] = clerk[r]
      /\ UNCHANGED settings
  BY DEF NoBackend, IInv, TypeOK, rows
<1>2. unflushed[r] = {} /\ written[r] = {}
  BY <1>1, Facts DEF RequestOK, ScopeFits, Open
<1>3. VerdictFits(call[r], "failed", hurt'[r])
  BY <1>1 DEF VerdictFits
<1>4. \A n : RequestOK(call[r], "failed", n, {}, {}, stored[r], seen[r], clerk[r], hurt'[r])
  <2>1. RequestOK(call[r], pc[r], local[on[r]], unflushed[r], written[r], stored[r], seen[r],
                  clerk[r], hurt[r])
    BY Facts
  <2>2. pc[r] \in Open \cup {"begin", "beginAgain"} /\ call[r] \in Call
    BY <1>1, Facts
  <2> QED
    BY <1>3, <2>1, <2>2, EndOK
<1> QED
  BY <1>1, <1>2, <1>4, Stays DEF Open

LEMMA AssertScopedKeeps ==
  ASSUME IInv, TypeOK', NEW r \in Requests, Only(r), AssertScoped(r)
  PROVE  IInv'
<1>1. pc[r] = "assert" /\ pc[r] \in Open
  BY DEF AssertScoped, Open
<1>2. CASE ScopedTo(r, call[r].tenant)
  <2>1. /\ pc'[r] = "search" /\ call'[r] = call[r] /\ stored'[r] = stored[r]
        /\ unflushed'[r] = unflushed[r] /\ written'[r] = written[r] /\ seen'[r] = seen[r]
        /\ clerk'[r] = clerk[r] /\ hurt'[r] = hurt[r] /\ UNCHANGED settings
    BY <1>2 DEF AssertScoped, Goto, IInv, TypeOK, rows
  <2>2. local[on[r]] = call[r].tenant
    BY <1>1, <1>2, OpenFacts DEF ScopedTo
  <2>3. RequestOK(call[r], "search", local[on[r]], unflushed[r], written[r], stored[r],
                  seen[r], clerk[r], hurt[r])
    BY <1>1, <2>2, Facts
    DEF RequestOK, ScopeFits, StaysHome, ChangeFits, VerdictFits, Open, Ended, TenantStages,
        TargetStages, PlatformStages, ChangeStages, EarlyStages
  <2> QED
    BY <1>1, <2>1, <2>3, Stays DEF Open
<1>3. CASE ~ScopedTo(r, call[r].tenant)
  <2>1. VerdictFits(call[r], "refused", hurt'[r])
    BY DEF VerdictFits
  <2> QED
    BY <1>1, <1>3, <2>1, Refuses DEF AssertScoped
<1> QED
  BY <1>2, <1>3

LEMMA CommitCallKeeps ==
  ASSUME IInv, TypeOK', NEW r \in Requests, Only(r), CommitCall(r)
  PROVE  IInv'
<1>1. pc[r] = "commit" /\ pc[r] \in Open
  BY DEF CommitCall, Open
<1>2. RequestOK(call[r], "commit", local[on[r]], unflushed[r], written[r], stored[r],
                seen[r], clerk[r], hurt[r])
  BY <1>1, Facts
<1>3. unflushed[r] \subseteq Admitted(r)
  BY <1>1, <1>2, OpenFacts DEF RequestOK, ScopeFits, IInv, TypeOK
<1>4. /\ pc'[r] = "served" /\ stored'[r] = stored[r] \cup written[r] \cup unflushed[r]
      /\ call'[r] = call[r] /\ seen'[r] = seen[r] /\ clerk'[r] = clerk[r]
      /\ hurt'[r] = hurt[r] /\ EndTransaction(r)
  BY <1>3 DEF CommitCall, Commit, IInv, TypeOK
<1>5. \A n : RequestOK(call[r], "served", n, {}, {},
                       stored[r] \cup written[r] \cup unflushed[r],
                       seen[r], clerk[r], hurt[r])
  BY <1>2, Facts, CommitOK
<1> QED
  BY <1>1, <1>4, <1>5, Ends DEF Open

LEMMA AnswerLostKeeps ==
  ASSUME IInv, TypeOK', NEW r \in Requests, Only(r), AnswerLost(r)
  PROVE  IInv'
<1>1. pc[r] = "commit" /\ pc[r] \in Open
  BY DEF AnswerLost, Open
<1>2. RequestOK(call[r], "commit", local[on[r]], unflushed[r], written[r], stored[r],
                seen[r], clerk[r], hurt[r])
  BY <1>1, Facts
<1>3. unflushed[r] \subseteq Admitted(r)
  BY <1>1, <1>2, OpenFacts DEF RequestOK, ScopeFits, IInv, TypeOK
<1>4. /\ pc'[r] = "failed" /\ stored'[r] = stored[r] \cup written[r] \cup unflushed[r]
      /\ call'[r] = call[r] /\ seen'[r] = seen[r] /\ clerk'[r] = clerk[r]
      /\ hurt'[r] = TRUE /\ EndTransaction(r)
  BY <1>3 DEF AnswerLost, Commit, IInv, TypeOK
<1>5. \A n : RequestOK(call[r], "failed", n, {}, {},
                       stored[r] \cup written[r] \cup unflushed[r],
                       seen[r], clerk[r], TRUE)
  BY <1>2, Facts, CommitOK
<1> QED
  BY <1>1, <1>4, <1>5, Ends DEF Open

LEMMA CommitProvisioningKeeps ==
  ASSUME IInv, TypeOK', NEW r \in Requests, Only(r), CommitProvisioning(r)
  PROVE  IInv'
<1>1. pc[r] = "provisioned" /\ pc[r] \in Open
  BY DEF CommitProvisioning, Open
<1>2. RequestOK(call[r], "provisioned", local[on[r]], unflushed[r], written[r], stored[r],
                seen[r], clerk[r], hurt[r])
  BY <1>1, Facts
<1>3. unflushed[r] \subseteq Admitted(r)
  BY <1>1, <1>2, OpenFacts DEF RequestOK, ScopeFits, IInv, TypeOK
<1>4. /\ pc'[r] = "beginAgain" /\ stored'[r] = stored[r] \cup written[r] \cup unflushed[r]
      /\ call'[r] = call[r] /\ seen'[r] = seen[r] /\ clerk'[r] = clerk[r]
      /\ hurt'[r] = hurt[r] /\ EndTransaction(r)
  BY <1>3 DEF CommitProvisioning, Commit, IInv, TypeOK
<1>5. \A n : RequestOK(call[r], "beginAgain", n, {}, {},
                       stored[r] \cup written[r] \cup unflushed[r],
                       seen[r], clerk[r], hurt[r])
  BY <1>2, Facts, CommitProvisioningOK
<1> QED
  BY <1>1, <1>4, <1>5, Ends DEF Open

LEMMA ProvisionKeeps ==
  ASSUME IInv, TypeOK', NEW r \in Requests, Only(r), Provision(r)
  PROVE  IInv'
<1>1. /\ pc[r] = "provision" /\ pc[r] \in TenantStages \cup TargetStages
      /\ pc[r] \in Open /\ Select(r)
  BY DEF Provision, TenantStages, Open
<1> DEFINE t == IF call[r].kind = "product" THEN "users" ELSE "clerk_admin_users"
           q == IF call[r].kind = "product" THEN "handler" ELSE "provisioned"
<1>2. PICK own \in {{}, {Row(t, call[r].tenant)}} : Send(r, own, q)
  BY DEF Provision
<1>0. t \in {"users", "clerk_admin_users"} /\ q \in {"handler", "provisioned"}
  OBVIOUS
<1> HIDE DEF t, q
<1>3. RequestOK(call[r], "provision", local[on[r]], unflushed[r], written[r], stored[r],
                seen'[r], clerk[r], hurt[r])
  BY <1>1, SelectOK
<1>4. local[on[r]] = call[r].tenant /\ unflushed[r] = {}
  BY <1>3 DEF RequestOK, ScopeFits, TenantStages
<1>5. own \subseteq Admitted(r)
  <2>1. Row(t, call[r].tenant) \in Rows
    BY <1>0, Facts, RowFacts DEF Tables, Call
  <2> QED
    BY <1>1, <1>4, <2>1, OpenFacts DEF Row
<1>6. /\ pc'[r] = q /\ written'[r] = written[r] \cup own /\ unflushed'[r] = {}
      /\ stored'[r] = stored[r] /\ call'[r] = call[r] /\ clerk'[r] = clerk[r]
      /\ hurt'[r] = hurt[r] /\ UNCHANGED settings
  BY <1>2, <1>4, <1>5 DEF Provision, Send, IInv, TypeOK
<1>7. \A row \in own : /\ row.org = call[r].tenant
                       /\ row # Row("human_audit_log", call[r].target)
  BY <1>0 DEF Row
<1>8. RequestOK(call[r], "provision", local[on[r]], {}, written[r] \cup own, stored[r],
                seen'[r], clerk[r], hurt[r])
  <2>1. ScopeFits(call[r], "provision", local[on[r]], {}, written[r] \cup own)
    BY <1>3 DEF RequestOK, ScopeFits, Open
  <2>2. StaysHome(call[r], "provision", {}, written[r] \cup own, stored[r], seen'[r])
    BY <1>3, <1>7 DEF RequestOK, StaysHome, ActsFor
  <2>3. ChangeFits(call[r], "provision", {}, written[r] \cup own, stored[r], clerk[r])
    BY <1>3, <1>7 DEF RequestOK, ChangeFits, EarlyStages, Ended
  <2> QED
    BY <1>3, <2>1, <2>2, <2>3 DEF RequestOK
<1>9. RequestOK(call[r], q, local[on[r]], {}, written[r] \cup own, stored[r],
                seen'[r], clerk[r], hurt[r])
  BY <1>0, <1>8, Facts, PlainMoveOK DEF PlainMoves
<1> QED
  BY <1>0, <1>1, <1>6, <1>9, Stays DEF Open

LEMMA WriteAdminRowKeeps ==
  ASSUME IInv, TypeOK', NEW r \in Requests, Only(r), WriteAdminRow(r)
  PROVE  IInv'
<1>1. PICK found \in SUBSET {Row("clerk_admin_users", call[r].target)} :
          written' = [written EXCEPT ![r] = @ \cup found]
  BY DEF WriteAdminRow
<1>2. /\ pc[r] = "adminRow" /\ pc'[r] = "usersRow" /\ written'[r] = written[r] \cup found
      /\ call'[r] = call[r] /\ unflushed'[r] = unflushed[r] /\ stored'[r] = stored[r]
      /\ seen'[r] = seen[r] /\ clerk'[r] = clerk[r] /\ hurt'[r] = hurt[r]
      /\ UNCHANGED settings
  BY <1>1 DEF WriteAdminRow, Goto, IInv, TypeOK
<1>3. \A row \in found : /\ row.org = call[r].target
                         /\ row # Row("human_audit_log", call[r].target)
  BY DEF Row
<1>4. RequestOK(call[r], "adminRow", local[on[r]], unflushed[r], written[r], stored[r],
                seen[r], clerk[r], hurt[r])
  BY <1>2, Facts
<1>5. RequestOK(call[r], "usersRow", local[on[r]], unflushed[r], written[r] \cup found,
                stored[r], seen[r], clerk[r], hurt[r])
  <2>1. ScopeFits(call[r], "usersRow", local[on[r]], unflushed[r], written[r] \cup found)
    BY <1>4 DEF RequestOK, ScopeFits, TenantStages, TargetStages, Open
  <2>2. StaysHome(call[r], "usersRow", unflushed[r], written[r] \cup found, stored[r], seen[r])
    BY <1>3, <1>4 DEF RequestOK, StaysHome, ActsFor, PlatformStages, ChangeStages
  <2>3. ChangeFits(call[r], "usersRow", unflushed[r], written[r] \cup found, stored[r], clerk[r])
    BY <1>3, <1>4 DEF RequestOK, ChangeFits, EarlyStages, Ended
  <2> QED
    BY <1>4, <2>1, <2>2, <2>3 DEF RequestOK, VerdictFits
<1> QED
  BY <1>2, <1>5, Stays DEF Open

LEMMA ChangeUsersRowKeeps ==
  ASSUME IInv, TypeOK', NEW r \in Requests, Only(r), ChangeUsersRow(r)
  PROVE  IInv'
<1> DEFINE row == Row("users", call[r].target)
<1>1. /\ pc[r] = "usersRow" /\ pc[r] \in TenantStages \cup TargetStages
      /\ pc[r] \in Open /\ Select(r)
  BY DEF ChangeUsersRow, TargetStages, Open
<1>2. RequestOK(call[r], "usersRow", local[on[r]], unflushed[r], written[r], stored[r],
                seen'[r], clerk[r], hurt[r])
  BY <1>1, SelectOK
<1>3. /\ call[r].target \in Orgs /\ call[r].target \in ActsFor(call[r])
      /\ local[on[r]] = call[r].target /\ unflushed[r] = {}
  BY <1>2 DEF RequestOK, ScopeFits, StaysHome, ActsFor, TargetStages, PlatformStages,
     ChangeStages
<1>4. row.org = call[r].target /\ row # Row("human_audit_log", call[r].target)
  BY DEF Row
<1>5. row \in Admitted(r)
  <2>1. row \in Rows
    BY <1>3, RowFacts DEF Tables
  <2> QED
    BY <1>1, <1>3, <1>4, <2>1, OpenFacts
<1>6. /\ call'[r] = call[r] /\ written'[r] = written[r] /\ stored'[r] = stored[r]
      /\ clerk'[r] = clerk[r] /\ hurt'[r] = hurt[r] /\ UNCHANGED settings
  BY DEF ChangeUsersRow
<1> HIDE DEF row
<1>7. CASE call[r].member
  <2>1. pc'[r] = "flush" /\ unflushed'[r] = {row}
    BY <1>3, <1>5, <1>7 DEF ChangeUsersRow, Goto, IInv, TypeOK, row
  <2>2. ScopeFits(call[r], "flush", local[on[r]], {row}, written[r])
    BY <1>2, <1>3, <1>4 DEF RequestOK, ScopeFits, TenantStages, TargetStages, Open
  <2>3. StaysHome(call[r], "flush", {row}, written[r], stored[r], seen'[r])
    BY <1>2, <1>3, <1>4 DEF RequestOK, StaysHome, PlatformStages, ChangeStages
  <2>4. ChangeFits(call[r], "flush", {row}, written[r], stored[r], clerk[r])
    BY <1>2, <1>3, <1>4 DEF RequestOK, ChangeFits, EarlyStages, Ended, row
  <2>5. RequestOK(call[r], "flush", local[on[r]], {row}, written[r], stored[r],
                  seen'[r], clerk[r], hurt[r])
    BY <1>2, <2>2, <2>3, <2>4 DEF RequestOK, VerdictFits
  <2> QED
    BY <1>1, <1>6, <2>1, <2>5, Stays DEF Open
<1>8. CASE ~call[r].member
  <2>1. pc'[r] = "scopeBack" /\ unflushed'[r] = unflushed[r]
    BY <1>8 DEF ChangeUsersRow, Goto, IInv, TypeOK
  <2>2. RequestOK(call[r], "scopeBack", local[on[r]], unflushed[r], written[r], stored[r],
                  seen'[r], clerk[r], hurt[r])
    BY <1>2, <1>8
    DEF RequestOK, ScopeFits, StaysHome, ChangeFits, VerdictFits, Open, Ended,
        TenantStages, TargetStages, PlatformStages, ChangeStages, EarlyStages
  <2> QED
    BY <1>1, <1>6, <2>1, <2>2, Stays DEF Open
<1> QED
  BY <1>7, <1>8

LEMMA FlushKeeps ==
  ASSUME IInv, TypeOK', NEW r \in Requests, Only(r), Flush(r)
  PROVE  IInv'
<1>1. pc[r] = "flush" /\ pc[r] \in Open
  BY DEF Flush, Open
<1>2. RequestOK(call[r], "flush", local[on[r]], unflushed[r], written[r], stored[r],
                seen[r], clerk[r], hurt[r])
  BY <1>1, Facts
<1>3. unflushed[r] \subseteq Admitted(r)
  BY <1>1, <1>2, OpenFacts DEF RequestOK, ScopeFits, IInv, TypeOK
<1>4. /\ pc'[r] = "scopeBack" /\ written'[r] = written[r] \cup unflushed[r]
      /\ unflushed'[r] = {} /\ stored'[r] = stored[r] /\ call'[r] = call[r]
      /\ seen'[r] = seen[r] /\ clerk'[r] = clerk[r] /\ hurt'[r] = hurt[r]
      /\ UNCHANGED settings
  BY <1>3 DEF Flush, Send, IInv, TypeOK
<1>5. RequestOK(call[r], "scopeBack", local[on[r]], {}, written[r] \cup unflushed[r],
                stored[r], seen[r], clerk[r], hurt[r])
  <2>1. ScopeFits(call[r], "scopeBack", local[on[r]], {}, written[r] \cup unflushed[r])
    BY <1>2 DEF RequestOK, ScopeFits, TenantStages, TargetStages, Open
  <2>2. StaysHome(call[r], "scopeBack", {}, written[r] \cup unflushed[r], stored[r], seen[r])
    BY <1>2 DEF RequestOK, StaysHome, PlatformStages, ChangeStages
  <2>3. ChangeFits(call[r], "scopeBack", {}, written[r] \cup unflushed[r], stored[r], clerk[r])
    BY <1>2 DEF RequestOK, ChangeFits, EarlyStages, Ended
  <2> QED
    BY <1>2, <2>1, <2>2, <2>3 DEF RequestOK, VerdictFits
<1> QED
  BY <1>1, <1>4, <1>5, Stays DEF Open

LEMMA AuditKeeps ==
  ASSUME IInv, TypeOK', NEW r \in Requests, Only(r), Audit(r)
  PROVE  IInv'
<1> DEFINE row == Row("human_audit_log", call[r].tenant)
<1>1. /\ pc[r] = "audit" /\ pc[r] \in TenantStages \cup TargetStages
      /\ pc[r] \in Open /\ Select(r)
  BY DEF Audit, TenantStages, Open
<1>2. RequestOK(call[r], "audit", local[on[r]], unflushed[r], written[r], stored[r],
                seen'[r], clerk[r], hurt[r])
  BY <1>1, SelectOK
<1>3. GuardFinds(r) /\ local[on[r]] = call[r].tenant /\ unflushed[r] = {}
  BY <1>1, <1>2, OpenFacts
  DEF RequestOK, ScopeFits, StaysHome, GuardFinds, TenantStages, PlatformStages, ChangeStages
<1>4. /\ row.org = call[r].tenant
      /\ call[r].target # call[r].tenant => row # Row("human_audit_log", call[r].target)
  BY DEF Row
<1>5. /\ pc'[r] = "commit" /\ unflushed'[r] = {row}
      /\ call'[r] = call[r] /\ written'[r] = written[r] /\ stored'[r] = stored[r]
      /\ clerk'[r] = clerk[r] /\ hurt'[r] = hurt[r] /\ UNCHANGED settings
  BY <1>3 DEF Audit, Goto, IInv, TypeOK
<1> HIDE DEF row
<1>6. RequestOK(call[r], "commit", local[on[r]], {row}, written[r], stored[r],
                seen'[r], clerk[r], hurt[r])
  <2>1. ScopeFits(call[r], "commit", local[on[r]], {row}, written[r])
    BY <1>2, <1>3, <1>4 DEF RequestOK, ScopeFits, TenantStages, TargetStages, Open
  <2>2. StaysHome(call[r], "commit", {row}, written[r], stored[r], seen'[r])
    BY <1>2, <1>4 DEF RequestOK, StaysHome, ActsFor, PlatformStages, ChangeStages
  <2>3. ChangeFits(call[r], "commit", {row}, written[r], stored[r], clerk[r])
    BY <1>2, <1>4 DEF RequestOK, ChangeFits, EarlyStages, Ended, row
  <2> QED
    BY <1>2, <2>1, <2>2, <2>3 DEF RequestOK, VerdictFits
<1> QED
  BY <1>1, <1>5, <1>6, Stays DEF Open

LEMMA BeginKeeps ==
  ASSUME IInv, TypeOK', NEW r \in Requests, Only(r), NEW b \in Backends, Begin(r, b)
  PROVE  IInv'
<1> DEFINE p == IF pc[r] = "begin" THEN AfterFirstScope(r) ELSE "guard"
<1>1. /\ pc[r] \in {"begin", "beginAgain"} /\ pc'[r] = p /\ on'[r] = b
      /\ local'[b] = FirstScope(r)
      /\ call'[r] = call[r] /\ unflushed'[r] = unflushed[r] /\ written'[r] = written[r]
      /\ stored'[r] = stored[r] /\ seen'[r] = seen[r] /\ clerk'[r] = clerk[r]
      /\ hurt'[r] = hurt[r]
  BY DEF Begin, SetConfig, IInv, TypeOK, rows
<1>2. \/ p = "provision" /\ pc[r] = "begin" /\ call[r].kind # "search"
      \/ p = "handler" /\ pc[r] = "begin" /\ call[r].kind = "job"
      \/ p = "assert" /\ pc[r] = "begin" /\ call[r].kind = "search"
      \/ p = "guard" /\ pc[r] = "beginAgain"
  BY <1>1 DEF AfterFirstScope
<1>3. pc[r] \notin Open /\ p \in Open
  BY <1>1, <1>2 DEF Open
<1> HIDE DEF p
<1>4. \A q \in Requests \ {r} :
          on[q] # None => on'[q] = on[q] /\ local'[on[q]] = local[on[q]]
  BY DEF Begin, SetConfig, IInv, TypeOK
<1>5. BackendInv'
  BY <1>1, <1>3, TenantScopeAssumption
  DEF IInv, TypeOK, BackendInv, Only, Begin, SetConfig
<1>6. RequestOK(call[r], pc[r], local[on[r]], unflushed[r], written[r], stored[r],
                seen[r], clerk[r], hurt[r])
  BY Facts
<1>7. RequestOK(call[r], p, FirstScope(r), unflushed[r], written[r], stored[r],
                seen[r], clerk[r], hurt[r])
  <2>1. p \in TenantStages => FirstScope(r) = call[r].tenant
    BY <1>2, <1>6 DEF FirstScope, RequestOK, StaysHome, TenantStages
  <2>2. unflushed[r] = {} /\ written[r] = {}
    BY <1>1, <1>6 DEF RequestOK, ScopeFits, Open
  <2>3. ScopeFits(call[r], p, FirstScope(r), unflushed[r], written[r])
    BY <1>2, <2>1, <2>2 DEF ScopeFits, TargetStages, Open
  <2>4. StaysHome(call[r], p, unflushed[r], written[r], stored[r], seen[r])
    BY <1>1, <1>2, <1>6 DEF RequestOK, StaysHome, PlatformStages, ChangeStages
  <2>5. ChangeFits(call[r], p, unflushed[r], written[r], stored[r], clerk[r])
    BY <1>1, <1>2, <1>6 DEF RequestOK, ChangeFits, EarlyStages, Ended
  <2>6. VerdictFits(call[r], p, hurt[r]) /\ p # "idle"
    BY <1>2 DEF VerdictFits
  <2> QED
    BY <2>3, <2>4, <2>5, <2>6 DEF RequestOK
<1>8. RequestInv'
  BY <1>1, <1>4, <1>7, RequestsKeep DEF IInv
<1> QED
  BY <1>5, <1>8 DEF IInv

-----------------------------------------------------------------------------
(* The invariant, and what follows from it.                                *)

LEMMA StepInv == IInv /\ [Next]_vars => IInv'
<1>1. ASSUME IInv, UNCHANGED vars PROVE IInv'
  BY <1>1
  DEF IInv, TypeOK, BackendInv, RequestInv, RequestOK, ScopeFits, StaysHome, ChangeFits,
      VerdictFits, vars
<1>2. ASSUME IInv, NEW r \in Requests, Step(r) PROVE IInv'
  <2>1. TypeOK' /\ Only(r)
    BY <1>2, StepKeepsTypes, StepTouchesOne DEF IInv
  <2>2. CASE \E b \in Backends : Begin(r, b)
    BY <1>2, <2>1, <2>2, BeginKeeps
  <2>3. CASE Arrive(r)
    BY <1>2, <2>1, <2>3, ArriveKeeps
  <2>4. CASE Provision(r)
    BY <1>2, <2>1, <2>4, ProvisionKeeps
  <2>5. CASE CommitProvisioning(r)
    BY <1>2, <2>1, <2>5, CommitProvisioningKeeps
  <2>6. CASE Guard(r)
    BY <1>2, <2>1, <2>6, GuardKeeps
  <2>7. CASE Statement(r)
    BY <1>2, <2>1, <2>7, StatementKeeps
  <2>8. CASE HandlerReturns(r)
    BY <1>2, <2>1, <2>8, HandlerReturnsKeeps
  <2>9. CASE HandlerRaises(r)
    BY <1>2, <2>1, <2>9, HandlerRaisesKeeps
  <2>10. CASE ScopeForList(r)
    BY <1>2, <2>1, <2>10, ScopeForListKeeps
  <2>11. CASE ReadLocalRows(r)
    BY <1>2, <2>1, <2>11, ReadLocalRowsKeeps
  <2>12. CASE RefuseTarget(r)
    BY <1>2, <2>1, <2>12, RefuseTargetKeeps
  <2>13. CASE NothingToDo(r)
    BY <1>2, <2>1, <2>13, NothingToDoKeeps
  <2>14. CASE NoCount(r)
    BY <1>2, <2>1, <2>14, NoCountKeeps
  <2>15. CASE ScopeForCount(r)
    BY <1>2, <2>1, <2>15, ScopeForCountKeeps
  <2>16. CASE CountAdmins(r)
    BY <1>2, <2>1, <2>16, CountAdminsKeeps
  <2>17. CASE ClerkApplies(r)
    BY <1>2, <2>1, <2>17, ClerkAppliesKeeps
  <2>18. CASE Rescope(r)
    BY <1>2, <2>1, <2>18, RescopeKeeps
  <2>19. CASE WriteAdminRow(r)
    BY <1>2, <2>1, <2>19, WriteAdminRowKeeps
  <2>20. CASE ChangeUsersRow(r)
    BY <1>2, <2>1, <2>20, ChangeUsersRowKeeps
  <2>21. CASE Flush(r)
    BY <1>2, <2>1, <2>21, FlushKeeps
  <2>22. CASE ScopeBack(r)
    BY <1>2, <2>1, <2>22, ScopeBackKeeps
  <2>23. CASE Audit(r)
    BY <1>2, <2>1, <2>23, AuditKeeps
  <2>24. CASE AssertScoped(r)
    BY <1>2, <2>1, <2>24, AssertScopedKeeps
  <2>25. CASE HybridSearch(r)
    BY <1>2, <2>1, <2>25, HybridSearchKeeps
  <2>26. CASE CommitCall(r)
    BY <1>2, <2>1, <2>26, CommitCallKeeps
  <2>27. CASE Fails(r)
    BY <1>2, <2>1, <2>27, FailsKeeps
  <2>28. CASE NoBackend(r)
    BY <1>2, <2>1, <2>28, NoBackendKeeps
  <2>29. CASE AnswerLost(r)
    BY <1>2, <2>1, <2>29, AnswerLostKeeps
  <2> QED
    BY <1>2, <2>2, <2>3, <2>4, <2>5, <2>6, <2>7, <2>8, <2>9, <2>10, <2>11, <2>12,
       <2>13, <2>14, <2>15, <2>16, <2>17, <2>18, <2>19, <2>20, <2>21, <2>22, <2>23,
       <2>24, <2>25, <2>26, <2>27, <2>28, <2>29 DEF Step
<1> QED
  BY <1>1, <1>2 DEF Next

THEOREM Invariance == Spec => []IInv
BY InitInv, StepInv, PTL DEF Spec

\* The variables keep the ranges the code gives them.
THEOREM TypeCorrectness == Spec => []TypeOK
<1>1. IInv => TypeOK
  BY DEF IInv
<1> QED
  BY <1>1, Invariance, PTL

\* For any pool and any tenants, a backend that is free to be lent again
\* carries no organisation's setting.
THEOREM BackendsReturnClean == Spec => []NothingLeaks
<1>1. IInv => NothingLeaks
  BY DEF IInv, BackendInv, NothingLeaks, Setting
<1> QED
  BY <1>1, Invariance, PTL

\* A platform admin's change of another organisation and its audit row are
\* written together or not at all, each under its own organisation.
THEOREM ChangesAreAudited == Spec => []CrossOrgChangeIsAudited
<1>1. IInv => CrossOrgChangeIsAudited
  <2> SUFFICES ASSUME IInv, NEW r \in Requests,
                      call[r].kind = "change", call[r].target # call[r].tenant
               PROVE  /\ Row("human_audit_log", call[r].target) \notin stored[r]
                      /\ (\E row \in stored[r] : row.org = call[r].target) =>
                             Row("human_audit_log", call[r].tenant) \in stored[r]
                      /\ pc[r] = "served" /\ clerk[r] =>
                             /\ Row("human_audit_log", call[r].tenant) \in stored[r]
                             /\ call[r].member => Row("users", call[r].target) \in stored[r]
    BY DEF CrossOrgChangeIsAudited
  <2> QED
    BY Facts DEF RequestOK, ChangeFits
<1> QED
  BY <1>1, Invariance, PTL

\* No request fails by its own changes of scope: whoever fails was hurt by
\* something outside.
THEOREM OnlyOutsideFails == Spec => []FailuresAreExternal
<1>1. IInv => FailuresAreExternal
  BY Facts DEF FailuresAreExternal, RequestOK, VerdictFits
<1> QED
  BY <1>1, Invariance, PTL

\* The guard, in a transaction of its own, sees the caller's row.
THEOREM GuardFindsTheCaller == Spec => []GuardSeesTheCaller
<1>1. IInv => GuardSeesTheCaller
  BY Facts DEF GuardSeesTheCaller, RequestOK, VerdictFits
<1> QED
  BY <1>1, Invariance, PTL

-----------------------------------------------------------------------------
(* TenantScope implements TenantIsolation.                                 *)

\* After it has arrived, a step of r shows it rows in scope, or stores rows,
\* and does not do both.
Tame(r) ==
    /\ UNCHANGED call
    /\ pc[r] # "idle" /\ pc'[r] # "idle"
    /\ \/ UNCHANGED stored /\ (UNCHANGED seen \/ Select(r))
       \/ UNCHANGED seen /\ stored[r] \subseteq stored'[r]

LEMMA StepIsTame ==
  ASSUME TypeOK, NEW r \in Requests, Step(r), ~Arrive(r)
  PROVE  Tame(r)
<1>1. CASE Provision(r)
  BY <1>1 DEF TypeOK, Tame, Provision, settings, Send, Rollback, EndTransaction
<1>2. CASE CommitProvisioning(r)
  BY <1>2 DEF TypeOK, Tame, CommitProvisioning, Commit, Rollback, EndTransaction
<1>3. CASE Guard(r)
  BY <1>3 DEF TypeOK, Tame, Guard, settings, rows, Goto, Rollback, EndTransaction,
     AfterGuard
<1>4. CASE Statement(r)
  BY <1>4 DEF TypeOK, Tame, Statement, settings
<1>5. CASE HandlerReturns(r)
  BY <1>5 DEF TypeOK, Tame, HandlerReturns, settings, rows, Goto
<1>6. CASE HandlerRaises(r)
  BY <1>6 DEF TypeOK, Tame, HandlerRaises, Rollback, EndTransaction
<1>7. CASE ScopeForList(r)
  BY <1>7 DEF TypeOK, Tame, ScopeForList, rows, Goto
<1>8. CASE ReadLocalRows(r)
  BY <1>8 DEF TypeOK, Tame, ReadLocalRows, settings, rows, Goto
<1>9. CASE RefuseTarget(r)
  BY <1>9 DEF TypeOK, Tame, RefuseTarget, Rollback, EndTransaction
<1>10. CASE NothingToDo(r)
  BY <1>10 DEF TypeOK, Tame, NothingToDo, settings, rows, Goto
<1>11. CASE NoCount(r)
  BY <1>11 DEF TypeOK, Tame, NoCount, settings, rows, Goto
<1>12. CASE ScopeForCount(r)
  BY <1>12 DEF TypeOK, Tame, ScopeForCount, rows, Goto
<1>13. CASE CountAdmins(r)
  BY <1>13 DEF TypeOK, Tame, CountAdmins, settings, rows, Goto, Rollback,
     EndTransaction
<1>14. CASE ClerkApplies(r)
  BY <1>14 DEF TypeOK, Tame, ClerkApplies, settings, rows, Goto
<1>15. CASE Rescope(r)
  BY <1>15 DEF TypeOK, Tame, Rescope, rows, Goto
<1>16. CASE WriteAdminRow(r)
  BY <1>16 DEF TypeOK, Tame, WriteAdminRow, settings, Goto
<1>17. CASE ChangeUsersRow(r)
  BY <1>17 DEF TypeOK, Tame, ChangeUsersRow, settings, Goto
<1>18. CASE Flush(r)
  BY <1>18 DEF TypeOK, Tame, Flush, settings, Send, Rollback, EndTransaction
<1>19. CASE ScopeBack(r)
  BY <1>19 DEF TypeOK, Tame, ScopeBack, rows, Goto
<1>20. CASE Audit(r)
  BY <1>20 DEF TypeOK, Tame, Audit, settings, Goto, Rollback, EndTransaction
<1>21. CASE AssertScoped(r)
  BY <1>21 DEF TypeOK, Tame, AssertScoped, settings, rows, Goto, Rollback,
     EndTransaction
<1>22. CASE HybridSearch(r)
  BY <1>22 DEF TypeOK, Tame, HybridSearch, settings, rows, Goto
<1>23. CASE CommitCall(r)
  BY <1>23 DEF TypeOK, Tame, CommitCall, Commit, Rollback, EndTransaction
<1>24. CASE Fails(r)
  BY <1>24 DEF TypeOK, Tame, Fails, Rollback, EndTransaction, Open
<1>25. CASE NoBackend(r)
  BY <1>25 DEF TypeOK, Tame, NoBackend, settings, rows
<1>26. CASE AnswerLost(r)
  BY <1>26 DEF TypeOK, Tame, AnswerLost, Commit, Rollback, EndTransaction
<1>27. CASE \E b \in Backends : Begin(r, b)
  BY <1>27 DEF TypeOK, Tame, Begin, rows, AfterFirstScope
<1> QED
  BY <1>1, <1>2, <1>3, <1>4, <1>5, <1>6, <1>7, <1>8, <1>9, <1>10, <1>11, <1>12,
     <1>13, <1>14, <1>15, <1>16, <1>17, <1>18, <1>19, <1>20, <1>21, <1>22, <1>23,
     <1>24, <1>25, <1>26, <1>27 DEF Step

LEMMA ArrivalIsAdmission ==
  ASSUME IInv, NEW r \in Requests, Arrive(r)
  PROVE  Isolation!Next
<1>1. PICK c \in Calls : call' = [call EXCEPT ![r] = c]
  BY DEF Arrive
<1>2. /\ pc[r] = "idle" /\ pc' = [pc EXCEPT ![r] = "begin"]
      /\ UNCHANGED <<seen, stored>>
  BY DEF Arrive, Goto, rows
<1>3. May[r] = {}
  BY <1>2 DEF May
<1>4. May' = [May EXCEPT ![r] = ActsFor(c)]
  BY <1>1, <1>2 DEF IInv, TypeOK, May
<1>5. PICK t \in Orgs, o \in Orgs : ActsFor(c) = {t, o} /\ (o = t \/ t = PlatformOrg)
  <2>1. CASE c.kind \in CrossOrg /\ c.admin /\ c.tenant = PlatformOrg
    BY <2>1 DEF Calls, Call, ActsFor
  <2>2. CASE ~(c.kind \in CrossOrg /\ c.admin /\ c.tenant = PlatformOrg)
    BY <2>2 DEF Calls, Call, ActsFor
  <2> QED
    BY <2>1, <2>2
<1>6. Isolation!Admit(r, t, o)
  BY <1>2, <1>3, <1>4, <1>5 DEF Isolation!Admit
<1> QED
  BY <1>6 DEF Isolation!Next

LEMMA TameIsIsolated ==
  ASSUME IInv, IInv', NEW r \in Requests, Only(r), Tame(r)
  PROVE  Isolation!Next \/ UNCHANGED Isolation!isolationVars
<1>1. May' = May /\ May[r] = ActsFor(call[r])
  BY DEF Tame, Only, May, IInv, TypeOK
<1>2. CASE UNCHANGED stored /\ UNCHANGED seen
  BY <1>1, <1>2 DEF Isolation!isolationVars
<1>3. CASE UNCHANGED stored /\ Select(r) /\ ~UNCHANGED seen
  <2>1. Setting(on[r]) \in Orgs /\ Setting(on[r]) \in seen'[r]
    BY <1>3 DEF Select, IInv, TypeOK
  <2>2. seen'[r] \subseteq ActsFor(call[r])
    BY DEF IInv, RequestInv, RequestOK, StaysHome, Tame
  <2>3. seen' = [seen EXCEPT ![r] = @ \cup {Setting(on[r])}]
    <3>1. {Setting(on[r])} \cap Orgs = {Setting(on[r])}
      BY <2>1
    <3> QED
      BY <1>3, <3>1 DEF Select
  <2>4. Isolation!Read(r, Setting(on[r]))
    BY <1>1, <1>3, <2>1, <2>2, <2>3 DEF Isolation!Read
  <2> QED
    BY <2>1, <2>4 DEF Isolation!Next
<1>4. CASE UNCHANGED seen /\ stored[r] \subseteq stored'[r]
  <2>1. \A row \in stored'[r] : row.org \in ActsFor(call[r])
    BY DEF IInv, RequestInv, RequestOK, StaysHome, Tame
  <2>2. stored' = [stored EXCEPT ![r] = @ \cup stored'[r]]
    BY <1>4 DEF Only, IInv, TypeOK
  <2>3. Isolation!Commit(r)
    BY <1>1, <1>4, <2>1, <2>2 DEF Isolation!Commit
  <2> QED
    BY <2>3 DEF Isolation!Next
<1> QED
  BY <1>2, <1>3, <1>4 DEF Tame

\* Pooled backends, settings and re-scoping implement the promise that a
\* request is shown, and leaves behind, rows of its own organisations only.
THEOREM ScopeImplementsIsolation == Spec => ImplementsIsolation
<1>1. Init => Isolation!Init
  BY DEF Init, May, Isolation!Init
<1>2. IInv /\ IInv' /\ [Next]_vars => [Isolation!Next]_Isolation!isolationVars
  <2>1. ASSUME UNCHANGED vars PROVE UNCHANGED Isolation!isolationVars
    BY <2>1 DEF vars, May, Isolation!isolationVars
  <2>2. ASSUME IInv, IInv', NEW r \in Requests, Step(r)
        PROVE  Isolation!Next \/ UNCHANGED Isolation!isolationVars
    <3>1. Only(r)
      BY <2>2, StepTouchesOne DEF IInv
    <3>2. CASE Arrive(r)
      BY <2>2, <3>2, ArrivalIsAdmission
    <3>3. CASE ~Arrive(r)
      <4>1. Tame(r)
        BY <2>2, <3>3, StepIsTame DEF IInv
      <4> QED
        BY <2>2, <3>1, <4>1, TameIsIsolated
    <3> QED
      BY <3>2, <3>3
  <2> QED
    BY <2>1, <2>2 DEF Next
<1> QED
  BY <1>1, <1>2, Invariance, PTL DEF Spec, ImplementsIsolation, Isolation!Spec
=============================================================================
