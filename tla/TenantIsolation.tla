-------------------------- MODULE TenantIsolation --------------------------
(***************************************************************************)
(* What the platform promises about tenants, with no connection pool,      *)
(* settings or row-level security in sight: a request acts for one         *)
(* organisation -- or, when a platform admin makes it, for the platform's  *)
(* and one other -- it is shown rows of those organisations only, and what *)
(* it leaves behind are rows of those organisations only.                  *)
(*                                                                         *)
(* TenantScope is shown to implement this specification.                   *)
(***************************************************************************)
CONSTANTS Requests, Orgs, PlatformOrg

VARIABLES may,     \* may[r]: the organisations that request r acts for
          seen,    \* seen[r]: the organisations whose rows it was shown
          stored   \* stored[r]: the rows it has written and committed

isolationVars == <<may, seen, stored>>

Init == /\ may = [r \in Requests |-> {}]
        /\ seen = [r \in Requests |-> {}]
        /\ stored = [r \in Requests |-> {}]

\* A request arrives.  Nobody but the platform's admins acts for two organisations.
Admit(r, t, o) ==
    /\ may[r] = {}
    /\ o = t \/ t = PlatformOrg
    /\ may' = [may EXCEPT ![r] = {t, o}]
    /\ UNCHANGED <<seen, stored>>

Read(r, o) ==
    /\ o \in may[r]
    /\ seen' = [seen EXCEPT ![r] = @ \cup {o}]
    /\ UNCHANGED <<may, stored>>

\* Any rows of those organisations, all at once.
Commit(r) ==
    /\ UNCHANGED <<may, seen>>
    /\ \A row \in stored'[r] \ stored[r] : row.org \in may[r]
    /\ stored' = [stored EXCEPT ![r] = @ \cup stored'[r]]

Next == \E r \in Requests :
            \/ \E t, o \in Orgs : Admit(r, t, o)
            \/ \E o \in Orgs : Read(r, o)
            \/ Commit(r)

Spec == Init /\ [][Next]_isolationVars
=============================================================================
