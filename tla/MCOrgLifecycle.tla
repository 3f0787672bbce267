--------------------------- MODULE MCOrgLifecycle ---------------------------
(* A small instance of OrgLifecycle for TLC. *)
EXTENDS OrgLifecycle

CONSTANTS o1, o2, simpero, pa, am, r1, r2, r3
=============================================================================
