--------------------------- MODULE MCAdminMembers ---------------------------
(* Small instances of AdminMembers for TLC. *)
EXTENDS AdminMembers

CONSTANTS alice, bob, r1, r2
=============================================================================
