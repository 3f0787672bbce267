-------------------------- MODULE MCJitProvisioning --------------------------
(* Small instances of JitProvisioning for TLC. *)
EXTENDS JitProvisioning, TLC

CONSTANTS alice, bob, acme, beta, r1, r2, r3

\* Alice has memberships in two organisations, Bob shares one of them.
TwoOrgs == {<<alice, acme>>, <<alice, beta>>, <<bob, beta>>}
===============================================================================
