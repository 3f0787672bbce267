---------------------------- MODULE MCTenantScope ----------------------------
(* A small instance of TenantScope for TLC. *)
EXTENDS TenantScope, TLC

CONSTANTS platform, acme, beta, r1, r2, b1, b2

\* Only the platform's organisation is named by the specification; requests
\* and backends are interchangeable.
Interchangeable == Permutations(Requests) \cup Permutations(Backends)
                   \cup Permutations(Orgs \ {PlatformOrg})
===============================================================================
