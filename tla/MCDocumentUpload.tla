-------------------------- MODULE MCDocumentUpload --------------------------
(* Small instances of DocumentUpload for TLC. *)
EXTENDS DocumentUpload

CONSTANTS u1, u2, r1, r2, w1, w2, edge, big

\* edge is a file exactly at the ceiling, big is one byte over it.  A client that
\* declares either may store either.
MCSizes == {2, 3}
MCMaxBytes == 2
MCTwoFiles == [f \in {edge, big} |-> IF f = big THEN 3 ELSE 2]
=============================================================================
