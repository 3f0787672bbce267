--------------------------- MODULE RecordedChange ---------------------------
(***************************************************************************)
(* What the admin portal promises about a change that somebody else makes  *)
(* for it: the change comes first and its record in the audit trail second.*)
(* A change may stay without a record, when the request that asked for it  *)
(* fails on the way; a record without a change, or two records of one, may *)
(* not be.                                                                 *)
(***************************************************************************)
CONSTANT Changes   \* the requests that ask for a change

VARIABLES
    effected,      \* the requests whose change was made
    recorded       \* the requests whose change is in the audit trail

vars == <<effected, recorded>>

Init == effected = {} /\ recorded = {}

Effect(r) ==
    /\ r \notin effected
    /\ effected' = effected \cup {r}
    /\ UNCHANGED recorded

Record(r) ==
    /\ r \in effected \ recorded
    /\ recorded' = recorded \cup {r}
    /\ UNCHANGED effected

Next == \E r \in Changes : Effect(r) \/ Record(r)

Spec == Init /\ [][Next]_vars
=============================================================================
