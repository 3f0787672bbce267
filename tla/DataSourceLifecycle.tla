------------------------ MODULE DataSourceLifecycle ------------------------
(***************************************************************************)
(* What the upload pipeline promises about one deal document, with no      *)
(* requests, queue, workers or object store in sight: a document is        *)
(* registered at most once, its integrity check settles it at most once,   *)
(* the outcome never changes afterwards, and the audit trail a reviewer    *)
(* reads is exactly the history of the row -- one entry per transition,    *)
(* written in the same step as the transition it reports.                  *)
(*                                                                         *)
(* DocumentUpload is shown to implement this specification.                *)
(***************************************************************************)
EXTENDS Sequences

CONSTANT Documents

VARIABLES state,   \* state[d]: where the document d is in its life
          trail    \* trail[d]: the audit entries written about d, in order

lifecycleVars == <<state, trail>>

\* The outcomes the ingest job can write (models/data_source.py also allows
\* "ocr_needed", which no code path writes).
Settled == {"verified", "quarantined", "mismatch"}

Init == /\ state = [d \in Documents |-> "absent"]
        /\ trail = [d \in Documents |-> <<>>]

Register(d) ==
    /\ state[d] = "absent"
    /\ state' = [state EXCEPT ![d] = "pending"]
    /\ trail' = [trail EXCEPT ![d] = Append(@, "upload_completed")]

Settle(d, outcome) ==
    /\ state[d] = "pending"
    /\ state' = [state EXCEPT ![d] = outcome]
    /\ trail' = [trail EXCEPT ![d] = Append(@, outcome)]

Next == \E d \in Documents :
            \/ Register(d)
            \/ \E outcome \in Settled : Settle(d, outcome)

Spec == Init /\ [][Next]_lifecycleVars
=============================================================================
