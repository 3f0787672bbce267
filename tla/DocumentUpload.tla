--------------------------- MODULE DocumentUpload ---------------------------
(***************************************************************************)
(* The document upload pipeline: a client asks for a presigned URL         *)
(* (create_presigned_url), PUTs the bytes straight to the object store,    *)
(* and confirms with /complete (complete_upload), which registers a        *)
(* pending data_source row and enqueues an ingest job.  A SAQ worker runs  *)
(* the job (ingest_data_source): it hashes the stored object and settles   *)
(* the row as verified, mismatch or quarantined, with one audit entry.     *)
(*                                                                         *)
(* Two orders in the code make this delicate, and both are kept here.      *)
(*  - /complete enqueues the job BEFORE its transaction commits (get_db    *)
(*    commits after the handler returns), so a worker can look for a row   *)
(*    that is not visible yet, or never will be.                           *)
(*  - The worker reads the row's status, then downloads and hashes, then   *)
(*    updates: two workers with a job for the same row can both see it     *)
(*    pending.  The row lock of the UPDATE and the one-way trigger decide. *)
(*                                                                         *)
(* A file stands for its contents and for their SHA-256 (no collisions).   *)
(* An object key contains the fresh upload id, so objects are indexed by   *)
(* upload.  The client is well behaved in one respect: it re-sends to      *)
(* /complete the deal, filename and hash it sent to /presigned-url, as     *)
(* schemas/uploads.py says it does.  It may PUT any bytes, several times,  *)
(* while its URL is live, and call /complete more than once.               *)
(***************************************************************************)
EXTENDS Naturals, Sequences

CONSTANTS
    Uploads,    \* upload ids, each a fresh uuid4
    Deals,      \* deals of one organisation
    Files,      \* file contents
    Sizes,      \* the sizes files have, or are declared to have
    SizeOf,     \* SizeOf[f]: the number of bytes of f
    MaxBytes,   \* the 10 MB ceiling, declared and measured
    Requests,   \* calls of /complete; each enqueues at most one job
    Workers,    \* coroutines of SAQ workers
    Retries,    \* SAQ's Job.retries (1 unless the enqueue says otherwise)
    MaxFaults,  \* how many failures of the environment a behaviour has
    None        \* no ticket, no object, no fingerprint, no job

Tickets == [deal : Deals, declared : Files]

ASSUME UploadAssumption ==
    /\ SizeOf \in [Files -> Sizes]
    /\ Sizes \subseteq Nat
    /\ MaxBytes \in Nat
    /\ Retries \in Nat \ {0}
    /\ MaxFaults \in Nat
    /\ None \notin Files \cup Uploads \cup Requests \cup Tickets

VARIABLES
    ticket,       \* ticket[u]: what the client declared when u was issued
    live,         \* the uploads whose presigned URL has not expired
    object,       \* object[u]: the bytes stored under u's key
    stored,       \* stored[u]: all the bytes that were ever stored there
    status,       \* status[u]: the committed row's status, "absent" without one
    fingerprint,  \* fingerprint[u]: the row's fingerprint, None for NULL
    audit,        \* audit[u]: the committed human_audit_log entries about u
    call,         \* call[r]: "idle", "open" until its transaction ends, "ended"
    target,       \* target[r]: the upload that call r completes
    job,          \* job[r]: the state in the queue of the job that r enqueued
    attempts,     \* attempts[r]: how often that job was started
    pc,           \* pc[w]: where worker w is in ingest_data_source
    task,         \* task[w]: the call whose job w is running
    outcome,      \* outcome[w]: what w computed, before it is committed
    faults        \* failures so far

clientVars == <<ticket, live, object, stored>>
rowVars    == <<status, fingerprint, audit>>
callVars   == <<call, target>>
queueVars  == <<job, attempts>>
workerVars == <<pc, task, outcome>>
vars == <<clientVars, rowVars, callVars, queueVars, workerVars, faults>>

Terminal == {"verified", "quarantined", "mismatch"}
Outcomes == [status : Terminal, fingerprint : Files \cup {None}]

Init ==
    /\ ticket = [u \in Uploads |-> None]
    /\ live = {}
    /\ object = [u \in Uploads |-> None]
    /\ stored = [u \in Uploads |-> {}]
    /\ status = [u \in Uploads |-> "absent"]
    /\ fingerprint = [u \in Uploads |-> None]
    /\ audit = [u \in Uploads |-> <<>>]
    /\ call = [r \in Requests |-> "idle"]
    /\ target = [r \in Requests |-> None]
    /\ job = [r \in Requests |-> "none"]
    /\ attempts = [r \in Requests |-> 0]
    /\ pc = [w \in Workers |-> "idle"]
    /\ task = [w \in Workers |-> None]
    /\ outcome = [w \in Workers |-> None]
    /\ faults = 0

-----------------------------------------------------------------------------
(* The client, the control plane and the object store *)

\* Seeded fault: the query forgets to exclude mismatch rows.
SeededDedupeKeepsMismatch(u, d, h) ==
    /\ status[u] # "absent"
    /\ ticket[u].deal = d
    /\ h \in {ticket[u].declared, fingerprint[u]}

\* find_dedupe_candidate: a committed row of the deal that declares or measured
\* the hash h and is not a mismatch.
IsDedupeCandidate(u, d, h) ==
    /\ status[u] \notin {"absent", "mismatch"}
    /\ ticket[u].deal = d
    /\ h \in {ticket[u].declared, fingerprint[u]}

\* create_presigned_url: the size guard trusts the declared size n; nothing is
\* written to the database.  A rejected call (422, 409) changes nothing.
Presign(u, d, h, n) ==
    /\ ticket[u] = None
    /\ n <= MaxBytes
    /\ \A v \in Uploads : ~IsDedupeCandidate(v, d, h)
    /\ ticket' = [ticket EXCEPT ![u] = [deal |-> d, declared |-> h]]
    /\ live' = live \cup {u}
    /\ UNCHANGED <<object, stored, rowVars, callVars, queueVars, workerVars, faults>>

\* The client PUTs bytes f with the presigned URL; a later PUT overwrites.
PutObject(u, f) ==
    /\ u \in live
    /\ object' = [object EXCEPT ![u] = f]
    /\ stored' = [stored EXCEPT ![u] = @ \cup {f}]
    /\ UNCHANGED <<ticket, live, rowVars, callVars, queueVars, workerVars, faults>>

\* _PRESIGN_TTL_SECONDS have passed.
ExpireUrl(u) ==
    /\ u \in live
    /\ live' = live \ {u}
    /\ UNCHANGED <<ticket, object, stored, rowVars, callVars, queueVars, workerVars, faults>>

\* complete_upload up to its return: head_object finds the object, the row and
\* the audit entry are added to the session (autoflush is off, so nothing is
\* sent yet), and the job is enqueued.  Without an object the call is a 404.
Complete(r, u) ==
    /\ call[r] = "idle"
    /\ ticket[u] # None
    /\ object[u] # None
    /\ call' = [call EXCEPT ![r] = "open"]
    /\ target' = [target EXCEPT ![r] = u]
    /\ job' = [job EXCEPT ![r] = "queued"]
    /\ UNCHANGED <<attempts, clientVars, rowVars, workerVars, faults>>

\* get_db's session.begin() commits: INSERT of the row and of its audit entry.
CommitCall(r) ==
    /\ call[r] = "open"
    /\ status[target[r]] = "absent"
    /\ status' = [status EXCEPT ![target[r]] = "pending"]
    /\ audit' = [audit EXCEPT ![target[r]] = Append(@, "upload_completed")]
    /\ call' = [call EXCEPT ![r] = "ended"]
    /\ UNCHANGED <<fingerprint, target, clientVars, queueVars, workerVars, faults>>

\* Seeded fault: the audit entry is written in a transaction of its own.
SeededRollbackKeepsAudit(r) ==
    /\ call[r] = "open"
    /\ status[target[r]] # "absent"
    /\ audit' = [audit EXCEPT ![target[r]] = Append(@, "upload_completed")]
    /\ call' = [call EXCEPT ![r] = "ended"]
    /\ UNCHANGED <<status, fingerprint, target, clientVars, queueVars, workerVars, faults>>

\* The transaction rolls back: the primary key is taken by an earlier /complete
\* of the same upload, or the database or the application process fails.  The
\* job stays in the queue.
RollbackCall(r) ==
    /\ call[r] = "open"
    /\ \/ status[target[r]] # "absent" /\ UNCHANGED faults
       \/ faults < MaxFaults /\ faults' = faults + 1
    /\ call' = [call EXCEPT ![r] = "ended"]
    /\ UNCHANGED <<target, clientVars, rowVars, queueVars, workerVars>>

-----------------------------------------------------------------------------
(* The SAQ worker and ingest_data_source *)

\* The upload whose row worker w's job is about.
RowOf(w) == target[task[w]]

\* SAQ starts a queued job.  The queue's order is not used: any queued job may
\* be the next one.
StartJob(w, r) ==
    /\ pc[w] = "idle"
    /\ job[r] = "queued"
    /\ job' = [job EXCEPT ![r] = "active"]
    /\ attempts' = [attempts EXCEPT ![r] = @ + 1]
    /\ pc' = [pc EXCEPT ![w] = "lookup"]
    /\ task' = [task EXCEPT ![w] = r]
    /\ UNCHANGED <<outcome, clientVars, rowVars, callVars, faults>>

\* The worker is free again; whatever it had not committed is rolled back.
Release(w) ==
    /\ pc' = [pc EXCEPT ![w] = "idle"]
    /\ task' = [task EXCEPT ![w] = None]
    /\ outcome' = [outcome EXCEPT ![w] = None]

\* What SAQ does with a job that raised: queue it again while attempts are left.
AfterFailure(r) == IF Retries > attempts[r] THEN "queued" ELSE "failed"

\* The job raises: its transaction rolls back and SAQ decides about a retry.
RaiseJob(w) ==
    /\ Release(w)
    /\ job' = [job EXCEPT ![task[w]] = AfterFailure(task[w])]
    /\ UNCHANGED <<attempts, clientVars, rowVars, callVars>>

\* Seeded fault: a missing row is a silent no-op.
SeededLookupMissingReturns(w) ==
    /\ pc[w] = "lookup"
    /\ status[RowOf(w)] = "absent"
    /\ pc' = [pc EXCEPT ![w] = "report"]
    /\ UNCHANGED <<task, outcome, clientVars, rowVars, callVars, queueVars, faults>>

\* No row is visible: ValueError.
LookupMissing(w) ==
    /\ pc[w] = "lookup"
    /\ status[RowOf(w)] = "absent"
    /\ RaiseJob(w)
    /\ UNCHANGED faults

\* The row has left pending: return without touching it.
LookupSettled(w) ==
    /\ pc[w] = "lookup"
    /\ status[RowOf(w)] \in Terminal
    /\ pc' = [pc EXCEPT ![w] = "report"]
    /\ UNCHANGED <<task, outcome, clientVars, rowVars, callVars, queueVars, faults>>

LookupPending(w) ==
    /\ pc[w] = "lookup"
    /\ status[RowOf(w)] = "pending"
    /\ pc' = [pc EXCEPT ![w] = "hash"]
    /\ UNCHANGED <<task, outcome, clientVars, rowVars, callVars, queueVars, faults>>

\* Seeded fault: the measured size is not checked.
SeededVerdictUnbounded(f, h) ==
    [status |-> IF f = h THEN "verified" ELSE "mismatch", fingerprint |-> f]

\* Seeded fault: a status the table does not know.
SeededVerdictUnknown(f, h) ==
    [status |-> IF f = h THEN "verified" ELSE "rejected", fingerprint |-> f]

\* The verdict on the bytes f against the declared hash h: too large is
\* quarantined without a fingerprint.
Verdict(f, h) ==
    IF SizeOf[f] > MaxBytes
    THEN [status |-> "quarantined", fingerprint |-> None]
    ELSE [status |-> IF f = h THEN "verified" ELSE "mismatch", fingerprint |-> f]

\* stream_and_hash reads the object as it is now.
HashObject(w) ==
    /\ pc[w] = "hash"
    /\ pc' = [pc EXCEPT ![w] = "update"]
    /\ outcome' = [outcome EXCEPT ![w] =
                      Verdict(object[RowOf(w)], ticket[RowOf(w)].declared)]
    /\ UNCHANGED <<task, clientVars, rowVars, callVars, queueVars, faults>>

\* Seeded fault: nobody waits for a row lock.
SeededRowUnlocked(u) == FALSE

\* Seeded fault: the lookup locks the row in a session of its own, so that the
\* UPDATE waits for the job's own lookup.
SeededRowLockedByLookup(u) ==
    \E w \in Workers : pc[w] \in {"hash", "update", "commit"} /\ RowOf(w) = u

\* Another transaction's UPDATE holds the row lock of upload u.
RowLocked(u) == \E w \in Workers : pc[w] = "commit" /\ RowOf(w) = u

\* UPDATE data_source: waits for the row lock, then the BEFORE UPDATE trigger
\* lets it through because the row is pending.  The audit INSERT follows in the
\* same transaction.
UpdateRow(w) ==
    /\ pc[w] = "update"
    /\ ~RowLocked(RowOf(w))
    /\ status[RowOf(w)] = "pending"
    /\ pc' = [pc EXCEPT ![w] = "commit"]
    /\ UNCHANGED <<task, outcome, clientVars, rowVars, callVars, queueVars, faults>>

\* The trigger raises: another worker settled the row since the lookup.
TriggerRejects(w) ==
    /\ pc[w] = "update"
    /\ ~RowLocked(RowOf(w))
    /\ status[RowOf(w)] # "pending"
    /\ RaiseJob(w)
    /\ UNCHANGED faults

\* The job's transaction commits: the outcome and the audit entry together.
CommitIngest(w) ==
    /\ pc[w] = "commit"
    /\ status' = [status EXCEPT ![RowOf(w)] = outcome[w].status]
    /\ fingerprint' = [fingerprint EXCEPT ![RowOf(w)] = outcome[w].fingerprint]
    /\ audit' = [audit EXCEPT ![RowOf(w)] = Append(@, outcome[w].status)]
    /\ pc' = [pc EXCEPT ![w] = "report"]
    /\ UNCHANGED <<task, outcome, clientVars, callVars, queueVars, faults>>

\* SAQ marks the job complete, after the function has returned.
ReportJob(w) ==
    /\ pc[w] = "report"
    /\ Release(w)
    /\ job' = [job EXCEPT ![task[w]] = "complete"]
    /\ UNCHANGED <<attempts, clientVars, rowVars, callVars, faults>>

\* The object store or the database raises, or SAQ's job timeout cancels the
\* job, anywhere before the commit.
IngestFails(w) ==
    /\ pc[w] \in {"lookup", "hash", "update", "commit"}
    /\ faults < MaxFaults
    /\ faults' = faults + 1
    /\ RaiseJob(w)

\* The worker process stops.  On a graceful shutdown SAQ queues the job again;
\* after a crash its sweep treats the job as one that failed.
WorkerStops(w) ==
    /\ pc[w] # "idle"
    /\ faults < MaxFaults
    /\ faults' = faults + 1
    /\ Release(w)
    /\ \E next \in {"queued", AfterFailure(task[w])} :
           job' = [job EXCEPT ![task[w]] = next]
    /\ UNCHANGED <<attempts, clientVars, rowVars, callVars>>

-----------------------------------------------------------------------------
ClientStep ==
    \E u \in Uploads :
        \/ \E d \in Deals, h \in Files, n \in Sizes : Presign(u, d, h, n)
        \/ \E f \in Files : PutObject(u, f)
        \/ ExpireUrl(u)
        \/ \E r \in Requests : Complete(r, u)

CallEnds(r) == CommitCall(r) \/ RollbackCall(r)

\* The steps of a running job that need no fault.
IngestStep(w) ==
    \/ LookupMissing(w) \/ LookupSettled(w) \/ LookupPending(w)
    \/ HashObject(w)
    \/ UpdateRow(w) \/ TriggerRejects(w)
    \/ CommitIngest(w)
    \/ ReportJob(w)

WorkerFault(w) == IngestFails(w) \/ WorkerStops(w)

Next ==
    \/ ClientStep
    \/ \E r \in Requests : CallEnds(r)
    \/ \E w \in Workers :
           \/ \E r \in Requests : StartJob(w, r)
           \/ IngestStep(w)
           \/ WorkerFault(w)

Spec == Init /\ [][Next]_vars

\* What the scheduling justifies: an open transaction ends, an idle worker takes
\* a queued job, and a running job goes on.  Clients owe nothing.
Fairness ==
    /\ \A r \in Requests : WF_vars(CallEnds(r))
    /\ \A r \in Requests : WF_vars(\E w \in Workers : StartJob(w, r))
    /\ \A w \in Workers : WF_vars(IngestStep(w))

FairSpec == Spec /\ Fairness

-----------------------------------------------------------------------------
(* Properties *)

\* Every variable has its type; a row's status is one the CHECK constraint
\* ck_data_source_status allows.
TypeOK ==
    /\ ticket \in [Uploads -> Tickets \cup {None}]
    /\ live \subseteq Uploads
    /\ object \in [Uploads -> Files \cup {None}]
    /\ stored \in [Uploads -> SUBSET Files]
    /\ status \in [Uploads -> Terminal \cup {"absent", "pending"}]
    /\ fingerprint \in [Uploads -> Files \cup {None}]
    /\ audit \in [Uploads -> Seq(Terminal \cup {"upload_completed"})]
    /\ call \in [Requests -> {"idle", "open", "ended"}]
    /\ target \in [Requests -> Uploads \cup {None}]
    /\ job \in [Requests -> {"none", "queued", "active", "complete", "failed"}]
    /\ attempts \in [Requests -> Nat]
    /\ pc \in [Workers -> {"idle", "lookup", "hash", "update", "commit", "report"}]
    /\ task \in [Workers -> Requests \cup {None}]
    /\ outcome \in [Workers -> Outcomes \cup {None}]
    /\ faults \in 0..MaxFaults

\* The audit trail of an upload is exactly the history of its row: one entry for
\* its registration and one for its verdict, whatever was called twice, run
\* twice, rolled back or crashed in between (complete_upload and
\* ingest_data_source write the entry in the transaction of the change).
AuditTrailMatchesRow ==
    \A u \in Uploads :
        audit[u] = CASE status[u] = "absent"  -> <<>>
                     [] status[u] = "pending" -> <<"upload_completed">>
                     [] OTHER -> <<"upload_completed", status[u]>>

\* A verdict says what the stored bytes were: verified means the declared bytes,
\* within the ceiling, were in the store; mismatch means other bytes within the
\* ceiling were; quarantined means only that oversized bytes were, and has no
\* fingerprint (ingest_data_source, stream_and_hash).
VerdictIsSound ==
    \A u \in Uploads :
        /\ status[u] \in {"verified", "mismatch"} =>
              /\ fingerprint[u] \in stored[u]
              /\ SizeOf[fingerprint[u]] <= MaxBytes
              /\ (status[u] = "verified") <=> (fingerprint[u] = ticket[u].declared)
        /\ status[u] = "quarantined" => \E f \in stored[u] : SizeOf[f] > MaxBytes
        /\ status[u] \in {"absent", "pending", "quarantined"} => fingerprint[u] = None

\* A job that SAQ reports complete has left a settled row behind, even if it
\* took the early return or was redelivered after a crash.
CompleteJobSettledRow ==
    \A r \in Requests : job[r] = "complete" => status[target[r]] \in Terminal

\* The fingerprint arm of the dedupe query never decides: a row that blocks a
\* new upload of a file declared that file.  Bytes that arrived under another
\* file's declaration do not block a proper upload of them, and neither does a
\* mismatch (find_dedupe_candidate).
DedupeIsByDeclaredHash ==
    \A u \in Uploads, d \in Deals, h \in Files :
        IsDedupeCandidate(u, d, h) => ticket[u] = [deal |-> d, declared |-> h]

\* The pipeline implements the life of a document it promises.
Lifecycle == INSTANCE DataSourceLifecycle
                 WITH Documents <- Uploads, state <- status, trail <- audit
ImplementsLifecycle == Lifecycle!Spec

\* Every job comes to an end: complete or failed.
JobsEnd == \A r \in Requests : job[r] = "queued" ~> job[r] \in {"complete", "failed"}

\* A row is left pending only when every job enqueued for it has failed.
PendingUnlessJobsFailed ==
    \A u \in Uploads :
        status[u] = "pending" ~>
            \/ status[u] \in Terminal
            \/ \A r \in Requests : target[r] = u => job[r] = "failed"

\* What ingest_data_source.py:50-54 and the implementation record count on: a
\* job that runs before /complete has committed is retried by SAQ, so that the
\* row is settled in the end.
EarlyJobIsRetried ==
    \A u \in Uploads : status[u] = "pending" ~> status[u] \in Terminal

\* What the comment at uploads.py:79-81 says of the dedupe check: a duplicate
\* started before the first upload's ingest job has finished is still caught,
\* so no deal gets two live rows for one file.
DuplicateIsCaught ==
    \A u, v \in Uploads :
        /\ status[u] \notin {"absent", "mismatch"}
        /\ status[v] \notin {"absent", "mismatch"}
        /\ ticket[u] = ticket[v]
        => u = v
=============================================================================
