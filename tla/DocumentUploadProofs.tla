------------------------ MODULE DocumentUploadProofs ------------------------
(***************************************************************************)
(* Proofs that DocumentUpload keeps its safety properties for every number *)
(* of uploads, calls and workers, every file size, retry and fault bound,  *)
(* and that it implements DataSourceLifecycle.                             *)
(***************************************************************************)
EXTENDS DocumentUpload, SequenceTheorems, TLAPS

(***************************************************************************)
(* The inductive invariant.  The properties speak of committed rows; what  *)
(* makes them inductive is what an open call and a running job may rely on *)
(* between the moment they looked and the moment they write.               *)
(***************************************************************************)

\* A call that passed the head_object check completes an issued upload whose
\* object is there, and only such calls have jobs.
CallInv ==
    \A r \in Requests :
        /\ call[r] # "idle" => /\ target[r] \in Uploads
                               /\ ticket[target[r]] # None
                               /\ object[target[r]] # None
        /\ job[r] # "none" => call[r] # "idle"

\* The last object stored is one of those that were stored, and a row belongs to
\* an issued upload.
RowInv ==
    \A u \in Uploads :
        /\ object[u] # None => object[u] \in stored[u]
        /\ status[u] # "absent" => ticket[u] # None

\* What the outcome o claims about upload u is true of what was stored.
Justified(o, u) ==
    /\ o \in Outcomes
    /\ o.status \in {"verified", "mismatch"} =>
          /\ o.fingerprint \in stored[u]
          /\ SizeOf[o.fingerprint] <= MaxBytes
          /\ (o.status = "verified") <=> (o.fingerprint = ticket[u].declared)
    /\ o.status = "quarantined" =>
          /\ o.fingerprint = None
          /\ \E f \in stored[u] : SizeOf[f] > MaxBytes

\* A running job stems from a call; past its lookup the row exists; with the row
\* lock in hand the row is still pending; when it reports the row is settled.
WorkerInv ==
    \A w \in Workers :
        /\ pc[w] # "idle" => task[w] \in Requests /\ call[task[w]] # "idle"
        /\ pc[w] \in {"hash", "update"} => status[RowOf(w)] # "absent"
        /\ pc[w] \in {"update", "commit"} => Justified(outcome[w], RowOf(w))
        /\ pc[w] = "commit" => status[RowOf(w)] = "pending"
        /\ pc[w] = "report" => status[RowOf(w)] \in Terminal

\* At most one worker holds the lock of a row.
LockInv ==
    \A w, x \in Workers :
        pc[w] = "commit" /\ pc[x] = "commit" /\ RowOf(w) = RowOf(x) => w = x

\* No phantom row: a registered upload has an object (the head_object check of
\* complete_upload exists for this).
NoPhantomRow == \A u \in Uploads : status[u] # "absent" => object[u] # None

IInv ==
    /\ TypeOK
    /\ CallInv
    /\ RowInv
    /\ WorkerInv
    /\ LockInv
    /\ AuditTrailMatchesRow
    /\ VerdictIsSound
    /\ NoPhantomRow
    /\ CompleteJobSettledRow

-----------------------------------------------------------------------------
\* The two-entry trail: what Append makes of a one-entry one.
LEMMA AppendToSingleton ==
  ASSUME NEW S, NEW a \in S, NEW b \in S
  PROVE  Append(<<a>>, b) = <<a, b>>
<1>1. <<a>> \in Seq(S) /\ Len(<<a>>) = 1 /\ <<a>>[1] = a
  OBVIOUS
<1>2. <<a, b>> \in Seq(S) /\ Len(<<a, b>>) = 2 /\ <<a, b>>[1] = a /\ <<a, b>>[2] = b
  OBVIOUS
<1>3. /\ Append(<<a>>, b) \in Seq(S) /\ Len(Append(<<a>>, b)) = 2
      /\ Append(<<a>>, b)[1] = a /\ Append(<<a>>, b)[2] = b
  BY <1>1
<1>4. \A i \in 1 .. Len(<<a, b>>) : Append(<<a>>, b)[i] = <<a, b>>[i]
  BY <1>2, <1>3
<1> QED
  BY <1>2, <1>3, <1>4, SeqEqual

-----------------------------------------------------------------------------
(* Type correctness *)

LEMMA InitType == Init => TypeOK
  BY UploadAssumption DEF Init, TypeOK

\* What a running job refers to, given the types and the two invariants about it.
LEMMA RunningJob ==
  ASSUME TypeOK, CallInv, WorkerInv, NEW w \in Workers, pc[w] # "idle"
  PROVE  /\ task[w] \in Requests
         /\ RowOf(w) \in Uploads
         /\ ticket[RowOf(w)] \in Tickets
         /\ object[RowOf(w)] \in Files
  BY DEF TypeOK, CallInv, WorkerInv, RowOf

\* A verdict is an outcome, and it is justified by the bytes it is about.
LEMMA VerdictJustified ==
  ASSUME NEW u \in Uploads, NEW f \in Files, f \in stored[u],
         ticket[u] \in Tickets
  PROVE  Justified(Verdict(f, ticket[u].declared), u)
  BY UploadAssumption DEF Verdict, Justified, Outcomes, Terminal, Tickets

LEMMA NextType ==
  ASSUME TypeOK, CallInv, RowInv, WorkerInv, [Next]_vars
  PROVE  TypeOK'
<1> USE UploadAssumption
<1>1. ASSUME NEW u \in Uploads, NEW d \in Deals, NEW h \in Files, NEW n \in Sizes,
             Presign(u, d, h, n)
      PROVE  TypeOK'
  BY <1>1 DEF TypeOK, Presign, Tickets, rowVars, callVars, queueVars, workerVars
<1>2. ASSUME NEW u \in Uploads, NEW f \in Files, PutObject(u, f)
      PROVE  TypeOK'
  BY <1>2 DEF TypeOK, PutObject, rowVars, callVars, queueVars, workerVars
<1>3. ASSUME NEW u \in Uploads, ExpireUrl(u)
      PROVE  TypeOK'
  BY <1>3 DEF TypeOK, ExpireUrl, rowVars, callVars, queueVars, workerVars
<1>4. ASSUME NEW r \in Requests, NEW u \in Uploads, Complete(r, u)
      PROVE  TypeOK'
  BY <1>4 DEF TypeOK, Complete, clientVars, rowVars, workerVars
<1>5. ASSUME NEW r \in Requests, CommitCall(r)
      PROVE  TypeOK'
  BY <1>5 DEF TypeOK, CallInv, CommitCall, clientVars, queueVars, workerVars
<1>6. ASSUME NEW r \in Requests, RollbackCall(r)
      PROVE  TypeOK'
  BY <1>6 DEF TypeOK, RollbackCall, clientVars, rowVars, queueVars, workerVars
<1>7. ASSUME NEW w \in Workers, NEW r \in Requests, StartJob(w, r)
      PROVE  TypeOK'
  BY <1>7 DEF TypeOK, StartJob, clientVars, rowVars, callVars
<1>8. ASSUME NEW w \in Workers, pc[w] # "idle", RaiseJob(w), faults' \in 0..MaxFaults
      PROVE  TypeOK'
  BY <1>8, RunningJob DEF TypeOK, RaiseJob, Release, AfterFailure, clientVars,
                          rowVars, callVars
<1>9. ASSUME NEW w \in Workers, IngestStep(w)
      PROVE  TypeOK'
  <2>1. CASE LookupMissing(w) \/ TriggerRejects(w)
    BY <1>8, <2>1 DEF LookupMissing, TriggerRejects, TypeOK
  <2>2. CASE LookupSettled(w) \/ LookupPending(w) \/ UpdateRow(w)
    BY <2>2 DEF LookupSettled, LookupPending, UpdateRow, TypeOK, clientVars, rowVars,
                callVars, queueVars
  <2>3. CASE HashObject(w)
    <3> DEFINE u == RowOf(w)
    <3>1. /\ u \in Uploads
          /\ ticket[u] \in Tickets
          /\ object[u] \in Files
          /\ object[u] \in stored[u]
      BY <2>3, RunningJob DEF HashObject, RowInv
    <3>2. Verdict(object[u], ticket[u].declared) \in Outcomes
      BY <3>1, VerdictJustified DEF Justified
    <3> QED
      BY <2>3, <3>2 DEF HashObject, TypeOK, clientVars, rowVars, callVars, queueVars
  <2>4. CASE CommitIngest(w)
    <3>1. /\ RowOf(w) \in Uploads
          /\ outcome[w] \in Outcomes
      BY <2>4, RunningJob DEF CommitIngest, WorkerInv, Justified
    <3>2. /\ outcome[w].status \in Terminal
          /\ outcome[w].fingerprint \in Files \cup {None}
      BY <3>1 DEF Outcomes
    <3>3. audit' \in [Uploads -> Seq(Terminal \cup {"upload_completed"})]
      BY <2>4, <3>1, <3>2 DEF CommitIngest, TypeOK
    <3> QED
      BY <2>4, <3>1, <3>2, <3>3 DEF CommitIngest, TypeOK, clientVars, callVars, queueVars
  <2>5. CASE ReportJob(w)
    BY <2>5, RunningJob DEF ReportJob, Release, TypeOK, clientVars, rowVars, callVars
  <2> QED
    BY <1>9, <2>1, <2>2, <2>3, <2>4, <2>5 DEF IngestStep
<1>10. ASSUME NEW w \in Workers, IngestFails(w)
       PROVE  TypeOK'
  BY <1>8, <1>10 DEF IngestFails, TypeOK
<1>11. ASSUME NEW w \in Workers, WorkerStops(w)
       PROVE  TypeOK'
  BY <1>11, RunningJob DEF WorkerStops, Release, AfterFailure, TypeOK, clientVars,
                           rowVars, callVars
<1>12. CASE UNCHANGED vars
  BY <1>12 DEF vars, TypeOK, clientVars, rowVars, callVars, queueVars, workerVars
<1> QED
  BY <1>1, <1>2, <1>3, <1>4, <1>5, <1>6, <1>7, <1>9, <1>10, <1>11, <1>12
  DEF Next, ClientStep, CallEnds, WorkerFault

-----------------------------------------------------------------------------
(* The inductive invariant is preserved, one action at a time.  Each lemma    *)
(* takes TypeOK' for granted: NextType provides it.                           *)

\* A client's step adds a ticket for a fresh upload, an object, or nothing; what
\* was stored stays recorded.
LEMMA ClientStepInv ==
  ASSUME IInv, TypeOK', ClientStep
  PROVE  IInv'
<1> USE DEF IInv
<1>1. PICK u \in Uploads :
        \/ \E d \in Deals, h \in Files, n \in Sizes : Presign(u, d, h, n)
        \/ \E f \in Files : PutObject(u, f)
        \/ ExpireUrl(u)
        \/ \E r \in Requests : Complete(r, u)
  BY DEF ClientStep
<1>2. CASE \E d \in Deals, h \in Files, n \in Sizes : Presign(u, d, h, n)
  <2>1. PICK d \in Deals, h \in Files, n \in Sizes : Presign(u, d, h, n)
    BY <1>2
  <2>2. /\ UNCHANGED <<object, stored, rowVars, callVars, queueVars, workerVars>>
        /\ ticket[u] = None
        /\ \A v \in Uploads : v # u => ticket'[v] = ticket[v]
        /\ ticket'[u] # None
    BY <2>1, UploadAssumption DEF Presign, TypeOK, Tickets
  <2>3. CallInv' /\ RowInv'
    BY <2>2 DEF CallInv, RowInv, TypeOK, rowVars, callVars, queueVars
  <2>4. VerdictIsSound'
    BY <2>2 DEF VerdictIsSound, RowInv, rowVars, Terminal
  <2>5. WorkerInv' /\ LockInv'
    BY <2>2 DEF WorkerInv, LockInv, Justified, RowOf, RowInv, CallInv, rowVars, callVars,
                workerVars
  <2> QED
    BY <2>2, <2>3, <2>4, <2>5
    DEF AuditTrailMatchesRow, NoPhantomRow, CompleteJobSettledRow, rowVars, callVars,
        queueVars
<1>3. CASE \E f \in Files : PutObject(u, f)
  <2>1. PICK f \in Files : PutObject(u, f)
    BY <1>3
  <2>2. /\ UNCHANGED <<ticket, rowVars, callVars, queueVars, workerVars>>
        /\ \A v \in Uploads : /\ stored[v] \subseteq stored'[v]
                              /\ v # u => object'[v] = object[v]
        /\ object'[u] = f
        /\ f \in stored'[u]
        /\ f # None
    BY <2>1, UploadAssumption DEF PutObject, TypeOK
  <2>3. CallInv' /\ RowInv' /\ NoPhantomRow'
    BY <2>2 DEF CallInv, RowInv, NoPhantomRow, rowVars, callVars, queueVars
  <2>4. VerdictIsSound'
    BY <2>2 DEF VerdictIsSound, rowVars
  <2>5. WorkerInv' /\ LockInv'
    BY <2>2 DEF WorkerInv, LockInv, Justified, RowOf, CallInv, rowVars, callVars, workerVars
  <2> QED
    BY <2>2, <2>3, <2>4, <2>5
    DEF AuditTrailMatchesRow, CompleteJobSettledRow, rowVars, callVars, queueVars
<1>4. CASE ExpireUrl(u)
  BY <1>4 DEF ExpireUrl, CallInv, RowInv, NoPhantomRow, VerdictIsSound, WorkerInv, LockInv,
      Justified, RowOf, AuditTrailMatchesRow, CompleteJobSettledRow, rowVars, callVars,
      queueVars, workerVars
<1>5. CASE \E r \in Requests : Complete(r, u)
  <2>1. PICK r \in Requests : Complete(r, u)
    BY <1>5
  <2>2. /\ UNCHANGED <<clientVars, rowVars, workerVars>>
        /\ call[r] = "idle"
        /\ \A q \in Requests : q # r => /\ call'[q] = call[q]
                                        /\ target'[q] = target[q]
                                        /\ job'[q] = job[q]
        /\ call'[r] = "open" /\ target'[r] = u /\ job'[r] = "queued"
        /\ ticket[u] # None /\ object[u] # None
    BY <2>1 DEF Complete, TypeOK
  <2>3. CallInv'
    BY <2>2 DEF CallInv, clientVars
  <2>4. \A w \in Workers : pc[w] # "idle" => task[w] # r /\ RowOf(w)' = RowOf(w)
    BY <2>2 DEF WorkerInv, RowOf, workerVars
  <2>5. WorkerInv'
    BY <2>2, <2>4 DEF WorkerInv, Justified, clientVars, rowVars, workerVars
  <2>6. LockInv'
    BY <2>2, <2>4 DEF LockInv, workerVars
  <2>7. CompleteJobSettledRow'
    BY <2>2 DEF CompleteJobSettledRow, rowVars
  <2> QED
    BY <2>2, <2>3, <2>5, <2>6, <2>7
    DEF AuditTrailMatchesRow, VerdictIsSound, NoPhantomRow, RowInv, clientVars, rowVars
<1> QED
  BY <1>1, <1>2, <1>3, <1>4, <1>5

\* A call's transaction ends: a row appears where there was none, or nothing does.
LEMMA CallEndsInv ==
  ASSUME IInv, TypeOK', NEW r \in Requests, CallEnds(r)
  PROVE  IInv'
<1> USE DEF IInv
<1>1. CASE CommitCall(r)
  <2> DEFINE u == target[r]
  <2>1. /\ UNCHANGED <<fingerprint, target, clientVars, queueVars, workerVars>>
        /\ u \in Uploads /\ ticket[u] # None /\ object[u] # None
        /\ status[u] = "absent" /\ status'[u] = "pending"
        /\ audit'[u] = Append(audit[u], "upload_completed")
        /\ \A v \in Uploads : v # u => status'[v] = status[v] /\ audit'[v] = audit[v]
        /\ call'[r] = "ended"
        /\ \A q \in Requests : q # r => call'[q] = call[q]
    BY <1>1 DEF CommitCall, TypeOK, CallInv
  <2>2. CallInv' /\ RowInv' /\ NoPhantomRow'
    BY <2>1 DEF CallInv, RowInv, NoPhantomRow, clientVars, queueVars
  <2>3. AuditTrailMatchesRow'
    <3>1. audit[u] = <<>>
      BY <2>1 DEF AuditTrailMatchesRow
    <3>2. audit'[u] = <<"upload_completed">>
      BY <2>1, <3>1
    <3> QED
      BY <2>1, <3>2 DEF AuditTrailMatchesRow
  <2>4. VerdictIsSound'
    BY <2>1 DEF VerdictIsSound, clientVars
  <2>5. \A w \in Workers : RowOf(w)' = RowOf(w)
    BY <2>1 DEF RowOf, workerVars
  <2>6. \A w \in Workers : pc[w] # "idle" => RowOf(w) \in Uploads
    BY RunningJob
  <2>7. WorkerInv'
    BY <2>1, <2>5, <2>6 DEF WorkerInv, Justified, Terminal, clientVars, workerVars
  <2>8. LockInv'
    BY <2>1, <2>5 DEF LockInv, workerVars
  <2>9. CompleteJobSettledRow'
    BY <2>1 DEF CompleteJobSettledRow, CallInv, Terminal, queueVars
  <2> QED
    BY <2>2, <2>3, <2>4, <2>7, <2>8, <2>9
<1>2. CASE RollbackCall(r)
  <2>1. /\ UNCHANGED <<target, clientVars, rowVars, queueVars, workerVars>>
        /\ call[r] = "open" /\ call'[r] = "ended"
        /\ \A q \in Requests : q # r => call'[q] = call[q]
    BY <1>2 DEF RollbackCall, TypeOK
  <2>2. CallInv'
    BY <2>1 DEF CallInv, clientVars, queueVars
  <2>3. WorkerInv'
    BY <2>1 DEF WorkerInv, Justified, RowOf, clientVars, rowVars, workerVars
  <2> QED
    BY <2>1, <2>2, <2>3
    DEF RowInv, LockInv, RowOf, AuditTrailMatchesRow, VerdictIsSound, NoPhantomRow,
        CompleteJobSettledRow, clientVars, rowVars, queueVars, workerVars
<1> QED
  BY <1>1, <1>2 DEF CallEnds

\* A step of worker w that touches no row, no call and no object preserves the
\* invariant if w's new position is justified and the queue only reports jobs
\* complete whose row is settled.
LEMMA WorkerOnlyStep ==
  ASSUME IInv, TypeOK', NEW w \in Workers,
         UNCHANGED <<clientVars, rowVars, callVars>>,
         \A x \in Workers \ {w} :
             pc'[x] = pc[x] /\ task'[x] = task[x] /\ outcome'[x] = outcome[x],
         pc'[w] # "idle" => task'[w] \in Requests /\ call[task'[w]] # "idle",
         pc'[w] \in {"hash", "update"} => status[RowOf(w)'] # "absent",
         pc'[w] \in {"update", "commit"} => Justified(outcome'[w], RowOf(w)'),
         pc'[w] = "commit" =>
             status[RowOf(w)'] = "pending" /\ (pc[w] = "commit" \/ ~RowLocked(RowOf(w)')),
         pc[w] = "commit" /\ pc'[w] = "commit" => RowOf(w)' = RowOf(w),
         pc'[w] = "report" => status[RowOf(w)'] \in Terminal,
         \A q \in Requests : /\ job'[q] # "none" => call[q] # "idle"
                             /\ job'[q] = "complete" => status[target[q]] \in Terminal
  PROVE  IInv'
<1> USE DEF IInv
<1>1. \A x \in Workers \ {w} : RowOf(x)' = RowOf(x)
  BY DEF RowOf, callVars
<1>2. CallInv' /\ RowInv'
  BY DEF CallInv, RowInv, clientVars, rowVars, callVars
<1>3. Justified(outcome'[w], RowOf(w)') => Justified(outcome[w], RowOf(w))'
  BY DEF Justified, clientVars
<1>4. \A x \in Workers \ {w} :
          Justified(outcome[x], RowOf(x)) => Justified(outcome[x], RowOf(x))'
  BY <1>1 DEF Justified, clientVars
<1>5. WorkerInv'
  BY <1>1, <1>3, <1>4 DEF WorkerInv, rowVars, callVars
<1>6. LockInv'
  BY <1>1 DEF LockInv, RowLocked
<1> QED
  BY <1>2, <1>5, <1>6
  DEF AuditTrailMatchesRow, VerdictIsSound, NoPhantomRow, CompleteJobSettledRow, clientVars,
      rowVars, callVars

\* A job that raises, or whose worker stops: the worker is idle, the job queued or
\* failed.
LEMMA ReleaseInv ==
  ASSUME IInv, TypeOK', NEW w \in Workers, pc[w] # "idle", Release(w),
         NEW next \in {"queued", "failed"},
         job' = [job EXCEPT ![task[w]] = next],
         UNCHANGED <<attempts, clientVars, rowVars, callVars>>
  PROVE  IInv'
<1> USE DEF IInv
<1>1. task[w] \in Requests /\ call[task[w]] # "idle"
  BY DEF WorkerInv
<1>2. pc'[w] = "idle"
  BY DEF Release, TypeOK
<1>3. /\ job'[task[w]] \in {"queued", "failed"}
      /\ \A q \in Requests : q # task[w] => job'[q] = job[q]
  BY <1>1 DEF TypeOK
<1>4. \A x \in Workers \ {w} :
          pc'[x] = pc[x] /\ task'[x] = task[x] /\ outcome'[x] = outcome[x]
  BY DEF Release, TypeOK
<1>5. \A q \in Requests : /\ job'[q] # "none" => call[q] # "idle"
                          /\ job'[q] = "complete" => status[target[q]] \in Terminal
  BY <1>1, <1>3 DEF CallInv, CompleteJobSettledRow
<1> QED
  BY <1>2, <1>4, <1>5, WorkerOnlyStep

LEMMA StartJobInv ==
  ASSUME IInv, TypeOK', NEW w \in Workers, NEW r \in Requests, StartJob(w, r)
  PROVE  IInv'
<1> USE DEF IInv
<1>1. /\ pc'[w] = "lookup" /\ task'[w] = r
      /\ call[r] # "idle"
  BY DEF StartJob, TypeOK, CallInv
<1>2. \A x \in Workers \ {w} :
          pc'[x] = pc[x] /\ task'[x] = task[x] /\ outcome'[x] = outcome[x]
  BY DEF StartJob, TypeOK
<1>3. \A q \in Requests : /\ job'[q] # "none" => call[q] # "idle"
                          /\ job'[q] = "complete" => status[target[q]] \in Terminal
  BY DEF StartJob, TypeOK, CallInv, CompleteJobSettledRow
<1>4. UNCHANGED <<clientVars, rowVars, callVars>>
  BY DEF StartJob
<1> QED
  BY <1>1, <1>2, <1>3, <1>4, WorkerOnlyStep

\* The one step that settles a row.
LEMMA CommitIngestInv ==
  ASSUME IInv, TypeOK', NEW w \in Workers, CommitIngest(w)
  PROVE  IInv'
<1> USE DEF IInv
<1> DEFINE u == RowOf(w)
           o == outcome[w]
<1>1. /\ u \in Uploads /\ ticket[u] # None
      /\ pc[w] = "commit"
      /\ status[u] = "pending"
      /\ Justified(o, u)
  BY RunningJob, UploadAssumption DEF CommitIngest, WorkerInv, CallInv, RowOf
<1>2. o.status \in Terminal /\ o.fingerprint \in Files \cup {None}
  BY <1>1 DEF Justified, Outcomes
<1>3. /\ status'[u] = o.status /\ fingerprint'[u] = o.fingerprint
      /\ audit'[u] = Append(audit[u], o.status)
      /\ \A v \in Uploads : v # u => /\ status'[v] = status[v]
                                     /\ fingerprint'[v] = fingerprint[v]
                                     /\ audit'[v] = audit[v]
      /\ pc'[w] = "report"
      /\ \A x \in Workers : x # w => pc'[x] = pc[x]
      /\ UNCHANGED <<task, outcome, clientVars, callVars, queueVars>>
  BY <1>1 DEF CommitIngest, TypeOK
<1>4. CallInv' /\ RowInv' /\ NoPhantomRow'
  BY <1>1, <1>2, <1>3 DEF CallInv, RowInv, NoPhantomRow, Terminal, clientVars, callVars, queueVars
<1>5. \A x \in Workers : RowOf(x)' = RowOf(x)
  BY <1>3 DEF RowOf, callVars
<1>6. \A x \in Workers : pc[x] # "idle" => RowOf(x) \in Uploads
  BY RunningJob
<1>7. \A x \in Workers : x # w /\ pc[x] = "commit" => RowOf(x) # u
  BY <1>1 DEF LockInv
<1>8. WorkerInv'
  <2> SUFFICES ASSUME NEW x \in Workers
               PROVE  /\ (pc[x] # "idle" => task[x] \in Requests /\ call[task[x]] # "idle")'
                      /\ (pc[x] \in {"hash", "update"} => status[RowOf(x)] # "absent")'
                      /\ (pc[x] \in {"update", "commit"} => Justified(outcome[x], RowOf(x)))'
                      /\ (pc[x] = "commit" => status[RowOf(x)] = "pending")'
                      /\ (pc[x] = "report" => status[RowOf(x)] \in Terminal)'
    BY DEF WorkerInv
  <2>1. CASE x = w
    BY <2>1, <1>1, <1>2, <1>3, <1>5 DEF WorkerInv, callVars
  <2>2. CASE x # w
    <3>1. pc'[x] # "idle" => RowOf(x) \in Uploads
      BY <2>2, <1>3, <1>6
    <3>2. pc[x] # "idle" /\ status[RowOf(x)] # "pending" =>
              status'[RowOf(x)'] = status[RowOf(x)]
      BY <1>1, <1>3, <1>5, <1>6
    <3>3. Justified(outcome[x], RowOf(x)) => Justified(outcome[x], RowOf(x))'
      BY <1>3, <1>5 DEF Justified, clientVars
    <3> QED
      BY <2>2, <1>1, <1>2, <1>3, <1>5, <1>7, <3>1, <3>2, <3>3 DEF WorkerInv, Terminal, callVars
  <2> QED
    BY <2>1, <2>2
<1>9. LockInv'
  BY <1>3, <1>5 DEF LockInv
<1>10. AuditTrailMatchesRow'
  <2>1. audit[u] = <<"upload_completed">>
    BY <1>1 DEF AuditTrailMatchesRow
  <2>2. audit'[u] = <<"upload_completed", status'[u]>>
    <3> DEFINE Entries == Terminal \cup {"upload_completed"}
    <3>0. o.status \in Entries /\ "upload_completed" \in Entries
      BY <1>2
    <3> HIDE DEF Entries
    <3>1. Append(<<"upload_completed">>, o.status) = <<"upload_completed", o.status>>
      BY <3>0, AppendToSingleton
    <3> QED
      BY <1>3, <2>1, <3>1
  <2>3. status'[u] # "absent" /\ status'[u] # "pending"
    BY <1>2, <1>3 DEF Terminal
  <2> SUFFICES ASSUME NEW v \in Uploads
               PROVE  audit'[v] = CASE status'[v] = "absent"  -> <<>>
                                    [] status'[v] = "pending" -> <<"upload_completed">>
                                    [] OTHER -> <<"upload_completed", status'[v]>>
    BY DEF AuditTrailMatchesRow
  <2>5. CASE v = u
    BY <2>2, <2>3, <2>5
  <2>6. CASE v # u
    <3>1. audit'[v] = audit[v] /\ status'[v] = status[v]
      BY <2>6, <1>3
    <3> QED
      BY <3>1 DEF AuditTrailMatchesRow
  <2> QED
    BY <2>5, <2>6
<1>11. VerdictIsSound'
  BY <1>1, <1>2, <1>3 DEF VerdictIsSound, Justified, Terminal, clientVars
<1>12. CompleteJobSettledRow'
  BY <1>1, <1>2, <1>3 DEF CompleteJobSettledRow, CallInv, Terminal, callVars, queueVars, TypeOK
<1> QED
  BY <1>4, <1>8, <1>9, <1>10, <1>11, <1>12

LEMMA IngestStepInv ==
  ASSUME IInv, TypeOK', NEW w \in Workers, IngestStep(w)
  PROVE  IInv'
<1> USE DEF IInv
<1> DEFINE Others == \A x \in Workers \ {w} :
                         pc'[x] = pc[x] /\ task'[x] = task[x] /\ outcome'[x] = outcome[x]
<1>1. ASSUME pc[w] # "idle", RaiseJob(w)
      PROVE  IInv'
  BY <1>1, ReleaseInv DEF RaiseJob, AfterFailure
<1>2. CASE LookupMissing(w) \/ TriggerRejects(w)
  BY <1>1, <1>2 DEF LookupMissing, TriggerRejects
<1>3. CASE LookupSettled(w) \/ LookupPending(w) \/ UpdateRow(w)
  <2>1. /\ UNCHANGED <<task, outcome, clientVars, rowVars, callVars, queueVars>>
        /\ pc[w] # "idle"
        /\ RowOf(w)' = RowOf(w)
        /\ Others
    BY <1>3 DEF LookupSettled, LookupPending, UpdateRow, RowOf, callVars, TypeOK
  <2>2. \A q \in Requests : /\ job'[q] # "none" => call[q] # "idle"
                            /\ job'[q] = "complete" => status[target[q]] \in Terminal
    BY <2>1 DEF CallInv, CompleteJobSettledRow, queueVars
  <2>3. /\ task'[w] \in Requests /\ call[task'[w]] # "idle"
    BY <2>1 DEF WorkerInv
  <2>4. CASE LookupSettled(w)
    <3>1. pc'[w] = "report" /\ status[RowOf(w)'] \in Terminal
      BY <2>1, <2>4 DEF LookupSettled, TypeOK
    <3> QED
      BY <2>1, <2>2, <2>3, <3>1, WorkerOnlyStep
  <2>5. CASE LookupPending(w)
    <3>1. pc'[w] = "hash" /\ status[RowOf(w)'] # "absent"
      BY <2>1, <2>5 DEF LookupPending, TypeOK
    <3> QED
      BY <2>1, <2>2, <2>3, <3>1, WorkerOnlyStep
  <2>6. CASE UpdateRow(w)
    <3>1. /\ pc'[w] = "commit" /\ pc[w] = "update"
          /\ status[RowOf(w)'] = "pending"
          /\ ~RowLocked(RowOf(w)')
          /\ Justified(outcome'[w], RowOf(w)')
      BY <2>1, <2>6 DEF UpdateRow, TypeOK, WorkerInv
    <3> QED
      BY <2>1, <2>2, <2>3, <3>1, WorkerOnlyStep
  <2> QED
    BY <1>3, <2>4, <2>5, <2>6
<1>4. CASE HashObject(w)
  <2> DEFINE u == RowOf(w)
  <2>1. /\ UNCHANGED <<task, clientVars, rowVars, callVars, queueVars>>
        /\ pc[w] = "hash" /\ pc'[w] = "update"
        /\ outcome'[w] = Verdict(object[u], ticket[u].declared)
        /\ RowOf(w)' = u
        /\ Others
    BY <1>4 DEF HashObject, RowOf, callVars, TypeOK
  <2>2. /\ u \in Uploads /\ ticket[u] \in Tickets
        /\ object[u] \in Files /\ object[u] \in stored[u]
        /\ status[u] # "absent"
        /\ task[w] \in Requests /\ call[task[w]] # "idle"
    BY <2>1, RunningJob, UploadAssumption DEF RowInv, WorkerInv
  <2>3. Justified(outcome'[w], RowOf(w)')
    BY <2>1, <2>2, VerdictJustified
  <2>4. \A q \in Requests : /\ job'[q] # "none" => call[q] # "idle"
                            /\ job'[q] = "complete" => status[target[q]] \in Terminal
    BY <2>1 DEF CallInv, CompleteJobSettledRow, queueVars
  <2> QED
    BY <2>1, <2>2, <2>3, <2>4, WorkerOnlyStep
<1>5. CASE CommitIngest(w)
  BY <1>5, CommitIngestInv
<1>6. CASE ReportJob(w)
  <2>1. /\ UNCHANGED <<clientVars, rowVars, callVars>>
        /\ pc[w] = "report" /\ pc'[w] = "idle"
        /\ Others
        /\ task[w] \in Requests
        /\ job' = [job EXCEPT ![task[w]] = "complete"]
    BY <1>6, RunningJob DEF ReportJob, Release, TypeOK
  <2>2. \A q \in Requests : /\ job'[q] # "none" => call[q] # "idle"
                            /\ job'[q] = "complete" => status[target[q]] \in Terminal
    BY <2>1 DEF CallInv, CompleteJobSettledRow, WorkerInv, RowOf, TypeOK
  <2> QED
    BY <2>1, <2>2, WorkerOnlyStep
<1> QED
  BY <1>2, <1>3, <1>4, <1>5, <1>6 DEF IngestStep

LEMMA WorkerFaultInv ==
  ASSUME IInv, TypeOK', NEW w \in Workers, WorkerFault(w)
  PROVE  IInv'
<1>1. CASE IngestFails(w)
  BY <1>1, ReleaseInv DEF IngestFails, RaiseJob, AfterFailure
<1>2. CASE WorkerStops(w)
  <2>1. PICK next \in {"queued", AfterFailure(task[w])} :
            job' = [job EXCEPT ![task[w]] = next]
    BY <1>2 DEF WorkerStops
  <2> QED
    BY <1>2, <2>1, ReleaseInv DEF WorkerStops, AfterFailure
<1> QED
  BY <1>1, <1>2 DEF WorkerFault

LEMMA StutterInv ==
  ASSUME IInv, UNCHANGED vars
  PROVE  IInv'
<1>1. TypeOK'
  BY NextType DEF IInv
<1> QED
  BY <1>1 DEF IInv, vars, CallInv, RowInv, WorkerInv, LockInv, Justified, RowOf,
     AuditTrailMatchesRow, VerdictIsSound, NoPhantomRow, CompleteJobSettledRow, clientVars,
     rowVars, callVars, queueVars, workerVars

LEMMA InitInv == Init => IInv
  BY InitType DEF Init, IInv, CallInv, RowInv, WorkerInv, LockInv, AuditTrailMatchesRow,
     VerdictIsSound, NoPhantomRow, CompleteJobSettledRow, Terminal

LEMMA NextInv == IInv /\ [Next]_vars => IInv'
<1> SUFFICES ASSUME IInv, [Next]_vars
             PROVE  IInv'
  OBVIOUS
<1>1. TypeOK'
  BY NextType DEF IInv
<1>2. CASE ClientStep
  BY <1>1, <1>2, ClientStepInv
<1>3. ASSUME NEW r \in Requests, CallEnds(r)
      PROVE  IInv'
  BY <1>1, <1>3, CallEndsInv
<1>4. ASSUME NEW w \in Workers, NEW r \in Requests, StartJob(w, r)
      PROVE  IInv'
  BY <1>1, <1>4, StartJobInv
<1>5. ASSUME NEW w \in Workers, IngestStep(w)
      PROVE  IInv'
  BY <1>1, <1>5, IngestStepInv
<1>6. ASSUME NEW w \in Workers, WorkerFault(w)
      PROVE  IInv'
  BY <1>1, <1>6, WorkerFaultInv
<1>7. CASE UNCHANGED vars
  BY <1>7, StutterInv
<1> QED
  BY <1>2, <1>3, <1>4, <1>5, <1>6, <1>7 DEF Next

-----------------------------------------------------------------------------
(* The theorems *)

THEOREM InductiveInvariant == Spec => []IInv
  BY InitInv, NextInv, PTL DEF Spec

\* Every reachable state is well typed.
THEOREM TypeCorrectness == Spec => []TypeOK
<1>1. IInv => TypeOK
  BY DEF IInv
<1> QED
  BY <1>1, InductiveInvariant, PTL

\* The audit trail of an upload is exactly the history of its row.
THEOREM AuditTrailCorrectness == Spec => []AuditTrailMatchesRow
<1>1. IInv => AuditTrailMatchesRow
  BY DEF IInv
<1> QED
  BY <1>1, InductiveInvariant, PTL

\* A verdict says what the stored bytes were.
THEOREM VerdictSoundness == Spec => []VerdictIsSound
<1>1. IInv => VerdictIsSound
  BY DEF IInv
<1> QED
  BY <1>1, InductiveInvariant, PTL

\* A registered upload has an object.
THEOREM NoPhantom == Spec => []NoPhantomRow
<1>1. IInv => NoPhantomRow
  BY DEF IInv
<1> QED
  BY <1>1, InductiveInvariant, PTL

\* A job reported complete has left a settled row behind.
THEOREM CompleteMeansSettled == Spec => []CompleteJobSettledRow
<1>1. IInv => CompleteJobSettledRow
  BY DEF IInv
<1> QED
  BY <1>1, InductiveInvariant, PTL

\* The fingerprint arm of the dedupe query never decides.
THEOREM DedupeByDeclaration == Spec => []DedupeIsByDeclaredHash
<1>1. IInv => DedupeIsByDeclaredHash
  <2> SUFFICES ASSUME IInv, NEW u \in Uploads, NEW d \in Deals, NEW h \in Files,
                      IsDedupeCandidate(u, d, h)
               PROVE  ticket[u] = [deal |-> d, declared |-> h]
    BY DEF DedupeIsByDeclaredHash
  <2>1. /\ status[u] \in {"pending", "verified", "quarantined"}
        /\ ticket[u] \in Tickets
        /\ ticket[u].deal = d
    BY DEF IsDedupeCandidate, IInv, TypeOK, RowInv, Terminal
  <2>2. ticket[u].declared = h
    BY <2>1, UploadAssumption DEF IsDedupeCandidate, IInv, VerdictIsSound
  <2> QED
    BY <2>1, <2>2 DEF Tickets
<1> QED
  BY <1>1, InductiveInvariant, PTL

\* How a step can change the rows and the audit trail.
LEMMA RowSteps ==
  ASSUME IInv, [Next]_vars
  PROVE  \/ UNCHANGED rowVars
         \/ \E r \in Requests : call[r] = "open" /\ CommitCall(r)
         \/ \E w \in Workers : pc[w] = "commit" /\ CommitIngest(w)
<1>1. CASE ClientStep
  BY <1>1 DEF ClientStep, Presign, PutObject, ExpireUrl, Complete
<1>2. ASSUME NEW r \in Requests, CallEnds(r)
      PROVE  UNCHANGED rowVars \/ (call[r] = "open" /\ CommitCall(r))
  BY <1>2 DEF CallEnds, CommitCall, RollbackCall
<1>3. ASSUME NEW w \in Workers, NEW r \in Requests, StartJob(w, r)
      PROVE  UNCHANGED rowVars
  BY <1>3 DEF StartJob
<1>4. ASSUME NEW w \in Workers, IngestStep(w)
      PROVE  UNCHANGED rowVars \/ (pc[w] = "commit" /\ CommitIngest(w))
  BY <1>4 DEF IngestStep, LookupMissing, LookupSettled, LookupPending, HashObject, UpdateRow,
              TriggerRejects, CommitIngest, ReportJob, RaiseJob
<1>5. ASSUME NEW w \in Workers, WorkerFault(w)
      PROVE  UNCHANGED rowVars
  BY <1>5 DEF WorkerFault, IngestFails, WorkerStops, RaiseJob
<1>6. CASE UNCHANGED vars
  BY <1>6 DEF vars
<1> QED
  BY <1>1, <1>2, <1>3, <1>4, <1>5, <1>6 DEF Next

\* The facts about a settling step that both theorems below use.
LEMMA SettlingStep ==
  ASSUME IInv, NEW w \in Workers, CommitIngest(w)
  PROVE  /\ RowOf(w) \in Uploads
         /\ status[RowOf(w)] = "pending"
         /\ outcome[w].status \in Terminal
<1>1. pc[w] = "commit"
  BY DEF CommitIngest
<1> QED
  BY <1>1, RunningJob DEF IInv, WorkerInv, Justified, Outcomes

\* No step changes a settled row's status or fingerprint, although two workers
\* may have read it as pending and hashed different bytes
\* (trg_data_source_one_way_status).
SettledIsFinal ==
    [][\A u \in Uploads : status[u] \in Terminal =>
          status'[u] = status[u] /\ fingerprint'[u] = fingerprint[u]]_vars

\* No step changes a settled row.
THEOREM SettledRowsAreFinal == Spec => SettledIsFinal
<1>1. IInv /\ [Next]_vars =>
          [\A u \in Uploads : status[u] \in Terminal =>
              status'[u] = status[u] /\ fingerprint'[u] = fingerprint[u]]_vars
  <2> SUFFICES ASSUME IInv, [Next]_vars, NEW u \in Uploads, status[u] \in Terminal
               PROVE  status'[u] = status[u] /\ fingerprint'[u] = fingerprint[u]
    OBVIOUS
  <2>1. CASE UNCHANGED rowVars
    BY <2>1 DEF rowVars
  <2>2. ASSUME NEW r \in Requests, call[r] = "open", CommitCall(r)
        PROVE  status'[u] = status[u] /\ fingerprint'[u] = fingerprint[u]
    BY <2>2 DEF CommitCall, IInv, TypeOK, Terminal
  <2>3. ASSUME NEW w \in Workers, CommitIngest(w)
        PROVE  status'[u] = status[u] /\ fingerprint'[u] = fingerprint[u]
    BY <2>3, SettlingStep DEF CommitIngest, IInv, TypeOK, Terminal
  <2> QED
    BY <2>1, <2>2, <2>3, RowSteps
<1> QED
  BY <1>1, InductiveInvariant, PTL DEF Spec, SettledIsFinal

\* The pipeline implements the life of a document: a committed call registers it,
\* a committed job settles it, and every other step stutters.
THEOREM Refinement == Spec => ImplementsLifecycle
<1>1. Init => Lifecycle!Init
  BY DEF Init, Lifecycle!Init
<1>2. IInv /\ [Next]_vars => [Lifecycle!Next]_(Lifecycle!lifecycleVars)
  <2> SUFFICES ASSUME IInv, [Next]_vars
               PROVE  [Lifecycle!Next]_(Lifecycle!lifecycleVars)
    OBVIOUS
  <2>1. CASE UNCHANGED rowVars
    BY <2>1 DEF rowVars, Lifecycle!lifecycleVars
  <2>2. ASSUME NEW r \in Requests, call[r] = "open", CommitCall(r)
        PROVE  Lifecycle!Next
    <3>1. target[r] \in Uploads
      BY <2>2 DEF IInv, CallInv
    <3> QED
      BY <2>2, <3>1 DEF CommitCall, Lifecycle!Next, Lifecycle!Register
  <2>3. ASSUME NEW w \in Workers, CommitIngest(w)
        PROVE  Lifecycle!Next
    <3>1. Lifecycle!Settle(RowOf(w), outcome[w].status)
      BY <2>3, SettlingStep DEF CommitIngest, Lifecycle!Settle
    <3> QED
      BY <2>3, <3>1, SettlingStep DEF Lifecycle!Next, Lifecycle!Settled, Terminal
  <2> QED
    BY <2>1, <2>2, <2>3, RowSteps
<1> QED
  BY <1>1, <1>2, InductiveInvariant, PTL DEF Spec, ImplementsLifecycle, Lifecycle!Spec

-----------------------------------------------------------------------------
(* What becomes of the jobs.  The liveness runs show that they end; here is    *)
(* what can be said of them without fairness.                                  *)

\* A worker's job is marked active, no two workers run one job, and no job is
\* marked active that nobody runs: none is lost, none runs twice at a time.
JobsAreRun ==
    /\ \A w \in Workers : pc[w] # "idle" => job[task[w]] = "active"
    /\ \A v, w \in Workers : pc[v] # "idle" /\ pc[w] # "idle" /\ task[v] = task[w] => v = w
    /\ \A r \in Requests : job[r] = "active" => \E w \in Workers : pc[w] # "idle" /\ task[w] = r

\* A job is started as often as SAQ's retries allow, and once more for every worker
\* that stopped or job that failed under some fault.
AttemptsAreBounded == \A r \in Requests : attempts[r] <= Retries + faults

\* A job in the queue has a start left.
QueueInv ==
    \A r \in Requests :
        /\ job[r] = "none" => attempts[r] = 0
        /\ job[r] = "queued" => attempts[r] < Retries + faults
        /\ attempts[r] <= Retries + faults

\* A job that has ended is not taken up again.
EndedIsFinal ==
    [][\A r \in Requests : job[r] \in {"complete", "failed"} => job'[r] = job[r]]_vars

JobsKeepTheirEnd ==
    \A r \in Requests : job[r] \in {"complete", "failed"} => job'[r] = job[r]

JobInv == JobsAreRun /\ QueueInv

\* A step that leaves the queue and the workers alone.
LEMMA ElsewhereJobs ==
  ASSUME TypeOK, TypeOK', JobInv, UNCHANGED <<queueVars, pc, task>>, faults <= faults'
  PROVE  JobInv' /\ JobsKeepTheirEnd
<1>1. JobsAreRun' /\ JobsKeepTheirEnd
  BY DEF JobInv, JobsAreRun, JobsKeepTheirEnd, queueVars
<1>2. QueueInv'
  BY UploadAssumption DEF JobInv, QueueInv, queueVars, TypeOK
<1> QED
  BY <1>1, <1>2 DEF JobInv

\* A step of a worker that stays with its job.
LEMMA BusyJobs ==
  ASSUME TypeOK, TypeOK', JobInv, NEW w \in Workers, NEW next, pc[w] # "idle", next # "idle",
         pc' = [pc EXCEPT ![w] = next], UNCHANGED <<queueVars, task, faults>>
  PROVE  JobInv' /\ JobsKeepTheirEnd
<1>1. \A v \in Workers : pc'[v] # "idle" <=> pc[v] # "idle"
  BY DEF TypeOK
<1>2. JobsAreRun' /\ JobsKeepTheirEnd
  BY <1>1 DEF JobInv, JobsAreRun, JobsKeepTheirEnd, queueVars
<1>3. QueueInv'
  BY DEF JobInv, QueueInv, queueVars
<1> QED
  BY <1>2, <1>3 DEF JobInv

\* A worker that lets its job go: no other one runs it.
LEMMA ReleasedJobs ==
  ASSUME TypeOK, TypeOK', JobInv, WorkerInv, NEW w \in Workers, pc[w] # "idle", Release(w),
         NEW next \in {"queued", "complete", "failed"},
         job' = [job EXCEPT ![task[w]] = next], attempts' = attempts,
         faults <= faults',
         next = "queued" => attempts[task[w]] < Retries + faults'
  PROVE  JobInv' /\ JobsKeepTheirEnd
<1> DEFINE r == task[w]
<1>1. r \in Requests /\ job[r] = "active"
  BY DEF WorkerInv, JobInv, JobsAreRun
<1>2. /\ pc'[w] = "idle"
      /\ \A v \in Workers \ {w} : pc'[v] = pc[v] /\ task'[v] = task[v]
  BY DEF Release, TypeOK
<1>3. /\ job'[r] = next
      /\ \A q \in Requests \ {r} : job'[q] = job[q]
  BY <1>1 DEF TypeOK
<1>4. \A v \in Workers \ {w} : pc[v] # "idle" => task[v] # r /\ task[v] \in Requests
  BY DEF JobInv, JobsAreRun, WorkerInv
<1> HIDE DEF r
<1>5. JobsKeepTheirEnd
  BY <1>1, <1>3 DEF JobsKeepTheirEnd
<1>6. JobsAreRun'
  <2>1. \A v \in Workers : pc'[v] # "idle" => job'[task'[v]] = "active"
    BY <1>2, <1>3, <1>4 DEF JobInv, JobsAreRun
  <2>2. \A v, x \in Workers : pc'[v] # "idle" /\ pc'[x] # "idle" /\ task'[v] = task'[x] => v = x
    BY <1>2 DEF JobInv, JobsAreRun
  <2>3. \A q \in Requests : job'[q] = "active" => \E v \in Workers : pc'[v] # "idle" /\ task'[v] = q
    <3> SUFFICES ASSUME NEW q \in Requests, job'[q] = "active"
                 PROVE  \E v \in Workers : pc'[v] # "idle" /\ task'[v] = q
      OBVIOUS
    <3>1. q # r /\ job[q] = "active"
      BY <1>3
    <3>2. PICK v \in Workers : pc[v] # "idle" /\ task[v] = q
      BY <3>1 DEF JobInv, JobsAreRun
    <3>3. v # w
      BY <3>1, <3>2 DEF r
    <3> QED
      BY <1>2, <3>2, <3>3
  <2> QED
    BY <2>1, <2>2, <2>3 DEF JobsAreRun
<1>7. QueueInv'
  <2> SUFFICES ASSUME NEW q \in Requests
               PROVE  /\ job'[q] = "none" => attempts[q] = 0
                      /\ job'[q] = "queued" => attempts[q] < Retries + faults'
                      /\ attempts[q] <= Retries + faults'
    BY DEF QueueInv
  <2>1. /\ attempts[q] \in Nat /\ faults \in Nat /\ faults' \in Nat /\ Retries \in Nat
        /\ job[q] = "none" => attempts[q] = 0
        /\ job[q] = "queued" => attempts[q] < Retries + faults
        /\ attempts[q] <= Retries + faults
    BY UploadAssumption DEF TypeOK, JobInv, QueueInv
  <2>2. CASE q = r
    BY <1>3, <2>1, <2>2 DEF r
  <2>3. CASE q # r
    BY <1>3, <2>1, <2>3
  <2> QED
    BY <2>2, <2>3
<1> QED
  BY <1>5, <1>6, <1>7 DEF JobInv

LEMMA RaisedJobs ==
  ASSUME TypeOK, TypeOK', JobInv, WorkerInv, NEW w \in Workers, pc[w] # "idle", RaiseJob(w),
         faults <= faults'
  PROVE  JobInv' /\ JobsKeepTheirEnd
<1>1. AfterFailure(task[w]) \in {"queued", "complete", "failed"}
  BY DEF AfterFailure
<1>2. task[w] \in Requests
  BY DEF WorkerInv
<1>3. AfterFailure(task[w]) = "queued" => attempts[task[w]] < Retries + faults'
  <2>1. attempts[task[w]] \in Nat /\ faults' \in Nat /\ Retries \in Nat
    BY <1>2, UploadAssumption DEF TypeOK
  <2>2. AfterFailure(task[w]) = "queued" => Retries > attempts[task[w]]
    BY DEF AfterFailure
  <2> QED
    BY <2>1, <2>2
<1> QED
  BY <1>1, <1>3, ReleasedJobs DEF RaiseJob

LEMMA StartedJobs ==
  ASSUME TypeOK, TypeOK', JobInv, WorkerInv, NEW w \in Workers, NEW r \in Requests,
         StartJob(w, r)
  PROVE  JobInv' /\ JobsKeepTheirEnd
<1>1. /\ pc[w] = "idle" /\ job[r] = "queued" /\ faults' = faults
      /\ pc'[w] = "lookup" /\ task'[w] = r
      /\ \A v \in Workers \ {w} : pc'[v] = pc[v] /\ task'[v] = task[v]
      /\ job'[r] = "active" /\ attempts'[r] = attempts[r] + 1
      /\ \A q \in Requests \ {r} : job'[q] = job[q] /\ attempts'[q] = attempts[q]
  BY DEF StartJob, TypeOK
<1>2. \A v \in Workers : pc[v] # "idle" => task[v] # r /\ task[v] \in Requests
  BY <1>1 DEF JobInv, JobsAreRun, WorkerInv
<1>3. JobsAreRun'
  <2>1. \A v \in Workers : pc'[v] # "idle" => job'[task'[v]] = "active"
    BY <1>1, <1>2 DEF JobInv, JobsAreRun
  <2>2. \A v, x \in Workers : pc'[v] # "idle" /\ pc'[x] # "idle" /\ task'[v] = task'[x] => v = x
    BY <1>1, <1>2 DEF JobInv, JobsAreRun
  <2>3. \A q \in Requests : job'[q] = "active" => \E v \in Workers : pc'[v] # "idle" /\ task'[v] = q
    <3> SUFFICES ASSUME NEW q \in Requests, job'[q] = "active", q # r
                 PROVE  \E v \in Workers : pc'[v] # "idle" /\ task'[v] = q
      BY <1>1
    <3>1. PICK v \in Workers : pc[v] # "idle" /\ task[v] = q
      BY <1>1 DEF JobInv, JobsAreRun
    <3> QED
      BY <1>1, <3>1
  <2> QED
    BY <2>1, <2>2, <2>3 DEF JobsAreRun
<1>4. QueueInv'
  <2> SUFFICES ASSUME NEW q \in Requests
               PROVE  /\ job'[q] = "none" => attempts'[q] = 0
                      /\ job'[q] = "queued" => attempts'[q] < Retries + faults
                      /\ attempts'[q] <= Retries + faults
    BY <1>1 DEF QueueInv
  <2>1. /\ attempts[q] \in Nat /\ faults \in Nat /\ Retries \in Nat
        /\ job[q] = "none" => attempts[q] = 0
        /\ job[q] = "queued" => attempts[q] < Retries + faults
        /\ attempts[q] <= Retries + faults
    BY UploadAssumption DEF TypeOK, JobInv, QueueInv
  <2>2. CASE q = r
    BY <1>1, <2>1, <2>2
  <2>3. CASE q # r
    BY <1>1, <2>1, <2>3
  <2> QED
    BY <2>2, <2>3
<1>5. JobsKeepTheirEnd
  BY <1>1 DEF JobsKeepTheirEnd
<1> QED
  BY <1>3, <1>4, <1>5 DEF JobInv

\* A call of /complete queues the job of its request, which had none.
LEMMA QueuedJobs ==
  ASSUME TypeOK, TypeOK', JobInv, CallInv, WorkerInv, NEW r \in Requests, NEW u \in Uploads,
         Complete(r, u)
  PROVE  JobInv' /\ JobsKeepTheirEnd
<1>1. /\ job[r] = "none" /\ job'[r] = "queued"
      /\ \A q \in Requests \ {r} : job'[q] = job[q]
      /\ UNCHANGED <<pc, task, attempts, faults>>
  BY DEF Complete, CallInv, TypeOK, workerVars
<1>2. \A v \in Workers : pc[v] # "idle" => task[v] # r /\ task[v] \in Requests
  BY <1>1 DEF JobInv, JobsAreRun, WorkerInv
<1>3. JobsAreRun'
  <2>1. \A v \in Workers : pc[v] # "idle" => job'[task[v]] = "active"
    BY <1>1, <1>2 DEF JobInv, JobsAreRun
  <2>2. \A q \in Requests : job'[q] = "active" => job[q] = "active"
    BY <1>1
  <2> QED
    BY <1>1, <2>1, <2>2 DEF JobInv, JobsAreRun
<1>4. QueueInv'
  <2>1. attempts[r] = 0 /\ faults \in Nat /\ Retries \in Nat \ {0}
    BY <1>1, UploadAssumption DEF JobInv, QueueInv, TypeOK
  <2>2. attempts[r] < Retries + faults
    BY <2>1
  <2> QED
    BY <1>1, <2>2 DEF JobInv, QueueInv
<1>5. JobsKeepTheirEnd
  BY <1>1 DEF JobsKeepTheirEnd
<1> QED
  BY <1>3, <1>4, <1>5 DEF JobInv

LEMMA JobStep == IInv /\ TypeOK' /\ JobInv /\ [Next]_vars => JobInv' /\ JobsKeepTheirEnd
<1> SUFFICES ASSUME IInv, TypeOK', JobInv, [Next]_vars PROVE JobInv' /\ JobsKeepTheirEnd
  OBVIOUS
<1>1. TypeOK /\ CallInv /\ WorkerInv /\ faults \in Nat
  BY DEF IInv, TypeOK
<1>2. CASE ClientStep
  <2>1. ASSUME NEW r \in Requests, NEW u \in Uploads, Complete(r, u)
        PROVE  JobInv' /\ JobsKeepTheirEnd
    BY <1>1, <2>1, QueuedJobs
  <2>2. ASSUME NEW u \in Uploads,
               \/ \E d \in Deals, h \in Files, n \in Sizes : Presign(u, d, h, n)
               \/ \E f \in Files : PutObject(u, f)
               \/ ExpireUrl(u)
        PROVE  JobInv' /\ JobsKeepTheirEnd
    <3>1. UNCHANGED <<queueVars, pc, task, faults>>
      BY <2>2 DEF Presign, PutObject, ExpireUrl, workerVars
    <3> QED
      BY <1>1, <3>1, ElsewhereJobs
  <2> QED
    BY <1>2, <2>1, <2>2 DEF ClientStep
<1>3. ASSUME NEW r \in Requests, CallEnds(r) PROVE JobInv' /\ JobsKeepTheirEnd
  <2>1. UNCHANGED <<queueVars, pc, task>> /\ faults <= faults'
    BY <1>1, <1>3 DEF CallEnds, CommitCall, RollbackCall, workerVars
  <2> QED
    BY <1>1, <2>1, ElsewhereJobs
<1>4. ASSUME NEW w \in Workers, NEW r \in Requests, StartJob(w, r)
      PROVE  JobInv' /\ JobsKeepTheirEnd
  BY <1>1, <1>4, StartedJobs
<1>5. ASSUME NEW w \in Workers, IngestStep(w) PROVE JobInv' /\ JobsKeepTheirEnd
  <2>1. CASE LookupMissing(w) \/ TriggerRejects(w)
    <3>1. pc[w] # "idle" /\ RaiseJob(w) /\ faults <= faults'
      BY <1>1, <2>1 DEF LookupMissing, TriggerRejects
    <3> QED
      BY <1>1, <3>1, RaisedJobs
  <2>2. CASE LookupSettled(w) \/ LookupPending(w) \/ HashObject(w) \/ UpdateRow(w)
             \/ CommitIngest(w)
    <3>1. PICK next \in {"report", "hash", "update", "commit"} : pc' = [pc EXCEPT ![w] = next]
      BY <2>2 DEF LookupSettled, LookupPending, HashObject, UpdateRow, CommitIngest
    <3>2. pc[w] # "idle" /\ UNCHANGED <<queueVars, task, faults>>
      BY <2>2 DEF LookupSettled, LookupPending, HashObject, UpdateRow, CommitIngest
    <3> QED
      BY <1>1, <3>1, <3>2, BusyJobs
  <2>3. CASE ReportJob(w)
    <3>1. /\ pc[w] # "idle" /\ Release(w) /\ job' = [job EXCEPT ![task[w]] = "complete"]
          /\ attempts' = attempts /\ faults <= faults'
      BY <1>1, <2>3 DEF ReportJob
    <3> QED
      BY <1>1, <3>1, ReleasedJobs
  <2> QED
    BY <1>5, <2>1, <2>2, <2>3 DEF IngestStep
<1>6. ASSUME NEW w \in Workers, IngestFails(w) PROVE JobInv' /\ JobsKeepTheirEnd
  <2>1. pc[w] # "idle" /\ RaiseJob(w) /\ faults <= faults'
    BY <1>1, <1>6 DEF IngestFails
  <2> QED
    BY <1>1, <2>1, RaisedJobs
<1>7. ASSUME NEW w \in Workers, WorkerStops(w) PROVE JobInv' /\ JobsKeepTheirEnd
  <2>1. /\ pc[w] # "idle" /\ Release(w) /\ attempts' = attempts
        /\ faults' = faults + 1 /\ faults <= faults'
    BY <1>1, <1>7 DEF WorkerStops
  <2>2. PICK next \in {"queued", "complete", "failed"} : job' = [job EXCEPT ![task[w]] = next]
    BY <1>7 DEF WorkerStops, AfterFailure
  <2>3. attempts[task[w]] < Retries + faults'
    <3>1. task[w] \in Requests
      BY <1>1, <2>1 DEF WorkerInv
    <3>2. attempts[task[w]] <= Retries + faults /\ attempts[task[w]] \in Nat /\ Retries \in Nat
      BY <1>1, <3>1, UploadAssumption DEF JobInv, QueueInv, TypeOK
    <3> QED
      BY <1>1, <2>1, <3>2
  <2> QED
    BY <1>1, <2>1, <2>2, <2>3, ReleasedJobs
<1>8. CASE UNCHANGED vars
  <2>1. UNCHANGED <<queueVars, pc, task, faults>>
    BY <1>8 DEF vars, workerVars
  <2> QED
    BY <1>1, <2>1, ElsewhereJobs
<1> QED
  BY <1>2, <1>3, <1>4, <1>5, <1>6, <1>7, <1>8 DEF Next, WorkerFault

LEMMA JobsInductive == Spec => []JobInv
<1>1. Init => JobInv
  BY UploadAssumption DEF Init, JobInv, JobsAreRun, QueueInv
<1>2. IInv => TypeOK
  BY DEF IInv
<1> QED
  BY <1>1, <1>2, JobStep, InductiveInvariant, PTL DEF Spec

\* Whatever stops, fails or is retried, every active job has exactly one worker.
THEOREM NoJobIsLost == Spec => []JobsAreRun
<1>1. JobInv => JobsAreRun
  BY DEF JobInv
<1> QED
  BY <1>1, JobsInductive, PTL

\* And no job is retried for ever (Job.retryable, and the sweep of a stopped worker).
THEOREM RetriesAreBounded == Spec => []AttemptsAreBounded
<1>1. JobInv => AttemptsAreBounded
  BY DEF JobInv, QueueInv, AttemptsAreBounded
<1> QED
  BY <1>1, JobsInductive, PTL

\* A job that was reported complete or failed is never taken up again.
THEOREM EndedJobsStay == Spec => EndedIsFinal
<1>1. IInv /\ TypeOK' /\ JobInv /\ [Next]_vars
        => [\A r \in Requests : job[r] \in {"complete", "failed"} => job'[r] = job[r]]_vars
  BY JobStep DEF JobsKeepTheirEnd
<1>2. IInv => TypeOK
  BY DEF IInv
<1> QED
  BY <1>1, <1>2, JobsInductive, InductiveInvariant, PTL DEF Spec, EndedIsFinal

-----------------------------------------------------------------------------
(* What the dedupe check is worth.  The run document_upload_duplicate refutes  *)
(* the comment that a duplicate is always caught; here is when it is.          *)

\* An upload is issued only when every earlier one of the same file to the same
\* deal has its committed row: a client that finishes one upload before it starts
\* the next.
IssuedInTurn ==
    \A u, v \in Uploads :
        ticket'[u] # ticket[u] /\ ticket[v] = ticket'[u] => status[v] # "absent"
StartedInTurn == [][IssuedInTurn]_vars

\* Of two uploads of one file to one deal, one is a mismatch already.
TwinsInv ==
    \A u, v \in Uploads :
        u # v /\ ticket[u] # None /\ ticket[u] = ticket[v] =>
            status[u] = "mismatch" \/ status[v] = "mismatch"

\* A mismatch stays one.
LEMMA MismatchStays ==
  ASSUME IInv, [Next]_vars, NEW u \in Uploads, status[u] = "mismatch"
  PROVE  status'[u] = "mismatch"
<1>1. CASE UNCHANGED rowVars
  BY <1>1 DEF rowVars
<1>2. ASSUME NEW r \in Requests, call[r] = "open", CommitCall(r)
      PROVE  status'[u] = "mismatch"
  BY <1>2 DEF CommitCall, IInv, TypeOK
<1>3. ASSUME NEW w \in Workers, CommitIngest(w)
      PROVE  status'[u] = "mismatch"
  BY <1>3, SettlingStep DEF CommitIngest, IInv, TypeOK
<1> QED
  BY <1>1, <1>2, <1>3, RowSteps

\* Only create_presigned_url issues tickets.
LEMMA TicketSteps ==
  ASSUME [Next]_vars
  PROVE  \/ UNCHANGED ticket
         \/ \E u \in Uploads, d \in Deals, h \in Files, n \in Sizes : Presign(u, d, h, n)
<1>1. CASE ClientStep
  BY <1>1 DEF ClientStep, PutObject, ExpireUrl, Complete, clientVars
<1>2. ASSUME NEW r \in Requests, CallEnds(r) PROVE UNCHANGED ticket
  BY <1>2 DEF CallEnds, CommitCall, RollbackCall, clientVars
<1>3. ASSUME NEW w \in Workers, NEW r \in Requests, StartJob(w, r) PROVE UNCHANGED ticket
  BY <1>3 DEF StartJob, clientVars
<1>4. ASSUME NEW w \in Workers, IngestStep(w) PROVE UNCHANGED ticket
  BY <1>4 DEF IngestStep, LookupMissing, LookupSettled, LookupPending, HashObject, UpdateRow,
              TriggerRejects, CommitIngest, ReportJob, RaiseJob, clientVars
<1>5. ASSUME NEW w \in Workers, WorkerFault(w) PROVE UNCHANGED ticket
  BY <1>5 DEF WorkerFault, IngestFails, WorkerStops, RaiseJob, clientVars
<1>6. CASE UNCHANGED vars
  BY <1>6 DEF vars, clientVars
<1> QED
  BY <1>1, <1>2, <1>3, <1>4, <1>5, <1>6 DEF Next

LEMMA TwinsStep == IInv /\ TwinsInv /\ [Next]_vars /\ [IssuedInTurn]_vars => TwinsInv'
<1> SUFFICES ASSUME IInv, TwinsInv, [Next]_vars, [IssuedInTurn]_vars,
                    NEW u \in Uploads, NEW v \in Uploads, u # v,
                    ticket'[u] # None, ticket'[u] = ticket'[v]
             PROVE  status'[u] = "mismatch" \/ status'[v] = "mismatch"
  BY DEF TwinsInv
<1>1. CASE UNCHANGED ticket
  BY <1>1, MismatchStays DEF TwinsInv
<1>2. ASSUME NEW x \in Uploads, NEW d \in Deals, NEW h \in Files, NEW n \in Sizes,
             Presign(x, d, h, n)
      PROVE  status'[u] = "mismatch" \/ status'[v] = "mismatch"
  <2> DEFINE t == [deal |-> d, declared |-> h]
  <2>1. /\ ticket'[x] = t /\ ticket[x] = None /\ t # None
        /\ \A y \in Uploads \ {x} : ticket'[y] = ticket[y]
    BY <1>2, UploadAssumption DEF Presign, IInv, TypeOK, Tickets
  <2>2. ASSUME NEW y \in Uploads, y # x, ticket[y] = t
        PROVE  status[y] = "mismatch"
    <3>1. status[y] # "absent"
      BY <2>1, <2>2 DEF IssuedInTurn, vars, clientVars
    <3>2. ~IsDedupeCandidate(y, d, h)
      BY <1>2 DEF Presign
    <3> QED
      BY <2>2, <3>1, <3>2 DEF IsDedupeCandidate
  <2> HIDE DEF t
  <2>3. CASE u = x
    BY <2>1, <2>2, <2>3, MismatchStays
  <2>4. CASE v = x
    BY <2>1, <2>2, <2>4, MismatchStays
  <2>5. CASE u # x /\ v # x
    BY <2>1, <2>5, MismatchStays DEF TwinsInv
  <2> QED
    BY <2>3, <2>4, <2>5
<1> QED
  BY <1>1, <1>2, TicketSteps

\* Among uploads that are started in turn, no deal gets two live rows for one file
\* (find_dedupe_candidate): what defeats the check is only the time between the
\* issue of an upload and the commit of its row.
THEOREM DuplicatesCaughtInTurn == Spec /\ StartedInTurn => []DuplicateIsCaught
<1>1. Init => TwinsInv
  BY DEF Init, TwinsInv
<1>2. IInv /\ TwinsInv => DuplicateIsCaught
  BY DEF IInv, RowInv, TwinsInv, DuplicateIsCaught
<1> QED
  BY <1>1, <1>2, TwinsStep, InductiveInvariant, PTL DEF Spec, StartedInTurn
=============================================================================
