--------------------------- MODULE EvidenceProofs ---------------------------
(***************************************************************************)
(* Proofs about the claims contract, the ingest of claims and chunks and   *)
(* the searches beside it, for every set of runs, claims, texts and chunks *)
(* and every batch size: what the contract admits the table holds, the     *)
(* searches only read, and the transactions of the runs leave whole sets   *)
(* of admitted claims under one organisation and no chunk of a derived     *)
(* document.                                                               *)
(***************************************************************************)
EXTENDS HybridSearch, TLAPS, SequenceTheorems, FiniteSetTheorems

(***************************************************************************)
(* The contract is at least as strict as the CHECKs of the table, although *)
(* the two are written in two files and in different terms.                *)
(***************************************************************************)
THEOREM ContractImpliesChecks ==
    ASSUME NEW claim, ContractAdmits(claim)
    PROVE  ChecksHold(RowFromClaim(claim))
  BY ContractAssumption
  DEF ContractAdmits, WellFormed, LocationIsTyped, SpanIsAllOrNothing, CheckedHasMethod,
      QualitativeIsText, ContractStatuses, ContractMethods, ContractKinds, ContractClasses,
      Periods, Required, Allowed, Span, LocationKeys, LocationColumns, RowFromClaim,
      ChecksHold, EnumsHold, LocatorMatchesKind, RowStatuses, CheckedStatuses, RowMethods,
      RowClasses

(***************************************************************************)
(* HybridSearch implements EvidenceIngest: a search is a stutter of the    *)
(* store and the runs, or a failure of the database.                       *)
(***************************************************************************)
THEOREM SearchesOnlyRead == Spec => IngestSpec
<1>1. SearchInit => Init
  BY DEF SearchInit
<1>2. [Next]_vars => [IngestNext \/ FailsElsewhere]_ingestVars
  BY DEF Next, vars, SearchStep, QueryFails
<1>. QED  BY <1>1, <1>2, PTL DEF Spec, IngestSpec

-----------------------------------------------------------------------------
(***************************************************************************)
(* The inductive invariant.  RunOK says what a run may hold at each step,  *)
(* given the committed organisations; KeyInv that the unique key is held   *)
(* by one open transaction at most; OrgInv that a run's organisation row   *)
(* is committed only with the run; and ClaimsInv that the claims in the    *)
(* store are those of the runs that committed.                             *)
(***************************************************************************)
RunOK(r, step, q, orgs) ==
    /\ step \notin {"validate", "refused"} => Valid(q.payload)
    /\ step \in {"commit", "done"} => q.texts = <<>>
    /\ step # "checkViolation"
    /\ step = "validate" => q.vectors = q.texts
    /\ step = "embed" =>
          /\ Len(q.vectors) < Len(q.texts)
          /\ q.vectors = SubSeq(q.texts, 1, Len(q.vectors))
    /\ step \in InTransaction \cup {"done"} =>
          q.vectors = q.texts \/ q.vectors = Unembedded(q.texts)
    /\ step \in {"idle", "validate", "embed", "org", "insertOrg"} => q.org = None
    /\ step \in {"delete", "flush", "commit"} =>
          (q.org = r /\ orgs = {}) \/ q.org \in orgs
    /\ step = "done" /\ q.commit => q.org \in orgs

RunsInv == \A r \in Runs : RunOK(r, run[r].step, run[r], organisations)

KeyInv == \A r, s \in Runs : HoldsKey(r) /\ HoldsKey(s) => r = s

OrgInv ==
    /\ \A r \in Runs : r \in organisations => At(r, "done")
    /\ organisations = {} \/ \E o \in Makers : organisations = {o}

ClaimsInv ==
    /\ \A x \in claims :
          At(x.run, "done") /\ run[x.run].commit /\ x \in RowsOf(x.run)
    /\ \A r \in Runs : At(r, "done") /\ run[r].commit => RowsOf(r) \subseteq claims

ChunksInv == \A c \in Chunks : chunks[c].document # Derived

IInv == IngestTypeOK /\ RunsInv /\ KeyInv /\ OrgInv /\ ClaimsInv /\ ChunksInv

LEMMA InitIInv == Init => IInv
<1>. SUFFICES ASSUME Init PROVE IInv
  OBVIOUS
<1>. USE IngestAssumption DEF Init
<1>1. Idle \in RunStates
  BY DEF Idle, NewRun, RunStates, Steps
<1>2. Absent \in ChunkStates
  BY DEF Absent, ChunkStates
<1>3. IngestTypeOK
  BY <1>1, <1>2 DEF IngestTypeOK, Makers
<1>4. RunsInv
  BY DEF RunsInv, RunOK, Idle, NewRun, Valid, InTransaction
<1>5. KeyInv
  BY DEF KeyInv, HoldsKey, Idle, NewRun
<1>6. OrgInv
  BY DEF OrgInv, Makers
<1>7. ClaimsInv
  BY DEF ClaimsInv, At, Idle, NewRun
<1>8. ChunksInv
  BY DEF ChunksInv, Absent
<1>. QED  BY <1>3, <1>4, <1>5, <1>6, <1>7, <1>8 DEF IInv

-----------------------------------------------------------------------------
(* What the steps write *)

\* A run that only moves keeps all else.
LEMMA Stepping ==
    ASSUME NEW q \in RunStates, NEW step \in Steps, NEW x, x = [q EXCEPT !.step = step]
    PROVE  /\ x \in RunStates
           /\ x.step = step
           /\ x.kind = q.kind /\ x.commit = q.commit /\ x.payload = q.payload
           /\ x.texts = q.texts /\ x.vectors = q.vectors /\ x.org = q.org
  BY DEF RunStates

\* Whatever a run does short of its commit: it keeps the invariant if what it holds
\* then is in order and it does not take a key that another one holds.
LEMMA Becoming ==
    ASSUME IInv, NEW r \in Runs, NEW x \in RunStates,
           run' = [run EXCEPT ![r] = x],
           UNCHANGED <<organisations, claims, chunks, setting>>,
           faults' \in 0 .. MaxFaults,
           run[r].step # "done",
           ~(x.step = "done" /\ x.commit),
           RunOK(r, x.step, x, organisations),
           x.org = r /\ x.step \in InTransaction =>
               HoldsKey(r) \/ \A s \in Runs \ {r} : ~HoldsKey(s)
    PROVE  IInv'
<1>1. run' \in [Runs -> RunStates] /\ run'[r] = x /\ \A s \in Runs \ {r} : run'[s] = run[s]
  BY DEF IInv, IngestTypeOK
<1>2. IngestTypeOK'
  BY <1>1 DEF IInv, IngestTypeOK
<1>3. RunsInv'
  BY <1>1 DEF IInv, RunsInv
<1>4. KeyInv'
  <2>1. SUFFICES ASSUME NEW s \in Runs, NEW t \in Runs, HoldsKey(s)', HoldsKey(t)', s # t
                 PROVE  FALSE
    BY DEF KeyInv
  <2>2. \A u \in Runs \ {r} : HoldsKey(u)' => HoldsKey(u)
    BY <1>1 DEF HoldsKey
  <2>3. HoldsKey(r)' => HoldsKey(r) \/ \A u \in Runs \ {r} : ~HoldsKey(u)
    BY <1>1 DEF HoldsKey
  <2>. QED  BY <2>1, <2>2, <2>3 DEF IInv, KeyInv
<1>5. OrgInv'
  BY <1>1 DEF IInv, OrgInv, At
<1>6. ClaimsInv'
  <2>1. \A s \in Runs \ {r} : RowsOf(s)' = RowsOf(s)
    BY <1>1 DEF RowsOf
  <2>2. \A y \in claims : y.run \in Runs \ {r}
    BY DEF IInv, IngestTypeOK, ClaimsInv, At
  <2>. QED  BY <1>1, <2>1, <2>2 DEF IInv, ClaimsInv, At
<1>7. ChunksInv'
  BY DEF IInv, ChunksInv
<1>. QED  BY <1>2, <1>3, <1>4, <1>5, <1>6, <1>7 DEF IInv

-----------------------------------------------------------------------------
(* A run starts *)

LEMMA StartClaimsKeeps == ASSUME IInv, NEW r \in Runs, StartClaims(r) PROVE IInv'
<1>1. PICK payload \in Payloads, commit \in BOOLEAN :
          run' = [run EXCEPT ![r] = NewRun("validate", "claims", commit, payload, <<>>, <<>>)]
  BY DEF StartClaims
<1>. DEFINE x == NewRun("validate", "claims", commit, payload, <<>>, <<>>)
<1>3. run' = [run EXCEPT ![r] = x]
  BY <1>1
<1>. HIDE DEF x
<1>4. /\ x \in RunStates /\ x.step = "validate" /\ x.org = None
      /\ x.payload = payload /\ x.texts = <<>> /\ x.vectors = <<>>
  <2>1. payload \in SUBSET Candidates
    BY IngestAssumption
  <2>2. "validate" \in Steps /\ "claims" \in Kinds
    BY DEF Steps, Kinds
  <2>3. <<>> \in Seq(Texts) /\ <<>> \in Seq(Texts \cup {None})
    OBVIOUS
  <2>. QED  BY <2>1, <2>2, <2>3 DEF x, NewRun, RunStates
<1>5. RunOK(r, x.step, x, organisations)
  BY <1>4 DEF RunOK, InTransaction
<1>6. run[r].step # "done" /\ r # None
  BY IngestAssumption DEF StartClaims, At
<1>7. faults' \in 0 .. MaxFaults /\ UNCHANGED <<organisations, claims, chunks, setting>>
  BY DEF IInv, IngestTypeOK, StartClaims
<1>. QED  BY <1>3, <1>4, <1>5, <1>6, <1>7, Becoming

LEMMA UnembeddedIsSeq ==
    ASSUME NEW texts \in Seq(Texts) PROVE Unembedded(texts) \in Seq(Texts \cup {None})
<1>1. Len(texts) \in Nat /\ DOMAIN texts = 1 .. Len(texts)
  BY LenProperties
<1>. QED  BY <1>1 DEF Unembedded

LEMMA ReadChunksKeeps ==
    ASSUME IInv, NEW r \in Runs, NEW kind \in {"chunks", "upload"}, NEW commit \in BOOLEAN,
           NEW embed \in BOOLEAN, ReadChunks(r, kind, commit, embed)
    PROVE  IInv'
<1>1. PICK texts \in setting.inputs :
          run' = [run EXCEPT ![r] =
                     NewRun(IF embed /\ texts # <<>> THEN "embed" ELSE "org", kind, commit,
                            {}, texts, IF embed THEN <<>> ELSE Unembedded(texts))]
  BY DEF ReadChunks
<1>. DEFINE step == IF embed /\ texts # <<>> THEN "embed" ELSE "org"
            vectors == IF embed THEN <<>> ELSE Unembedded(texts)
            x == NewRun(step, kind, commit, {}, texts, vectors)
<1>2. run' = [run EXCEPT ![r] = x]
  BY <1>1
<1>3. texts \in Seq(Texts)
  BY IngestAssumption DEF IInv, IngestTypeOK
<1>4. step \in {"embed", "org"} /\ step \in Steps /\ kind \in Kinds
  BY DEF Steps, InTransaction, Kinds
<1>5. vectors \in Seq(Texts \cup {None})
  BY <1>3, UnembeddedIsSeq
<1>6. step = "embed" => Len(vectors) < Len(texts) /\ vectors = SubSeq(texts, 1, Len(vectors))
  <2>1. SUFFICES ASSUME step = "embed"
                 PROVE  Len(vectors) < Len(texts) /\ vectors = SubSeq(texts, 1, Len(vectors))
    OBVIOUS
  <2>2. texts # <<>> /\ vectors = <<>> /\ Len(vectors) = 0
    BY <2>1
  <2>3. Len(texts) \in Nat \ {0}
    BY <1>3, <2>2, EmptySeq
  <2>4. SubSeq(texts, 1, 0) = <<>>
    BY SubSeqEmpty
  <2>. HIDE DEF vectors
  <2>. QED  BY <2>2, <2>3, <2>4
<1>7. step = "org" => vectors = texts \/ vectors = Unembedded(texts)
  OBVIOUS
<1>. HIDE DEF step, vectors, x
<1>8. /\ x \in RunStates /\ x.step = step /\ x.org = None
      /\ x.payload = {} /\ x.texts = texts /\ x.vectors = vectors
  BY <1>3, <1>4, <1>5 DEF x, NewRun, RunStates
<1>9. RunOK(r, x.step, x, organisations)
  BY <1>4, <1>6, <1>7, <1>8 DEF RunOK, InTransaction, Valid
<1>10. run[r].step # "done" /\ r # None
  BY IngestAssumption DEF ReadChunks, At
<1>11. faults' \in 0 .. MaxFaults /\ UNCHANGED <<organisations, claims, chunks, setting>>
  BY DEF IInv, IngestTypeOK, ReadChunks
<1>. QED  BY <1>2, <1>4, <1>8, <1>9, <1>10, <1>11, Becoming

LEMMA StartKeeps == ASSUME IInv, NEW r \in Runs, Start(r) PROVE IInv'
<1>1. CASE StartClaims(r)
  BY <1>1, StartClaimsKeeps
<1>2. CASE StartChunks(r)
  <2>1. PICK commit \in BOOLEAN : ReadChunks(r, "chunks", commit, commit)
    BY <1>2 DEF StartChunks
  <2>. QED  BY <2>1, ReadChunksKeeps
<1>3. CASE StartUpload(r)
  <2>1. setting.key \in BOOLEAN
    BY IngestAssumption DEF IInv, IngestTypeOK
  <2>. QED  BY <1>3, <2>1, ReadChunksKeeps DEF StartUpload
<1>. QED  BY <1>1, <1>2, <1>3 DEF Start

-----------------------------------------------------------------------------
(* A run that only moves *)

LEMMA MovingKeeps ==
    ASSUME IInv, NEW r \in Runs, NEW step \in Steps, Goes(r, step),
           UNCHANGED <<organisations, claims, chunks, setting>>,
           faults' \in 0 .. MaxFaults,
           run[r].step # "done",
           step = "done" => ~run[r].commit,
           step \in InTransaction /\ run[r].org = r => run[r].step \in InTransaction,
           RunOK(r, step, run[r], organisations)
    PROVE  IInv'
<1>. DEFINE q == run[r]  x == [q EXCEPT !.step = step]
<1>1. q \in RunStates /\ run' = [run EXCEPT ![r] = x]
  BY DEF IInv, IngestTypeOK, Goes
<1>. HIDE DEF x
<1>2. /\ x \in RunStates /\ x.step = step /\ x.commit = q.commit /\ x.payload = q.payload
      /\ x.texts = q.texts /\ x.vectors = q.vectors /\ x.org = q.org
  BY <1>1, Stepping DEF x
<1>3. RunOK(r, x.step, x, organisations)
  BY <1>2 DEF RunOK
<1>4. x.org = r /\ x.step \in InTransaction => HoldsKey(r)
  BY <1>2 DEF HoldsKey
<1>. QED  BY <1>1, <1>2, <1>3, <1>4, Becoming

LEMMA ValidateKeeps == ASSUME IInv, NEW r \in Runs, Validate(r) PROVE IInv'
<1>. DEFINE step == IF Valid(run[r].payload) THEN "org" ELSE "refused"
<1>1. Goes(r, step) /\ UNCHANGED <<organisations, claims, chunks, setting>>
  BY DEF Validate
<1>2. faults' \in 0 .. MaxFaults /\ run[r].step = "validate"
  BY DEF IInv, IngestTypeOK, Validate, At
<1>3. step \in Steps /\ step \in {"org", "refused"}
  BY DEF Steps, InTransaction, Ended, Errors
<1>4. step = "org" => Valid(run[r].payload)
  OBVIOUS
<1>. HIDE DEF step
<1>5. RunOK(r, step, run[r], organisations)
  BY <1>2, <1>3, <1>4 DEF IInv, RunsInv, RunOK, InTransaction
<1>6. run[r].org # r
  BY <1>2, IngestAssumption DEF IInv, RunsInv, RunOK
<1>7. run[r].step # "done" /\ step # "done"
  BY <1>2, <1>3
<1>. QED  BY <1>1, <1>2, <1>3, <1>5, <1>6, <1>7, MovingKeeps

LEMMA KeyMissingKeeps == ASSUME IInv, NEW r \in Runs, KeyMissing(r) PROVE IInv'
<1>1. Goes(r, "failed") /\ UNCHANGED <<organisations, claims, chunks, setting>>
  BY DEF KeyMissing
<1>2. faults' \in 0 .. MaxFaults /\ run[r].step = "embed"
  BY DEF IInv, IngestTypeOK, KeyMissing, At
<1>3. "failed" \in Steps /\ "failed" \notin InTransaction
  BY DEF Steps, InTransaction, Ended, Errors
<1>4. RunOK(r, "failed", run[r], organisations)
  BY <1>2 DEF IInv, RunsInv, RunOK, InTransaction
<1>. QED  BY <1>1, <1>2, <1>3, <1>4, MovingKeeps

LEMMA OutageKeeps == ASSUME IInv, NEW r \in Runs, Outage(r) PROVE IInv'
<1>1. Goes(r, "failed") /\ UNCHANGED <<organisations, claims, chunks, setting>>
  BY DEF Outage
<1>2. faults' \in 0 .. MaxFaults
  BY IngestAssumption DEF IInv, IngestTypeOK, Outage, Fault
<1>3. "failed" \in Steps /\ "failed" \notin InTransaction
  BY DEF Steps, InTransaction, Ended, Errors
<1>4. run[r].step \in {"embed"} \cup InTransaction
  BY DEF Outage
<1>5. run[r].step # "done"
  BY <1>4 DEF InTransaction
<1>6. RunOK(r, "failed", run[r], organisations)
  BY <1>4 DEF IInv, RunsInv, RunOK, InTransaction
<1>. QED  BY <1>1, <1>2, <1>3, <1>5, <1>6, MovingKeeps

\* A flush lets nothing pass but admitted claims, and no chunk.
LEMMA FlushKeeps == ASSUME IInv, NEW r \in Runs, Flush(r) PROVE IInv'
<1>. DEFINE q == run[r]  step == Flushed(q)
<1>1. Goes(r, step) /\ UNCHANGED <<organisations, claims, chunks, setting>>
  BY DEF Flush
<1>2. faults' \in 0 .. MaxFaults /\ q.step = "flush"
  BY DEF IInv, IngestTypeOK, Flush, At
<1>3. RunOK(r, q.step, q, organisations)
  BY DEF IInv, RunsInv
<1>4. \A claim \in q.payload : ChecksHold(RowFromClaim(claim))
  BY <1>2, <1>3, ContractImpliesChecks DEF RunOK, Valid
<1>5. Derived \notin DataSources \cup {None}
  BY IngestAssumption
<1>6. /\ step \in {"dataError", "foreignKeyViolation", "commit"}
      /\ step = "commit" => q.texts = <<>>
  BY <1>4, <1>5 DEF Flushed, DocumentUuid
<1>. HIDE DEF step
<1>7. step \in Steps /\ step # "done"
  BY <1>6 DEF Steps, InTransaction, Ended, Errors
<1>8. RunOK(r, step, q, organisations)
  BY <1>2, <1>3, <1>6 DEF RunOK, InTransaction
<1>9. q.step # "done" /\ q.step \in InTransaction
  BY <1>2 DEF InTransaction
<1>. QED  BY <1>1, <1>2, <1>7, <1>8, <1>9, MovingKeeps

-----------------------------------------------------------------------------
(* The organisation *)

\* A run knows its organisation and goes on to write.
LEMMA SeatingKeeps ==
    ASSUME IInv, NEW r \in Runs, NEW o \in Makers, run[r].step \in {"org", "insertOrg"},
           run' = [run EXCEPT ![r].org = o, ![r].step = Written(run[r].kind)],
           UNCHANGED <<organisations, claims, chunks, faults, setting>>,
           (o = r /\ organisations = {}) \/ o \in organisations,
           o = r => \A s \in Runs \ {r} : ~HoldsKey(s)
    PROVE  IInv'
<1>. DEFINE q == run[r]  x == [q EXCEPT !.org = o, !.step = Written(q.kind)]
<1>1. q \in RunStates /\ run' = [run EXCEPT ![r] = x]
  BY DEF IInv, IngestTypeOK
<1>. HIDE DEF x
<1>2. /\ x \in RunStates /\ x.step \in {"delete", "flush"}
      /\ x.org = o /\ x.payload = q.payload /\ x.texts = q.texts /\ x.vectors = q.vectors
  <2>1. Written(q.kind) \in {"delete", "flush"} /\ Written(q.kind) \in Steps
    BY DEF Written, Steps, InTransaction
  <2>. QED  BY <1>1, <2>1 DEF x, RunStates
<1>3. RunOK(r, q.step, q, organisations)
  BY DEF IInv, RunsInv
<1>4. RunOK(r, x.step, x, organisations)
  BY <1>2, <1>3 DEF RunOK, InTransaction
<1>5. faults' \in 0 .. MaxFaults
  BY DEF IInv, IngestTypeOK
<1>6. run[r].step # "done" /\ x.step # "done"
  BY <1>2
<1>. QED  BY <1>1, <1>2, <1>4, <1>5, <1>6, Becoming

LEMMA FindOrgKeeps == ASSUME IInv, NEW r \in Runs, FindOrg(r) PROVE IInv'
<1>1. run[r].step = "org" /\ UNCHANGED <<organisations, claims, chunks, faults, setting>>
  BY DEF FindOrg, At
<1>2. CASE organisations = {} /\ Goes(r, "insertOrg")
  <2>1. faults' \in 0 .. MaxFaults /\ "insertOrg" \in Steps
    BY <1>1 DEF IInv, IngestTypeOK, Steps, InTransaction
  <2>2. RunOK(r, "insertOrg", run[r], organisations)
    BY <1>1 DEF IInv, RunsInv, RunOK, InTransaction
  <2>3. run[r].step # "done" /\ run[r].step \in InTransaction
    BY <1>1 DEF InTransaction
  <2>. QED  BY <1>1, <1>2, <2>1, <2>2, <2>3, MovingKeeps
<1>3. CASE \E o \in organisations :
              run' = [run EXCEPT ![r].org = o, ![r].step = Written(run[r].kind)]
  <2>1. PICK o \in organisations :
            run' = [run EXCEPT ![r].org = o, ![r].step = Written(run[r].kind)]
    BY <1>3
  <2>2. o \in Makers
    BY DEF IInv, IngestTypeOK
  <2>3. o # r
    BY <1>1 DEF IInv, OrgInv, At
  <2>. QED  BY <1>1, <2>1, <2>2, <2>3, SeatingKeeps
<1>. QED  BY <1>2, <1>3 DEF FindOrg

LEMMA InsertOrgKeeps == ASSUME IInv, NEW r \in Runs, InsertOrg(r) PROVE IInv'
<1>1. /\ run[r].step = "insertOrg" /\ UNCHANGED <<organisations, claims, chunks, faults, setting>>
      /\ \A s \in Runs \ {r} : ~HoldsKey(s)
  BY DEF InsertOrg, At
<1>2. CASE IsTaken /\ Goes(r, "uniqueViolation")
  <2>1. /\ faults' \in 0 .. MaxFaults /\ "uniqueViolation" \in Steps
        /\ "uniqueViolation" \notin InTransaction
    BY <1>1 DEF IInv, IngestTypeOK, Steps, InTransaction, Ended, Errors
  <2>2. RunOK(r, "uniqueViolation", run[r], organisations)
    BY <1>1 DEF IInv, RunsInv, RunOK, InTransaction
  <2>. QED  BY <1>1, <1>2, <2>1, <2>2, MovingKeeps
<1>3. CASE ~IsTaken /\ run' = [run EXCEPT ![r].org = r, ![r].step = Written(run[r].kind)]
  <2>1. organisations = {} /\ r \in Makers
    BY <1>3 DEF IsTaken, Makers
  <2>. QED  BY <1>1, <1>3, <2>1, SeatingKeeps
<1>. QED  BY <1>2, <1>3 DEF InsertOrg

-----------------------------------------------------------------------------
(* The rest of the transaction *)

LEMMA DeleteChunksKeeps == ASSUME IInv, NEW r \in Runs, DeleteChunks(r) PROVE IInv'
<1>. DEFINE q == run[r]  x == [q EXCEPT !.doomed = Present, !.step = "flush"]
<1>1. /\ q \in RunStates /\ run' = [run EXCEPT ![r] = x] /\ q.step = "delete"
      /\ UNCHANGED <<organisations, claims, chunks, faults, setting>>
      /\ faults' \in 0 .. MaxFaults
  BY DEF IInv, IngestTypeOK, DeleteChunks, At
<1>2. Present \subseteq Chunks /\ "flush" \in Steps
  BY DEF Present, Steps, InTransaction
<1>. HIDE DEF x
<1>3. /\ x \in RunStates /\ x.step = "flush" /\ x.payload = q.payload
      /\ x.texts = q.texts /\ x.vectors = q.vectors /\ x.org = q.org
  BY <1>1, <1>2 DEF x, RunStates
<1>4. RunOK(r, q.step, q, organisations)
  BY DEF IInv, RunsInv
<1>5. RunOK(r, x.step, x, organisations)
  BY <1>1, <1>3, <1>4 DEF RunOK, InTransaction
<1>6. x.org = r /\ x.step \in InTransaction => HoldsKey(r)
  BY <1>1, <1>3 DEF HoldsKey, InTransaction
<1>7. q.step # "done" /\ x.step # "done"
  BY <1>1, <1>3
<1>. QED  BY <1>1, <1>3, <1>5, <1>6, <1>7, Becoming

\* A response is put in the order of its inputs, whatever order it came in.
LEMMA ResponsesAreOrdered ==
    ASSUME NEW batch \in Seq(Texts), NEW rows \in Responses(batch)
    PROVE  InOrder(rows) = batch
<1>1. Len(batch) \in Nat /\ DOMAIN batch = 1 .. Len(batch) /\ batch \in [1 .. Len(batch) -> Texts]
  BY LenProperties
<1>2. PICK p \in Orders(batch) :
          rows = [j \in Positions(batch) |-> [index |-> p[j], embedding |-> batch[p[j]]]]
  BY DEF Responses
<1>3. DOMAIN rows = 1 .. Len(batch)
  BY <1>2 DEF Positions
<1>4. ASSUME NEW i \in 1 .. Len(batch)
      PROVE  rows[CHOOSE j \in DOMAIN rows : rows[j].index = i].embedding = batch[i]
  <2>1. PICK k \in 1 .. Len(batch) : p[k] = i
    BY <1>2 DEF Orders, Positions
  <2>2. k \in DOMAIN rows /\ rows[k].index = i
    BY <1>2, <1>3, <2>1 DEF Positions
  <2>. DEFINE j == CHOOSE l \in DOMAIN rows : rows[l].index = i
  <2>3. j \in DOMAIN rows /\ rows[j].index = i
    BY <2>2
  <2>. HIDE DEF j
  <2>4. rows[j].index = p[j] /\ rows[j].embedding = batch[p[j]]
    BY <1>2, <1>3, <2>3 DEF Positions
  <2>5. rows[j].embedding = batch[i]
    BY <2>3, <2>4
  <2>. QED  BY <2>5 DEF j
<1>5. InOrder(rows) = [i \in 1 .. Len(batch) |-> batch[i]]
  BY <1>3, <1>4 DEF InOrder
<1>. QED  BY <1>1, <1>5

\* What a run is with vectors for its first m texts.
Supplied(q, m) ==
    [q EXCEPT !.vectors = SubSeq(q.texts, 1, m),
              !.step = IF m < Len(q.texts) THEN "embed" ELSE "org"]

\* One request: a response is sane and its vectors are the next ones, or the run fails.
LEMMA PostResult ==
  ASSUME IInv, NEW r \in Runs, Post(r)
  PROVE  \/ Goes(r, "failed")
         \/ \E m \in Len(run[r].vectors) + 1 .. Len(run[r].texts) :
               run' = [run EXCEPT ![r] = Supplied(run[r], m)]
<1>. DEFINE q == run[r]  n == Len(q.vectors)  m == Upto(q)
<1>1. /\ q \in RunStates /\ q.step = "embed"
  BY DEF IInv, IngestTypeOK, Post
<1>2. /\ q.texts \in Seq(Texts) /\ q.vectors \in Seq(Texts \cup {None})
      /\ Len(q.texts) \in Nat /\ n \in Nat
  BY <1>1, LenProperties DEF RunStates
<1>3. RunOK(r, q.step, q, organisations)
  BY DEF IInv, RunsInv
<1>4. n < Len(q.texts) /\ q.vectors = SubSeq(q.texts, 1, n) /\ q.org = None /\ Valid(q.payload)
  BY <1>1, <1>3 DEF RunOK
<1>5. m \in n + 1 .. Len(q.texts)
  BY <1>2, <1>4, IngestAssumption DEF Upto
<1>6. Batch(q) \in Seq(Texts)
  <2>1. \A i \in n + 1 .. m : q.texts[i] \in Texts
    BY <1>2, <1>5, ElementOfSeq
  <2>. QED  BY <1>2, <1>5, <2>1, SubSeqProperties DEF Batch
<1>7. PICK rows \in Responses(Batch(q)) :
          \/ run' = [run EXCEPT ![r] = Take(q, rows)]
          \/ \E bad \in Spoilt(rows) : run' = [run EXCEPT ![r] = Take(q, bad)]
  BY DEF Post
<1>8. CASE run' = [run EXCEPT ![r] = [q EXCEPT !.step = "failed"]]
  BY <1>8 DEF Goes
<1>9. CASE run' = [run EXCEPT ![r] = [q EXCEPT !.vectors = q.vectors \o InOrder(rows),
                                   !.step = IF m < Len(q.texts) THEN "embed" ELSE "org"]]
  <2>. DEFINE v == q.vectors \o InOrder(rows)
  <2>1. v = SubSeq(q.texts, 1, m)
    <3>1. InOrder(rows) = SubSeq(q.texts, n + 1, m)
      BY <1>6, <1>7, ResponsesAreOrdered DEF Batch
    <3>2. 1 \in 1 .. Len(q.texts) + 1 /\ n \in 1 - 1 .. Len(q.texts) /\ m \in n .. Len(q.texts)
      BY <1>2, <1>4, <1>5
    <3>3. SubSeq(q.texts, 1, n) \o SubSeq(q.texts, n + 1, m) = SubSeq(q.texts, 1, m)
      BY <1>2, <3>2, ConcatAdjacentSubSeq
    <3>. QED  BY <1>4, <3>1, <3>3
  <2>. HIDE DEF v
  <2>2. run' = [run EXCEPT ![r] = Supplied(q, m)]
    BY <1>9, <2>1 DEF Supplied, v
  <2>. QED  BY <1>5, <2>2
<1>10. \A bad \in Spoilt(rows) : ~Sane(bad)
  <2>1. SUFFICES ASSUME NEW bad \in Spoilt(rows) PROVE ~Sane(bad)
    OBVIOUS
  <2>2. PICK j \in DOMAIN rows : bad = [rows EXCEPT ![j].embedding = Zero]
    BY DEF Spoilt
  <2>3. DOMAIN bad = DOMAIN rows /\ bad[j] = [rows[j] EXCEPT !.embedding = Zero]
    BY <2>2
  <2>4. PICK p \in Orders(Batch(q)) :
            rows = [i \in Positions(Batch(q)) |-> [index |-> p[i], embedding |-> Batch(q)[p[i]]]]
    BY <1>7 DEF Responses
  <2>5. rows[j] = [index |-> p[j], embedding |-> Batch(q)[p[j]]]
    BY <2>2, <2>4
  <2>6. bad[j].embedding = Zero
    BY <2>3, <2>5
  <2>. QED  BY <2>2, <2>3, <2>6 DEF Sane
<1>. QED  BY <1>7, <1>8, <1>9, <1>10 DEF Take

LEMMA PostKeeps == ASSUME IInv, NEW r \in Runs, Post(r) PROVE IInv'
<1>. DEFINE q == run[r]  n == Len(q.vectors)
<1>1. /\ q \in RunStates /\ q.step = "embed"
      /\ UNCHANGED <<organisations, claims, chunks, setting>>
      /\ faults' \in 0 .. MaxFaults
  BY IngestAssumption DEF IInv, IngestTypeOK, Post, Fault
<1>2. /\ q.texts \in Seq(Texts) /\ Len(q.texts) \in Nat /\ n \in Nat
  BY <1>1, LenProperties DEF RunStates
<1>3. RunOK(r, q.step, q, organisations)
  BY DEF IInv, RunsInv
<1>4. q.org = None /\ Valid(q.payload)
  BY <1>1, <1>3 DEF RunOK
<1>5. CASE Goes(r, "failed")
  <2>1. "failed" \in Steps /\ "failed" \notin InTransaction
    BY DEF Steps, InTransaction, Ended, Errors
  <2>2. RunOK(r, "failed", q, organisations)
    BY <1>1, <1>3 DEF RunOK, InTransaction
  <2>. QED  BY <1>1, <1>5, <2>1, <2>2, MovingKeeps
<1>6. ASSUME NEW m \in n + 1 .. Len(q.texts), run' = [run EXCEPT ![r] = Supplied(q, m)]
      PROVE  IInv'
  <2>. DEFINE v == SubSeq(q.texts, 1, m)
              step == IF m < Len(q.texts) THEN "embed" ELSE "org"
              x == Supplied(q, m)
  <2>2. v \in Seq(Texts) /\ Len(v) = m
    <3>1. \A i \in 1 .. m : q.texts[i] \in Texts
      BY <1>2, ElementOfSeq
    <3>. QED  BY <1>2, <3>1, SubSeqProperties
  <2>3. v \in Seq(Texts \cup {None})
    BY <2>2, SeqMonotonic
  <2>4. step = "org" => v = q.texts
    <3>1. step = "org" => m = Len(q.texts)
      BY <1>2
    <3>. QED  BY <1>2, <3>1, SubSeqFull
  <2>5. step = "embed" => Len(v) < Len(q.texts) /\ v = SubSeq(q.texts, 1, Len(v))
    BY <1>2, <2>2
  <2>6. step \in {"embed", "org"} /\ step \in Steps
    BY DEF Steps, InTransaction
  <2>7. run' = [run EXCEPT ![r] = x]
    BY <1>6
  <2>. HIDE DEF v, step, x
  <2>8. /\ x \in RunStates /\ x.step = step /\ x.vectors = v /\ x.texts = q.texts
        /\ x.payload = q.payload /\ x.org = q.org
    BY <1>1, <2>3, <2>6 DEF x, v, step, Supplied, RunStates
  <2>9. RunOK(r, x.step, x, organisations)
    BY <1>4, <2>4, <2>5, <2>6, <2>8 DEF RunOK, InTransaction
  <2>10. q.step # "done" /\ x.step # "done" /\ x.org # r
    BY <1>1, <1>4, <2>6, <2>8, IngestAssumption
  <2>. QED  BY <1>1, <2>7, <2>8, <2>9, <2>10, Becoming
<1>. QED  BY <1>5, <1>6, PostResult

\* The end of a run that is to persist.  Whoever else is in a transaction knew the
\* organisation as committed, or this run could not hold its key.
LEMMA CommitKeeps ==
    ASSUME IInv, NEW r \in Runs, Finish(r), run[r].commit PROVE IInv'
<1>. DEFINE q == run[r]  x == [q EXCEPT !.step = "done"]
<1>1. /\ q \in RunStates /\ q.step = "commit" /\ run' = [run EXCEPT ![r] = x]
      /\ UNCHANGED <<faults, setting>>
      /\ organisations' = organisations \cup {q.org}
      /\ claims' = claims \cup RowsOf(r)
  BY DEF IInv, IngestTypeOK, Finish, Goes, Persists, At
<1>. HIDE DEF x
<1>2. /\ x \in RunStates /\ x.step = "done" /\ x.commit = q.commit /\ x.payload = q.payload
      /\ x.texts = q.texts /\ x.vectors = q.vectors /\ x.org = q.org
  <2>1. "done" \in Steps
    BY DEF Steps, Ended
  <2>. QED  BY <1>1, <2>1 DEF x, RunStates
<1>3. run' \in [Runs -> RunStates] /\ run'[r] = x /\ \A s \in Runs \ {r} : run'[s] = run[s]
  BY <1>1, <1>2 DEF IInv, IngestTypeOK
<1>4. RunOK(r, q.step, q, organisations)
  BY DEF IInv, RunsInv
<1>5. q.texts = <<>> /\ Valid(q.payload) /\ (q.vectors = q.texts \/ q.vectors = Unembedded(q.texts))
  BY <1>1, <1>4 DEF RunOK, InTransaction
<1>6. (q.org = r /\ organisations = {}) \/ q.org \in organisations
  BY <1>1, <1>4 DEF RunOK
<1>7. q.org \in Makers
  BY <1>6 DEF IInv, IngestTypeOK, Makers
<1>8. \A c \in Chunks : /\ chunks'[c] \in ChunkStates
                        /\ chunks'[c].document = chunks[c].document
  <2>1. PICK ids \in SUBSET {c \in Chunks : chunks[c].status = "absent"} :
            Cardinality(ids) = Len(q.texts) /\ chunks' = ChunksAfter(q, ids)
    BY DEF Finish, Persists
  <2>2. ids = {}
    <3>1. IsFiniteSet(ids)
      BY IngestAssumption, FS_Subset
    <3>2. Cardinality(ids) = 0
      BY <1>5, <2>1
    <3>. QED  BY <3>1, <3>2, FS_EmptySet
  <2>3. \A c \in Chunks : chunks'[c] = IF c \in q.doomed THEN [chunks[c] EXCEPT !.status = "deleted"]
                                      ELSE chunks[c]
    BY <2>1, <2>2 DEF ChunksAfter
  <2>. QED  BY <2>3 DEF IInv, IngestTypeOK, ChunkStates
<1>9. chunks' \in [Chunks -> ChunkStates]
  <2>1. chunks' = [c \in Chunks |-> chunks'[c]]
    BY DEF Finish, Persists, ChunksAfter
  <2>. QED  BY <1>8, <2>1
<1>10. IngestTypeOK'
  <2>1. RowsOf(r) \subseteq [run : Runs, row : {RowFromClaim(c) : c \in Candidates}, org : Makers]
    BY <1>1, <1>7 DEF RowsOf, RunStates
  <2>. QED  BY <1>1, <1>3, <1>7, <1>9, <2>1 DEF IInv, IngestTypeOK
<1>11. RunsInv'
  <2>1. SUFFICES ASSUME NEW s \in Runs PROVE RunOK(s, run'[s].step, run'[s], organisations')
    BY DEF RunsInv
  <2>2. CASE s = r
    BY <1>1, <1>2, <1>3, <1>5, <2>2 DEF RunOK, InTransaction
  <2>3. CASE s # r
    <3>1. run'[s] = run[s] /\ RunOK(s, run[s].step, run[s], organisations)
      BY <1>3, <2>3 DEF IInv, RunsInv
    <3>2. ASSUME run[s].step \in {"delete", "flush", "commit"}, run[s].org = s, organisations = {}
          PROVE  FALSE
      <4>1. HoldsKey(s) /\ HoldsKey(r)
        BY <1>1, <1>6, <3>2 DEF HoldsKey, InTransaction
      <4>. QED  BY <2>3, <4>1 DEF IInv, KeyInv
    <3>. QED  BY <1>1, <3>1, <3>2 DEF RunOK
  <2>. QED  BY <2>2, <2>3
<1>12. KeyInv'
  <2>1. \A s \in Runs : HoldsKey(s)' => HoldsKey(s)
    BY <1>2, <1>3 DEF HoldsKey, InTransaction
  <2>. QED  BY <2>1 DEF IInv, KeyInv
<1>13. OrgInv'
  <2>1. \A s \in Runs : s \in organisations' => At(s, "done")'
    BY <1>1, <1>2, <1>3, <1>6 DEF IInv, OrgInv, At
  <2>2. \E o \in Makers : organisations' = {o}
    BY <1>1, <1>6, <1>7 DEF IInv, OrgInv
  <2>. QED  BY <2>1, <2>2 DEF OrgInv
<1>14. ClaimsInv'
  <2>1. \A s \in Runs : RowsOf(s)' = RowsOf(s)
    BY <1>2, <1>3 DEF RowsOf
  <2>2. \A y \in RowsOf(r) : y.run = r
    BY DEF RowsOf
  <2>3. \A y \in claims : y.run \in Runs \ {r}
    BY <1>1 DEF IInv, IngestTypeOK, ClaimsInv, At
  <2>4. \A y \in claims' : At(y.run, "done")' /\ run'[y.run].commit /\ y \in RowsOf(y.run)'
    <3>1. \A y \in claims : At(y.run, "done")' /\ run'[y.run].commit /\ y \in RowsOf(y.run)'
      BY <1>3, <2>1, <2>3 DEF IInv, ClaimsInv, At
    <3>2. \A y \in RowsOf(r) : At(y.run, "done")' /\ run'[y.run].commit /\ y \in RowsOf(y.run)'
      BY <1>2, <1>3, <2>1, <2>2 DEF At
    <3>. QED  BY <1>1, <3>1, <3>2
  <2>5. \A s \in Runs : At(s, "done")' /\ run'[s].commit => RowsOf(s)' \subseteq claims'
    BY <1>1, <1>3, <2>1 DEF IInv, ClaimsInv, At
  <2>. QED  BY <2>4, <2>5 DEF ClaimsInv
<1>15. ChunksInv'
  BY <1>8 DEF IInv, ChunksInv
<1>. QED  BY <1>10, <1>11, <1>12, <1>13, <1>14, <1>15 DEF IInv

LEMMA FinishKeeps == ASSUME IInv, NEW r \in Runs, Finish(r) PROVE IInv'
<1>1. CASE run[r].commit
  BY <1>1, CommitKeeps
<1>2. CASE ~run[r].commit
  <2>1. /\ Goes(r, "done") /\ run[r].step = "commit"
        /\ UNCHANGED <<organisations, claims, chunks, setting>>
        /\ faults' \in 0 .. MaxFaults
    BY <1>2 DEF IInv, IngestTypeOK, Finish, Persists, At
  <2>2. "done" \in Steps /\ "done" \notin InTransaction
    BY DEF Steps, Ended, InTransaction
  <2>3. RunOK(r, "done", run[r], organisations)
    BY <1>2, <2>1 DEF IInv, RunsInv, RunOK, InTransaction
  <2>. QED  BY <1>2, <2>1, <2>2, <2>3, MovingKeeps
<1>. QED  BY <1>1, <1>2

-----------------------------------------------------------------------------
(* Every step *)

\* What touches no run, no claim and no organisation.
LEMMA ChunksChange ==
    ASSUME IInv, UNCHANGED <<organisations, claims, run, setting>>, faults' \in 0 .. MaxFaults,
           chunks' \in [Chunks -> ChunkStates], \A c \in Chunks : chunks'[c].document # Derived
    PROVE  IInv'
<1>1. IngestTypeOK'
  BY DEF IInv, IngestTypeOK
<1>2. RunsInv' /\ KeyInv' /\ OrgInv' /\ ChunksInv'
  BY DEF IInv, RunsInv, KeyInv, HoldsKey, OrgInv, At, ChunksInv
<1>3. ClaimsInv'
  BY DEF IInv, ClaimsInv, At, RowsOf
<1>. QED  BY <1>1, <1>2, <1>3 DEF IInv

LEMMA ChunkStepsKeep ==
    ASSUME IInv, NEW c \in Chunks, WriteChunk(c) \/ EmbedChunk(c) PROVE IInv'
<1>1. UNCHANGED <<organisations, claims, run, faults, setting>> /\ faults' \in 0 .. MaxFaults
  BY DEF IInv, IngestTypeOK, WriteChunk, EmbedChunk
<1>2. \E x \in ChunkStates : x.document # Derived /\ chunks' = [chunks EXCEPT ![c] = x]
  <2>1. CASE WriteChunk(c)
    <3>. DEFINE x == [status |-> "present", document |-> DocumentOf[c], embedded |-> FALSE]
    <3>1. DocumentOf[c] \in DataSources \cup {None}
      BY IngestAssumption
    <3>2. x \in ChunkStates /\ x.document # Derived
      BY <3>1, IngestAssumption DEF ChunkStates
    <3>3. chunks' = [chunks EXCEPT ![c] = x]
      BY <2>1 DEF WriteChunk
    <3>. QED  BY <3>2, <3>3
  <2>2. CASE EmbedChunk(c)
    <3>. DEFINE x == [chunks[c] EXCEPT !.embedded = TRUE]
    <3>1. x \in ChunkStates /\ x.document # Derived
      BY DEF IInv, IngestTypeOK, ChunkStates, ChunksInv
    <3>2. chunks' = [chunks EXCEPT ![c] = x]
      BY <2>2 DEF EmbedChunk
    <3>. QED  BY <3>1, <3>2
  <2>. QED  BY <2>1, <2>2
<1>3. chunks' \in [Chunks -> ChunkStates] /\ \A d \in Chunks : chunks'[d].document # Derived
  BY <1>2 DEF IInv, IngestTypeOK, ChunksInv
<1>. QED  BY <1>1, <1>3, ChunksChange

LEMMA NextKeeps == ASSUME IInv, [IngestNext \/ FailsElsewhere]_ingestVars PROVE IInv'
<1>1. ASSUME NEW r \in Runs, Start(r) PROVE IInv'
  BY <1>1, StartKeeps
<1>2. ASSUME NEW r \in Runs, Progress(r) PROVE IInv'
  BY <1>2, ValidateKeeps, KeyMissingKeeps, PostKeeps, FindOrgKeeps, InsertOrgKeeps,
     DeleteChunksKeeps, FlushKeeps, FinishKeeps DEF Progress
<1>3. ASSUME NEW r \in Runs, Outage(r) PROVE IInv'
  BY <1>3, OutageKeeps
<1>4. ASSUME NEW c \in Chunks, WriteChunk(c) \/ EmbedChunk(c) PROVE IInv'
  BY <1>4, ChunkStepsKeep
<1>5. ASSUME FailsElsewhere \/ UNCHANGED ingestVars PROVE IInv'
  <2>1. UNCHANGED <<organisations, claims, chunks, run, setting>>
    BY <1>5 DEF FailsElsewhere, ingestVars
  <2>2. faults' \in 0 .. MaxFaults
    BY <1>5, IngestAssumption DEF FailsElsewhere, Fault, ingestVars, IInv, IngestTypeOK
  <2>. QED  BY <2>1, <2>2, ChunksChange DEF IInv, IngestTypeOK, ChunksInv
<1>. QED  BY <1>1, <1>2, <1>3, <1>4, <1>5 DEF IngestNext

(***************************************************************************)
(* What the runs do to the store keeps the invariant, searches or not.     *)
(***************************************************************************)
THEOREM IngestIsInductive == Spec => []IInv
<1>1. IInv /\ [IngestNext \/ FailsElsewhere]_ingestVars => IInv'
  BY NextKeeps
<1>. QED  BY <1>1, InitIInv, SearchesOnlyRead, PTL DEF IngestSpec

\* The variables of the ingest keep their types.
THEOREM IngestTypeCorrect == Spec => []IngestTypeOK
<1>1. IInv => IngestTypeOK
  BY DEF IInv
<1>. QED  BY <1>1, IngestIsInductive, PTL

(***************************************************************************)
(* _validate is sufficient: no run that passed it fails a CHECK of the     *)
(* table, whatever the payload.                                            *)
(***************************************************************************)
THEOREM ValidationSuffices == Spec => []ValidatedClaimsPassTheChecks
<1>1. IInv => ValidatedClaimsPassTheChecks
  BY DEF IInv, RunsInv, RunOK, ValidatedClaimsPassTheChecks, At
<1>. QED  BY <1>1, IngestIsInductive, PTL

(***************************************************************************)
(* The store has all claims of a run or none, and each is one that the     *)
(* contract admits.                                                        *)
(***************************************************************************)
THEOREM ClaimsAreWhole == Spec => []StoredClaimsAreWhole
<1>1. IInv => StoredClaimsAreWhole
  <2>1. SUFFICES ASSUME IInv, NEW r \in Runs, NEW y \in claims, y.run = r
                 PROVE  /\ At(r, "done") /\ run[r].commit
                        /\ {x.row : x \in {z \in claims : z.run = r}}
                               = {RowFromClaim(c) : c \in run[r].payload}
                        /\ \A c \in run[r].payload : ContractAdmits(c)
    BY DEF StoredClaimsAreWhole
  <2>2. At(r, "done") /\ run[r].commit
    BY <2>1 DEF IInv, ClaimsInv
  <2>3. {z \in claims : z.run = r} = RowsOf(r)
    <3>1. \A z \in RowsOf(r) : z.run = r
      BY DEF RowsOf
    <3>2. \A z \in claims : z.run = r => z \in RowsOf(r)
      BY <2>1 DEF IInv, ClaimsInv
    <3>3. RowsOf(r) \subseteq claims
      BY <2>1, <2>2 DEF IInv, ClaimsInv
    <3>. QED  BY <3>1, <3>2, <3>3
  <2>4. {x.row : x \in RowsOf(r)} = {RowFromClaim(c) : c \in run[r].payload}
    <3>1. ASSUME NEW c \in run[r].payload
          PROVE  \E x \in RowsOf(r) : x.row = RowFromClaim(c)
      <4>. DEFINE x == [run |-> r, row |-> RowFromClaim(c), org |-> run[r].org]
      <4>1. x \in RowsOf(r) /\ x.row = RowFromClaim(c)
        BY DEF RowsOf
      <4>. QED  BY <4>1
    <3>2. ASSUME NEW x \in RowsOf(r)
          PROVE  \E c \in run[r].payload : x.row = RowFromClaim(c)
      BY DEF RowsOf
    <3>. QED  BY <3>1, <3>2
  <2>5. \A c \in run[r].payload : ContractAdmits(c)
    BY <2>1, <2>2 DEF IInv, RunsInv, RunOK, Valid, At
  <2>. QED  BY <2>2, <2>3, <2>4, <2>5
<1>. QED  BY <1>1, IngestIsInductive, PTL

(***************************************************************************)
(* However many runs are the first to need it, the tenant has one          *)
(* organisation row at most, and no claim refers to another.               *)
(***************************************************************************)
THEOREM OneOrganisation == Spec => []OneOrganisationPerTenant
<1>1. IInv => OneOrganisationPerTenant
  <2>1. SUFFICES ASSUME IInv PROVE OneOrganisationPerTenant
    OBVIOUS
  <2>2. Cardinality(organisations) <= 1
    <3>1. organisations = {} \/ \E o \in Makers : organisations = {o}
      BY <2>1 DEF IInv, OrgInv
    <3>2. CASE organisations = {}
      BY <3>2, FS_EmptySet
    <3>3. CASE \E o \in Makers : organisations = {o}
      BY <3>3, FS_Singleton
    <3>. QED  BY <3>1, <3>2, <3>3
  <2>3. \A x \in claims : x.org \in organisations
    <3>1. SUFFICES ASSUME NEW x \in claims PROVE x.org \in organisations
      OBVIOUS
    <3>2. x.run \in Runs /\ At(x.run, "done") /\ run[x.run].commit /\ x \in RowsOf(x.run)
      BY <2>1 DEF IInv, IngestTypeOK, ClaimsInv
    <3>3. x.org = run[x.run].org
      BY <3>2 DEF RowsOf
    <3>. QED  BY <2>1, <3>2, <3>3 DEF IInv, RunsInv, RunOK, At
  <2>. QED  BY <2>2, <2>3 DEF OneOrganisationPerTenant
<1>. QED  BY <1>1, IngestIsInductive, PTL

(***************************************************************************)
(* Over any number of batches, of any size, and with each response in any  *)
(* order, a text goes to the store with its own vector or with none.       *)
(***************************************************************************)
THEOREM VectorsAreTheirTexts == Spec => []VectorsBelongToTexts
<1>1. IInv => VectorsBelongToTexts
  <2>1. SUFFICES ASSUME IInv, NEW r \in Runs, run[r].step \in InTransaction \cup {"done"}
                 PROVE  /\ Len(run[r].vectors) = Len(run[r].texts)
                        /\ \A i \in DOMAIN run[r].texts :
                               run[r].vectors[i] \in {run[r].texts[i], None}
    BY DEF VectorsBelongToTexts
  <2>2. run[r].texts \in Seq(Texts) /\ run[r].vectors \in Seq(Texts \cup {None})
    BY <2>1 DEF IInv, IngestTypeOK, RunStates
  <2>3. /\ Len(run[r].texts) \in Nat /\ DOMAIN run[r].texts = 1 .. Len(run[r].texts)
        /\ Len(run[r].vectors) \in Nat /\ DOMAIN run[r].vectors = 1 .. Len(run[r].vectors)
    BY <2>2, LenProperties
  <2>4. run[r].vectors = run[r].texts \/ run[r].vectors = Unembedded(run[r].texts)
    BY <2>1 DEF IInv, RunsInv, RunOK
  <2>. QED  BY <2>3, <2>4 DEF Unembedded
<1>. QED  BY <1>1, IngestIsInductive, PTL

-----------------------------------------------------------------------------
(* Why runs end: each goes forward, and their waits do not close.  The rest of *)
(* the argument, that a run which does not wait can move and is scheduled, is  *)
(* the fairness that TLC's run assumes.                                        *)

\* The statement of r waits for the transaction of s: for the unique key, or for a row
\* that s has deleted.
WaitsFor(r, s) ==
    \/ At(r, "insertOrg") /\ s # r /\ HoldsKey(s)
    \/ At(r, "delete") /\ run[s].step \in InTransaction /\ run[s].doomed \cap Present # {}

\* A run waits for an open transaction, never for its own, and a chain of runs that
\* wait for each other has two links at most: whoever has deleted rows has nothing
\* left to wait for, and whoever holds the key at most such a run.
NobodyWaitsInCircles ==
    \A r, s \in Runs : WaitsFor(r, s) =>
        /\ s # r /\ run[s].step \in InTransaction
        /\ \A t \in Runs : WaitsFor(s, t) => \A u \in Runs : ~WaitsFor(t, u)

\* When a run has rows that it will delete.
DoomedOK(q) == q.doomed # {} => q.step \in {"flush", "commit"} \cup Ended

DoomedInv == \A r \in Runs : DoomedOK(run[r])

\* How many steps a run has before it at most; a request to the provider brings
\* some vectors each.
Ahead(step) ==
    CASE step = "validate" -> 6
      [] step = "org" -> 5
      [] step = "insertOrg" -> 4
      [] step = "delete" -> 3
      [] step = "flush" -> 2
      [] step = "commit" -> 1
      [] OTHER -> 0

StepsLeft(q) ==
    IF q.step = "embed" THEN 5 + (Len(q.texts) - Len(q.vectors)) ELSE Ahead(q.step)

\* No run does anything twice: each of its steps, failures included, brings it nearer
\* to its end, whatever the others do.
RunsGoForward ==
    [][\A r \in Runs : ~At(r, "idle") /\ run'[r] # run[r]
          => StepsLeft(run'[r]) < StepsLeft(run[r])]_ingestVars

\* WaitsFor is what the guards of the two waiting statements say.
LEMMA GuardsWait ==
  ASSUME NEW r \in Runs
  PROVE  /\ At(r, "insertOrg") =>
               ((\A s \in Runs \ {r} : ~HoldsKey(s)) <=> ~\E s \in Runs : WaitsFor(r, s))
         /\ At(r, "delete") =>
               ((\A c \in Present : ~Doomed(c)) <=> ~\E s \in Runs : WaitsFor(r, s))
<1>1. CASE At(r, "insertOrg")
  BY <1>1 DEF WaitsFor, At
<1>2. CASE At(r, "delete")
  BY <1>2 DEF WaitsFor, At, Doomed
<1>. QED  BY <1>1, <1>2 DEF At

Advances(r) ==
    /\ \A q \in Runs \ {r} : run'[q] = run[q]
    /\ DoomedOK(run'[r])
    /\ ~At(r, "idle") => StepsLeft(run'[r]) < StepsLeft(run[r])

\* A run that becomes x.
LEMMA BecomingAdvances ==
  ASSUME IngestTypeOK, NEW r \in Runs, NEW x, run' = [run EXCEPT ![r] = x], DoomedOK(x),
         ~At(r, "idle") => StepsLeft(x) < StepsLeft(run[r])
  PROVE  Advances(r)
  BY DEF Advances, IngestTypeOK

\* A run that fails, whatever it was doing.
LEMMA GoesAdvances ==
  ASSUME IInv, NEW r \in Runs, DoomedOK(run[r]), NEW step \in Steps, Goes(r, step),
         \/ step \in Ended
         \/ At(r, "validate") /\ step = "org"
         \/ At(r, "org") /\ step = "insertOrg"
         \/ At(r, "flush") /\ step = "commit",
         run[r].step \in {"validate", "embed"} \cup InTransaction
  PROVE  Advances(r)
<1>. DEFINE q == run[r]  x == [q EXCEPT !.step = step]
<1>1. q \in RunStates /\ RunOK(r, q.step, q, organisations)
  BY DEF IInv, IngestTypeOK, RunsInv
<1>2. x.step = step /\ x.doomed = q.doomed /\ run' = [run EXCEPT ![r] = x]
  BY <1>1 DEF RunStates, Goes
<1>. HIDE DEF x
<1>3. DoomedOK(x)
  BY <1>2 DEF DoomedOK, At, Ended, Errors
<1>4. StepsLeft(x) < StepsLeft(q)
  <2>1. CASE q.step = "embed"
    <3>1. Len(q.texts) \in Nat /\ Len(q.vectors) \in Nat /\ Len(q.vectors) < Len(q.texts)
      BY <1>1, <2>1, LenProperties DEF RunStates, RunOK
    <3>2. step \in Ended
      BY <2>1 DEF At
    <3>3. StepsLeft(x) = Ahead(step) /\ Ahead(step) = 0
      BY <1>2, <3>2 DEF StepsLeft, Ahead, Ended, Errors
    <3>4. StepsLeft(q) = 5 + (Len(q.texts) - Len(q.vectors))
      BY <2>1 DEF StepsLeft
    <3>5. 0 < 5 + (Len(q.texts) - Len(q.vectors))
      <4>. DEFINE n == Len(q.texts)  k == Len(q.vectors)
      <4>1. n \in Nat /\ k \in Nat /\ k < n
        BY <3>1
      <4>. HIDE DEF n, k
      <4>2. 0 < 5 + (n - k)
        BY <4>1
      <4>. QED  BY <4>2 DEF n, k
    <3>. QED  BY <3>3, <3>4, <3>5, Zenon
  <2>2. CASE q.step # "embed"
    <3>1. step # "embed"
      BY <2>2 DEF Ended, Errors
    <3>2. StepsLeft(x) = Ahead(step) /\ StepsLeft(q) = Ahead(q.step)
      BY <1>2, <2>2, <3>1 DEF StepsLeft
    <3>3. Ahead(step) < Ahead(q.step)
      BY <2>2 DEF Ahead, At, Ended, Errors, InTransaction
    <3>. QED  BY <3>2, <3>3, Zenon
  <2>. QED  BY <2>1, <2>2
<1>. QED  BY <1>2, <1>3, <1>4, BecomingAdvances DEF IInv

\* A run that has found or inserted its organisation.
LEMMA SeatingAdvances ==
  ASSUME IInv, NEW r \in Runs, DoomedOK(run[r]), run[r].step \in {"org", "insertOrg"}, NEW o,
         run' = [run EXCEPT ![r].org = o, ![r].step = Written(run[r].kind)]
  PROVE  Advances(r)
<1>. DEFINE q == run[r]  x == [q EXCEPT !.org = o, !.step = Written(q.kind)]
<1>1. q \in RunStates
  BY DEF IInv, IngestTypeOK
<1>2. x.step \in {"delete", "flush"} /\ x.doomed = q.doomed
  BY <1>1 DEF RunStates, Written
<1>3. run' = [run EXCEPT ![r] = x]
  BY DEF IInv, IngestTypeOK
<1>. HIDE DEF x
<1>4. DoomedOK(x)
  BY <1>2 DEF DoomedOK, Ended, Errors
<1>5. StepsLeft(x) < StepsLeft(q)
  <2>1. StepsLeft(x) = Ahead(x.step) /\ StepsLeft(q) = Ahead(q.step)
    BY <1>2 DEF StepsLeft
  <2>2. Ahead(x.step) < Ahead(q.step)
    BY <1>2 DEF Ahead
  <2>. QED  BY <2>1, <2>2, Zenon
<1>. QED  BY <1>3, <1>4, <1>5, BecomingAdvances DEF IInv

LEMMA PostAdvances ==
  ASSUME IInv, NEW r \in Runs, DoomedOK(run[r]), Post(r)
  PROVE  Advances(r)
<1>. DEFINE q == run[r]
<1>1. /\ q \in RunStates /\ q.step = "embed" /\ RunOK(r, q.step, q, organisations)
      /\ Len(q.texts) \in Nat /\ Len(q.vectors) \in Nat
      /\ q.texts \in Seq(Texts)
  BY LenProperties DEF Post, IInv, IngestTypeOK, RunsInv, RunStates
<1>2. CASE Goes(r, "failed")
  BY <1>1, <1>2, GoesAdvances DEF Steps, Ended, Errors
<1>3. ASSUME NEW m \in Len(q.vectors) + 1 .. Len(q.texts),
             run' = [run EXCEPT ![r] = Supplied(q, m)]
      PROVE  Advances(r)
  <2>. DEFINE x == Supplied(q, m)
  <2>1. /\ x.step = IF m < Len(q.texts) THEN "embed" ELSE "org"
        /\ x.doomed = q.doomed /\ x.texts = q.texts /\ x.vectors = SubSeq(q.texts, 1, m)
    BY <1>1 DEF Supplied, RunStates
  <2>2. Len(x.vectors) = m
    <3>1. \A i \in 1 .. m : q.texts[i] \in Texts
      BY <1>1, ElementOfSeq
    <3>. QED  BY <1>1, <2>1, <3>1, SubSeqProperties
  <2>. HIDE DEF x
  <2>3. StepsLeft(x) = 5 + (Len(q.texts) - m)
    <3>1. CASE m < Len(q.texts)
      BY <2>1, <2>2, <3>1 DEF StepsLeft
    <3>2. CASE m = Len(q.texts)
      <4>1. StepsLeft(x) = Ahead("org") /\ Ahead("org") = 5 /\ 5 = 5 + (Len(q.texts) - m)
        BY <1>1, <2>1, <3>2 DEF StepsLeft, Ahead
      <4>. QED  BY <4>1, Zenon
    <3>. QED  BY <1>1, <3>1, <3>2
  <2>4. StepsLeft(q) = 5 + (Len(q.texts) - Len(q.vectors))
    BY <1>1 DEF StepsLeft
  <2>5. DoomedOK(x)
    BY <1>1, <2>1 DEF DoomedOK, Ended, Errors
  <2>6. StepsLeft(x) < StepsLeft(q)
    <3>1. 5 + (Len(q.texts) - m) < 5 + (Len(q.texts) - Len(q.vectors))
      <4>. DEFINE n == Len(q.texts)  k == Len(q.vectors)
      <4>1. n \in Nat /\ k \in Nat /\ m \in k + 1 .. n
        BY <1>1
      <4>. HIDE DEF n, k
      <4>2. 5 + (n - m) < 5 + (n - k)
        BY <4>1
      <4>. QED  BY <4>2 DEF n, k
    <3>. QED  BY <2>3, <2>4, <3>1, Zenon
  <2>. QED  BY <1>3, <2>5, <2>6, BecomingAdvances DEF x, IInv
<1>. QED  BY <1>2, <1>3, PostResult

LEMMA RunAdvances ==
  ASSUME IInv, NEW r \in Runs, DoomedOK(run[r]), Start(r) \/ Progress(r) \/ Outage(r)
  PROVE  Advances(r)
<1>1. ASSUME NEW kind, NEW commit, NEW payload, NEW texts, NEW vectors, NEW step,
             At(r, "idle"),
             run' = [run EXCEPT ![r] = NewRun(step, kind, commit, payload, texts, vectors)]
      PROVE  Advances(r)
  <2>1. DoomedOK(NewRun(step, kind, commit, payload, texts, vectors))
    BY DEF NewRun, DoomedOK
  <2>. QED  BY <1>1, <2>1, BecomingAdvances DEF IInv
<1>2. CASE Start(r)
  <2>1. CASE StartClaims(r)
    <3>1. PICK payload \in Payloads, commit \in BOOLEAN :
             run' = [run EXCEPT ![r] =
                         NewRun("validate", "claims", commit, payload, <<>>, <<>>)]
      BY <2>1 DEF StartClaims
    <3>. QED  BY <1>1, <2>1, <3>1 DEF StartClaims
  <2>2. ASSUME NEW kind, NEW commit, NEW embed, ReadChunks(r, kind, commit, embed)
        PROVE  Advances(r)
    <3>1. PICK texts \in setting.inputs :
             run' = [run EXCEPT ![r] =
                         NewRun(IF embed /\ texts # <<>> THEN "embed" ELSE "org", kind, commit,
                                {}, texts, IF embed THEN <<>> ELSE Unembedded(texts))]
      BY <2>2 DEF ReadChunks
    <3>. QED  BY <1>1, <2>2, <3>1 DEF ReadChunks
  <2>. QED  BY <1>2, <2>1, <2>2 DEF Start, StartChunks, StartUpload
<1>3. CASE Validate(r)
  BY <1>3, GoesAdvances DEF Validate, At, Steps, Ended, Errors, InTransaction
<1>4. CASE KeyMissing(r)
  BY <1>4, GoesAdvances DEF KeyMissing, At, Steps, Ended, Errors
<1>5. CASE Post(r)
  BY <1>5, PostAdvances
<1>6. CASE FindOrg(r)
  <2>1. CASE Goes(r, "insertOrg")
    BY <1>6, <2>1, GoesAdvances DEF FindOrg, At, Steps, InTransaction
  <2>2. ASSUME NEW o, run' = [run EXCEPT ![r].org = o, ![r].step = Written(run[r].kind)]
        PROVE  Advances(r)
    BY <1>6, <2>2, SeatingAdvances DEF FindOrg, At
  <2>. QED  BY <1>6, <2>1, <2>2 DEF FindOrg
<1>7. CASE InsertOrg(r)
  <2>1. CASE Goes(r, "uniqueViolation")
    BY <1>7, <2>1, GoesAdvances DEF InsertOrg, At, Steps, Ended, Errors, InTransaction
  <2>2. CASE run' = [run EXCEPT ![r].org = r, ![r].step = Written(run[r].kind)]
    BY <1>7, <2>2, SeatingAdvances DEF InsertOrg, At
  <2>. QED  BY <1>7, <2>1, <2>2 DEF InsertOrg
<1>8. CASE DeleteChunks(r)
  <2>. DEFINE x == [run[r] EXCEPT !.doomed = Present, !.step = "flush"]
  <2>1. run[r] \in RunStates
    BY DEF IInv, IngestTypeOK
  <2>2. x.step = "flush" /\ run' = [run EXCEPT ![r] = x]
    BY <1>8, <2>1 DEF DeleteChunks, RunStates, IInv, IngestTypeOK
  <2>. HIDE DEF x
  <2>3. DoomedOK(x)
    BY <2>2 DEF DoomedOK
  <2>4. StepsLeft(x) = Ahead("flush") /\ StepsLeft(run[r]) = Ahead("delete")
    BY <1>8, <2>2 DEF StepsLeft, DeleteChunks, At
  <2>5. Ahead("flush") < Ahead("delete")
    BY DEF Ahead
  <2>6. StepsLeft(x) < StepsLeft(run[r])
    BY <2>4, <2>5, Zenon
  <2>. QED  BY <2>2, <2>3, <2>6, BecomingAdvances DEF IInv
<1>9. CASE Flush(r)
  <2>1. Flushed(run[r]) \in {"dataError", "checkViolation", "foreignKeyViolation", "commit"}
    BY DEF Flushed
  <2>. QED  BY <1>9, <2>1, GoesAdvances DEF Flush, At, Steps, Ended, Errors, InTransaction
<1>10. CASE Finish(r)
  BY <1>10, GoesAdvances DEF Finish, At, Steps, Ended, InTransaction
<1>11. CASE Outage(r)
  BY <1>11, GoesAdvances DEF Outage, Steps, Ended, Errors
<1>. QED  BY <1>2, <1>3, <1>4, <1>5, <1>6, <1>7, <1>8, <1>9, <1>10, <1>11 DEF Progress

LEMMA DoomedStep ==
  ASSUME IInv, DoomedInv, [IngestNext \/ FailsElsewhere]_ingestVars
  PROVE  DoomedInv'
<1>1. ASSUME NEW r \in Runs, Start(r) \/ Progress(r) \/ Outage(r) PROVE DoomedInv'
  BY <1>1, RunAdvances DEF DoomedInv, Advances
<1>2. CASE run' = run
  BY <1>2 DEF DoomedInv
<1>. QED  BY <1>1, <1>2 DEF IngestNext, WriteChunk, EmbedChunk, FailsElsewhere, ingestVars

\* In every reachable state the chains of waiting runs end, after two links at most, at
\* one that waits for nobody (get-or-create before the DELETE, in every script).
THEOREM WaitsAreShort == Spec => []NobodyWaitsInCircles
<1>1. Init => DoomedInv
  BY DEF Init, DoomedInv, DoomedOK, Idle, NewRun
<1>2. IInv /\ DoomedInv => NobodyWaitsInCircles
  <2>. SUFFICES ASSUME IInv, DoomedInv PROVE NobodyWaitsInCircles
    OBVIOUS
  <2>1. \A r \in Runs : HoldsKey(r) => run[r].step \in {"delete", "flush", "commit"}
    BY IngestAssumption DEF HoldsKey, InTransaction, IInv, RunsInv, RunOK
  <2>2. \A r \in Runs : run[r].step \in InTransaction /\ run[r].doomed # {}
                          => run[r].step \in {"flush", "commit"}
    BY DEF DoomedInv, DoomedOK, InTransaction, Ended, Errors
  <2>. QED  BY <2>1, <2>2 DEF NobodyWaitsInCircles, WaitsFor, At, HoldsKey
<1>. QED  BY <1>1, <1>2, DoomedStep, IngestIsInductive, SearchesOnlyRead, PTL DEF IngestSpec

\* And no run goes on for ever: the texts it has bound the requests it makes.
THEOREM RunsAreFinite == Spec => RunsGoForward
<1>1. Init => DoomedInv
  BY DEF Init, DoomedInv, DoomedOK, Idle, NewRun
<1>2. IInv /\ DoomedInv /\ [IngestNext \/ FailsElsewhere]_ingestVars
        => [\A r \in Runs : ~At(r, "idle") /\ run'[r] # run[r]
              => StepsLeft(run'[r]) < StepsLeft(run[r])]_ingestVars
  <2>. SUFFICES ASSUME IInv, DoomedInv, IngestNext \/ FailsElsewhere,
                       NEW q \in Runs, ~At(q, "idle"), run'[q] # run[q]
                PROVE  StepsLeft(run'[q]) < StepsLeft(run[q])
    OBVIOUS
  <2>1. ASSUME NEW r \in Runs, Start(r) \/ Progress(r) \/ Outage(r)
        PROVE  StepsLeft(run'[q]) < StepsLeft(run[q])
    BY <2>1, RunAdvances DEF DoomedInv, Advances
  <2>. QED  BY <2>1 DEF IngestNext, WriteChunk, EmbedChunk, FailsElsewhere
<1>. QED  BY <1>1, <1>2, DoomedStep, IngestIsInductive, SearchesOnlyRead, PTL
          DEF IngestSpec, RunsGoForward
=============================================================================
