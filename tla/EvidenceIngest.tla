--------------------------- MODULE EvidenceIngest ---------------------------
(***************************************************************************)
(* How claims and chunks get into the store: scripts/ingest_claims.py,     *)
(* scripts/ingest_chunks.py, POST /ingest of sandbox/retrieve.py, and the  *)
(* embedder of services/embedding.py that the last two call.               *)
(*                                                                         *)
(* A run reads its input, validates it (claims) or embeds it (chunks), and *)
(* then writes it in one transaction, under one tenant, whose organisation *)
(* row it finds or creates.  All runs here have the same org_key.  A       *)
(* transaction sees what others have committed; an INSERT of a key that an *)
(* open transaction has inserted, and a DELETE of rows that one has        *)
(* deleted, wait for it to end.                                            *)
(*                                                                         *)
(* The vector of a text is modelled by the text itself; Zero is the        *)
(* degenerate vector a provider has been reported to return.  A document   *)
(* of a run is known by its sha256, from which _document_uuid derives an   *)
(* id; data_source rows have ids of their own (uuid4), so Derived is none  *)
(* of them.                                                                *)
(***************************************************************************)
EXTENDS ClaimsContract, Naturals, Sequences, FiniteSets

CONSTANTS
    Runs,         \* runs of the two scripts and of POST /ingest
    Candidates,   \* the claims that a payload may contain
    Payloads,     \* the payloads of claims, sets of candidates
    Texts,        \* the contents of chunks
    Inputs,       \* the inputs of chunks, sequences of texts
    MaxBatch,     \* _MAX_BATCH
    Zero,         \* the all-zero vector
    Chunks,       \* ids for rows of the chunks table, used once each
    DataSources,  \* ids of data_source rows
    DocumentOf,   \* DocumentOf[c]: the document of the chunk that a writer puts at c
    Derived,      \* an id that _document_uuid derives
    Settings,     \* which work overlaps in one behaviour (its kinds, its runs, the inputs
                  \* of chunks), and whether VOYAGE_API_KEY is set
    MaxFaults     \* failures of the provider or the database

Kinds == {"claims", "chunks", "upload"}

ASSUME IngestAssumption ==
    /\ None \notin Runs \cup Texts \cup DataSources \cup Kinds
    /\ Zero \notin Texts \cup {None}
    /\ Derived \notin DataSources \cup {None}
    /\ "signup" \notin Runs \cup {None}
    /\ IsFiniteSet(Chunks)
    /\ Payloads \subseteq SUBSET Candidates
    /\ Inputs \subseteq Seq(Texts)
    /\ MaxBatch \in Nat \ {0}
    /\ MaxFaults \in Nat
    /\ Settings \subseteq [kinds : SUBSET (Kinds \cup {"writer", "query"}),
                           runs : SUBSET Runs, inputs : SUBSET Inputs, key : BOOLEAN]
    /\ DocumentOf \in [Chunks -> DataSources \cup {None}]

VARIABLES
    organisations,  \* the committed organisation rows for org_key, by who made them
    claims,         \* the committed claims: the row, its run and its org_id
    chunks,         \* chunks[c]: the committed row with id c
    run,            \* run[r]: where run r is, and what it holds
    faults,         \* failures so far
    setting         \* the setting of this behaviour

ingestVars == <<organisations, claims, chunks, run, faults, setting>>

Makers == Runs \cup {"signup"}

\* A run waits in "org" .. "commit" inside its transaction.
InTransaction == {"org", "insertOrg", "delete", "flush", "commit"}
Errors == {"refused", "checkViolation", "dataError", "foreignKeyViolation",
           "uniqueViolation", "failed"}
Ended == Errors \cup {"done"}
Steps == {"idle", "validate", "embed"} \cup InTransaction \cup Ended

RunStates == [step : Steps, kind : Kinds \cup {None}, commit : BOOLEAN,
              payload : SUBSET Candidates, texts : Seq(Texts),
              vectors : Seq(Texts \cup {None}), org : Makers \cup {None},
              doomed : SUBSET Chunks]

\* What a run has before its transaction.
NewRun(step, kind, commit, payload, texts, vectors) ==
    [step |-> step, kind |-> kind, commit |-> commit, payload |-> payload,
     texts |-> texts, vectors |-> vectors, org |-> None, doomed |-> {}]
Idle == NewRun("idle", None, FALSE, {}, <<>>, <<>>)

ChunkStates == [status : {"absent", "present", "deleted"},
                document : DataSources \cup {Derived, None}, embedded : BOOLEAN]
Absent == [status |-> "absent", document |-> None, embedded |-> FALSE]

\* The tenant comes from signup, or a run is the first to need it.
Init ==
    /\ organisations \in {{}, {"signup"}}
    /\ claims = {}
    /\ chunks = [c \in Chunks |-> Absent]
    /\ run = [r \in Runs |-> Idle]
    /\ faults = 0
    /\ setting \in Settings

At(r, step)   == run[r].step = step
Goes(r, step) == run' = [run EXCEPT ![r].step = step]
Fault == faults < MaxFaults /\ faults' = faults + 1
Present == {c \in Chunks : chunks[c].status = "present"}

-----------------------------------------------------------------------------
(* A run starts *)

\* ingest_claims on a file of claims, to persist them or as a dry run.
StartClaims(r) ==
    /\ At(r, "idle")
    /\ r \in setting.runs /\ "claims" \in setting.kinds
    /\ \E payload \in Payloads, commit \in BOOLEAN :
           run' = [run EXCEPT ![r] =
                       NewRun("validate", "claims", commit, payload, <<>>, <<>>)]
    /\ UNCHANGED <<organisations, claims, chunks, faults, setting>>

Unembedded(texts) == [i \in DOMAIN texts |-> None]

\* Chunks of a file are read; embed says whether they are to be embedded.
ReadChunks(r, kind, commit, embed) ==
    /\ At(r, "idle")
    /\ r \in setting.runs /\ kind \in setting.kinds
    /\ \E texts \in setting.inputs :
           run' = [run EXCEPT ![r] =
                       NewRun(IF embed /\ texts # <<>> THEN "embed" ELSE "org", kind, commit,
                              {}, texts, IF embed THEN <<>> ELSE Unembedded(texts))]
    /\ UNCHANGED <<organisations, claims, chunks, faults, setting>>

\* ingest_chunks embeds only what it is to persist.
StartChunks(r) == \E commit \in BOOLEAN : ReadChunks(r, "chunks", commit, commit)

\* POST /ingest, after the parse service has returned the chunks of the PDF.
StartUpload(r) == ReadChunks(r, "upload", TRUE, setting.key)

-----------------------------------------------------------------------------
(* Before the transaction: the contract, the vectors *)

\* _validate: every claim.
Valid(payload) == \A claim \in payload : ContractAdmits(claim)

Validate(r) ==
    /\ At(r, "validate")
    /\ Goes(r, IF Valid(run[r].payload) THEN "org" ELSE "refused")
    /\ UNCHANGED <<organisations, claims, chunks, faults, setting>>

\* VoyageEmbedder.__init__.
KeyMissing(r) ==
    /\ At(r, "embed")
    /\ ~setting.key
    /\ Goes(r, "failed")
    /\ UNCHANGED <<organisations, claims, chunks, faults, setting>>

\* Where the next request ends, and its inputs.
Upto(q) ==
    IF Len(q.vectors) + MaxBatch < Len(q.texts) THEN Len(q.vectors) + MaxBatch ELSE Len(q.texts)
Batch(q) == SubSeq(q.texts, Len(q.vectors) + 1, Upto(q))

Positions(s) == 1 .. Len(s)
Orders(s) == {p \in [Positions(s) -> Positions(s)] :
                 \A i \in Positions(s) : \E j \in Positions(s) : p[j] = i}

\* Seeded fault: the response is trusted to come back positionally.
SeededInOrder(rows) == [i \in DOMAIN rows |-> rows[i].embedding]

\* _embed orders the rows of a response by the index they carry.
InOrder(rows) ==
    [i \in DOMAIN rows |-> rows[CHOOSE j \in DOMAIN rows : rows[j].index = i].embedding]

\* Seeded fault: the vectors are not looked at.
SeededSane(rows) == TRUE

\* _sane.
Sane(rows) == \A j \in DOMAIN rows : rows[j].embedding # Zero

\* The provider answers in any order.
Responses(batch) ==
    {[j \in Positions(batch) |-> [index |-> p[j], embedding |-> batch[p[j]]]] :
        p \in Orders(batch)}

Spoilt(rows) == {[rows EXCEPT ![j].embedding = Zero] : j \in DOMAIN rows}

\* What a run goes on with after a response.
Take(q, rows) ==
    IF Sane(rows)
    THEN [q EXCEPT !.vectors = q.vectors \o InOrder(rows),
                   !.step = IF Upto(q) < Len(q.texts) THEN "embed" ELSE "org"]
    ELSE [q EXCEPT !.step = "failed"]

\* One request of _embed.
Post(r) ==
    LET q == run[r] IN
    /\ q.step = "embed"
    /\ setting.key
    /\ \E rows \in Responses(Batch(q)) :
        \/ run' = [run EXCEPT ![r] = Take(q, rows)] /\ UNCHANGED faults
        \/ \E bad \in Spoilt(rows) : run' = [run EXCEPT ![r] = Take(q, bad)] /\ Fault
    /\ UNCHANGED <<organisations, claims, chunks, setting>>

-----------------------------------------------------------------------------
(* The transaction *)

\* After the organisation is known.
Written(kind) == IF kind = "upload" THEN "delete" ELSE "flush"

\* The get of get-or-create.
FindOrg(r) ==
    /\ At(r, "org")
    /\ \/ organisations = {} /\ Goes(r, "insertOrg")
       \/ \E o \in organisations :
             run' = [run EXCEPT ![r].org = o, ![r].step = Written(run[r].kind)]
    /\ UNCHANGED <<organisations, claims, chunks, faults, setting>>

\* Seeded fault: clerk_org_id is not unique.
SeededIsTaken == FALSE

\* The unique key of clerk_org_id, against a row that another run has committed.
IsTaken == organisations # {}

\* Seeded fault: a dry run returns without ending its transaction.
SeededHoldsKey(s) ==
    run[s].org = s /\ (run[s].step \in InTransaction \/ (At(s, "done") /\ ~run[s].commit))

\* A run that has inserted the row and whose transaction is open.
HoldsKey(s) == run[s].org = s /\ run[s].step \in InTransaction

\* The create: it waits while the fate of another's row is open.
InsertOrg(r) ==
    /\ At(r, "insertOrg")
    /\ \A s \in Runs \ {r} : ~HoldsKey(s)
    /\ IF IsTaken
       THEN Goes(r, "uniqueViolation")
       ELSE run' = [run EXCEPT ![r].org = r, ![r].step = Written(run[r].kind)]
    /\ UNCHANGED <<organisations, claims, chunks, faults, setting>>

\* A row that an open transaction has deleted.
Doomed(c) == \E r \in Runs : run[r].step \in InTransaction /\ c \in run[r].doomed

\* POST /ingest deletes the chunks of the upload before.
DeleteChunks(r) ==
    /\ At(r, "delete")
    /\ \A c \in Present : ~Doomed(c)
    /\ run' = [run EXCEPT ![r].doomed = Present, ![r].step = "flush"]
    /\ UNCHANGED <<organisations, claims, chunks, faults, setting>>

\* _document_uuid: uuid5 of the sha256, which no data_source row has.
DocumentUuid == Derived

\* What the flush of the rows comes to; chunks.document_id references data_source.
Flushed(q) ==
    CASE \E claim \in q.payload : ~FitsItsColumns(RowFromClaim(claim)) -> "dataError"
      [] \E claim \in q.payload : ~ChecksHold(RowFromClaim(claim)) -> "checkViolation"
      [] q.texts # <<>> /\ DocumentUuid \notin DataSources \cup {None} -> "foreignKeyViolation"
      [] OTHER -> "commit"

Flush(r) ==
    /\ At(r, "flush")
    /\ Goes(r, Flushed(run[r]))
    /\ UNCHANGED <<organisations, claims, chunks, faults, setting>>

RowsOf(r) == {[run |-> r, row |-> RowFromClaim(c), org |-> run[r].org] : c \in run[r].payload}

\* Seeded fault: the dry run's exception is swallowed inside the block.
SeededPersists(q) == TRUE

\* --commit; a dry run leaves the block with _Rollback.
Persists(q) == q.commit

\* The rows of a run take ids that are still free.
ChunksAfter(q, ids) ==
    [c \in Chunks |->
        IF c \in q.doomed THEN [chunks[c] EXCEPT !.status = "deleted"]
        ELSE IF c \in ids
        THEN [status |-> "present", document |-> DocumentUuid,
              embedded |-> \A i \in DOMAIN q.vectors : q.vectors[i] # None]
        ELSE chunks[c]]

\* The end of the block.
Finish(r) ==
    LET q == run[r] IN
    /\ At(r, "commit")
    /\ Goes(r, "done")
    /\ IF Persists(q)
       THEN /\ organisations' = organisations \cup {q.org}
            /\ claims' = claims \cup RowsOf(r)
            /\ \E ids \in SUBSET {c \in Chunks : chunks[c].status = "absent"} :
                  Cardinality(ids) = Len(q.texts) /\ chunks' = ChunksAfter(q, ids)
       ELSE UNCHANGED <<organisations, claims, chunks>>
    /\ UNCHANGED <<faults, setting>>

\* The provider cannot be reached or answers with an error or with too few vectors;
\* the database fails under a statement or the commit.
Outage(r) ==
    /\ run[r].step \in {"embed"} \cup InTransaction
    /\ Goes(r, "failed")
    /\ Fault
    /\ UNCHANGED <<organisations, claims, chunks, setting>>

-----------------------------------------------------------------------------
(* Chunks that come from elsewhere: the pipeline that is to write chunks of a *)
(* registered document, or of none, and to embed them later.                  *)

WriteChunk(c) ==
    /\ "writer" \in setting.kinds
    /\ chunks[c].status = "absent"
    /\ chunks' = [chunks EXCEPT ![c] = [status |-> "present", document |-> DocumentOf[c],
                                        embedded |-> FALSE]]
    /\ UNCHANGED <<organisations, claims, run, faults, setting>>

\* An UPDATE, which waits for whoever is deleting the row.
EmbedChunk(c) ==
    /\ c \in Present
    /\ ~chunks[c].embedded
    /\ ~Doomed(c)
    /\ chunks' = [chunks EXCEPT ![c].embedded = TRUE]
    /\ UNCHANGED <<organisations, claims, run, faults, setting>>

-----------------------------------------------------------------------------
Start(r) == StartClaims(r) \/ StartChunks(r) \/ StartUpload(r)

Progress(r) ==
    \/ Validate(r) \/ KeyMissing(r) \/ Post(r) \/ FindOrg(r) \/ InsertOrg(r)
    \/ DeleteChunks(r) \/ Flush(r) \/ Finish(r)

IngestNext ==
    \/ \E r \in Runs : Start(r) \/ Progress(r) \/ Outage(r)
    \/ \E c \in Chunks : WriteChunk(c) \/ EmbedChunk(c)

\* The database fails under somebody else's statement.
FailsElsewhere == Fault /\ UNCHANGED <<organisations, claims, chunks, run, setting>>

IngestSpec == Init /\ [][IngestNext \/ FailsElsewhere]_ingestVars

-----------------------------------------------------------------------------
(* Properties *)

\* The type invariant.
IngestTypeOK ==
    /\ organisations \subseteq Makers
    /\ claims \subseteq [run : Runs, row : {RowFromClaim(c) : c \in Candidates}, org : Makers]
    /\ chunks \in [Chunks -> ChunkStates]
    /\ run \in [Runs -> RunStates]
    /\ faults \in 0 .. MaxFaults
    /\ setting \in Settings

\* "A shape the store cannot hold must be caught here" (_validate): what the contract
\* admits never fails a CHECK of the table.  A value that does not fit its column is
\* all that is left for the store to refuse.
ValidatedClaimsPassTheChecks == \A r \in Runs : ~At(r, "checkViolation")

\* "Not discovered as a half-written row" (_validate): the store has all claims of a
\* run or none; it has them only of a run that was told to commit and ended well,
\* and each is one the contract admits.
StoredClaimsAreWhole ==
    \A r \in Runs :
        LET stored == {x.row : x \in {y \in claims : y.run = r}} IN
        stored # {} =>
            /\ At(r, "done") /\ run[r].commit
            /\ stored = {RowFromClaim(c) : c \in run[r].payload}
            /\ \A c \in run[r].payload : ContractAdmits(c)

\* One tenant has one organisation, however many runs are the first to need it, and
\* all its claims refer to that.
OneOrganisationPerTenant ==
    /\ Cardinality(organisations) <= 1
    /\ \A x \in claims : x.org \in organisations

\* Every text goes to the store with its own vector or none, over several batches and
\* whatever the order of the rows in each response; a degenerate vector never does.
VectorsBelongToTexts ==
    \A r \in Runs : run[r].step \in InTransaction \cup {"done"} =>
        /\ Len(run[r].vectors) = Len(run[r].texts)
        /\ \A i \in DOMAIN run[r].texts : run[r].vectors[i] \in {run[r].texts[i], None}
=============================================================================
