------------------------- MODULE HybridSearchProofs -------------------------
(***************************************************************************)
(* Proofs about hybrid_search beside the runs and writers that change the  *)
(* chunks, for every number of searches, any weights, limits, rankings and *)
(* precision of the arithmetic: the fused ids are the best by their score, *)
(* ranks decide in spite of the rounding, and the hydration loses none of  *)
(* them but those that were deleted meanwhile.                             *)
(* What the fusion computes is RankFusionProofs; that a chunk which a leg  *)
(* has seen is there until it is deleted, and deleted for good, comes from *)
(* the steps of EvidenceIngest.                                            *)
(***************************************************************************)
EXTENDS EvidenceProofs, RankFusionProofs

-----------------------------------------------------------------------------
(* The chunks *)

\* A row that was once there does not become absent, and a deleted one does not return.
ChunksGoOn ==
    \A c \in Chunks :
        /\ chunks[c].status # "absent" => chunks'[c].status # "absent"
        /\ chunks[c].status = "deleted" => chunks'[c].status = "deleted"

LEMMA StoreGoesOn == ASSUME IngestTypeOK, [IngestNext \/ FailsElsewhere]_ingestVars PROVE ChunksGoOn
<1>1. CASE UNCHANGED chunks
  BY <1>1 DEF ChunksGoOn
<1>2. ASSUME NEW r \in Runs, Finish(r), run[r].commit PROVE ChunksGoOn
  <2>1. PICK ids \in SUBSET {c \in Chunks : chunks[c].status = "absent"} :
            chunks' = ChunksAfter(run[r], ids)
    BY <1>2 DEF Finish, Persists
  <2>2. ASSUME NEW c \in Chunks
        PROVE  /\ chunks[c].status # "absent" => chunks'[c].status # "absent"
               /\ chunks[c].status = "deleted" => chunks'[c].status = "deleted"
    <3>1. chunks[c] \in ChunkStates
      BY DEF IngestTypeOK
    <3>2. CASE c \in run[r].doomed
      <4>1. chunks'[c] = [chunks[c] EXCEPT !.status = "deleted"]
        BY <2>1, <3>2 DEF ChunksAfter
      <4>. QED  BY <3>1, <4>1 DEF ChunkStates
    <3>3. CASE c \notin run[r].doomed /\ c \notin ids
      <4>1. chunks'[c] = chunks[c]
        BY <2>1, <3>3 DEF ChunksAfter
      <4>. QED  BY <4>1
    <3>4. CASE c \notin run[r].doomed /\ c \in ids
      BY <2>1, <3>4
    <3>. QED  BY <3>2, <3>3, <3>4
  <2>. QED  BY <2>2 DEF ChunksGoOn
<1>3. ASSUME NEW c \in Chunks, WriteChunk(c) \/ EmbedChunk(c) PROVE ChunksGoOn
  <2>1. CASE WriteChunk(c)
    BY <2>1 DEF WriteChunk, IngestTypeOK, ChunksGoOn
  <2>2. CASE EmbedChunk(c)
    <3>1. chunks' = [chunks EXCEPT ![c].embedded = TRUE] /\ chunks[c] \in ChunkStates
      BY <2>2 DEF EmbedChunk, IngestTypeOK
    <3>2. chunks'[c].status = chunks[c].status
      BY <3>1 DEF IngestTypeOK, ChunkStates
    <3>3. \A d \in Chunks \ {c} : chunks'[d] = chunks[d]
      BY <3>1 DEF IngestTypeOK
    <3>. QED  BY <3>2, <3>3 DEF ChunksGoOn
  <2>. QED  BY <1>3, <2>1, <2>2
<1>4. ASSUME NEW r \in Runs, Start(r) \/ Progress(r) \/ Outage(r), ~Finish(r) PROVE UNCHANGED chunks
  BY <1>4 DEF Start, StartClaims, StartChunks, StartUpload, ReadChunks, Progress, Validate,
     KeyMissing, Post, FindOrg, InsertOrg, DeleteChunks, Flush, Outage
<1>5. ASSUME NEW r \in Runs, Finish(r), ~run[r].commit PROVE UNCHANGED chunks
  BY <1>5 DEF Finish, Persists
<1>6. ASSUME FailsElsewhere \/ UNCHANGED ingestVars PROVE UNCHANGED chunks
  BY <1>6 DEF FailsElsewhere, ingestVars
<1>. QED  BY <1>1, <1>2, <1>3, <1>4, <1>5, <1>6 DEF IngestNext

-----------------------------------------------------------------------------
(* What a search holds *)

\* A leg has an id once.
Orderings == {ids \in Seq(Chunks) : IsInjective(ids)}

SearchStates ==
    [step : {"idle", "dense", "sparse", "hydrate", "done", "failed"},
     search : Searches \cup {NoSearch}, dense : Orderings, sparse : Orderings,
     fused : Seq(Chunks), hits : Seq(Chunks)]

\* What a search x may hold, given the rows: only ids of rows that were once there;
\* before the hydration the fusion of what its legs returned.
SearchOK(x, rows) ==
    /\ \A c \in ToSet(x.dense) \cup ToSet(x.sparse) \cup ToSet(x.fused) :
          rows[c].status # "absent"
    /\ x.step # "done" => x.hits = <<>>
    /\ x.step \in {"idle", "dense", "sparse"} => x.fused = <<>>
    /\ x.step = "hydrate" => x.fused = Trim(Fuse(Legs(x)), x.search.top_k)

\* The hits are a part of the fused ids in their order, and miss only deleted ones.
HitsOK(x, rows) ==
    /\ \A i \in DOMAIN x.hits : \E m \in DOMAIN x.fused :
          /\ x.hits[i] = x.fused[m]
          /\ \A j \in DOMAIN x.hits : i < j =>
                \E n \in DOMAIN x.fused : m < n /\ x.hits[j] = x.fused[n]
    /\ \A c \in ToSet(x.fused) \ ToSet(x.hits) : rows[c].status = "deleted"

QueriesInv ==
    \A q \in Queries :
        /\ SearchOK(query[q], chunks)
        /\ query[q].step = "done" => HitsOK(query[q], chunks)

SearchInv == IInv /\ query \in [Queries -> SearchStates] /\ QueriesInv

LEMMA InitSearchInv == SearchInit => SearchInv
<1>. SUFFICES ASSUME SearchInit PROVE SearchInv
  OBVIOUS
<1>1. IInv
  BY InitIInv DEF SearchInit
<1>2. Waiting \in SearchStates
  BY DEF Waiting, SearchStates, Orderings, IsInjective
<1>3. query \in [Queries -> SearchStates]
  BY <1>2 DEF SearchInit
<1>4. SearchOK(Waiting, chunks)
  BY DEF SearchOK, Waiting, ToSet
<1>5. Waiting.step # "done"
  BY DEF Waiting
<1>6. QueriesInv
  BY <1>4, <1>5 DEF SearchInit, QueriesInv
<1>. QED  BY <1>1, <1>3, <1>6 DEF SearchInv

\* One search goes on, and the store does not change.
LEMMA SearchMoves ==
    ASSUME SearchInv, NEW q \in Queries, NEW x \in SearchStates,
           query' = [query EXCEPT ![q] = x], UNCHANGED ingestVars \/ FailsElsewhere,
           SearchOK(x, chunks), x.step = "done" => HitsOK(x, chunks)
    PROVE  SearchInv'
<1>1. IInv'
  BY NextKeeps DEF SearchInv
<1>2. query' \in [Queries -> SearchStates]
  BY DEF SearchInv
<1>3. chunks' = chunks
  BY DEF ingestVars, FailsElsewhere
<1>4. query'[q] = x /\ \A p \in Queries \ {q} : query'[p] = query[p]
  BY DEF SearchInv
<1>5. ASSUME NEW p \in Queries
      PROVE  SearchOK(query'[p], chunks') /\ (query'[p].step = "done" => HitsOK(query'[p], chunks'))
  <2>1. CASE p = q
    BY <1>3, <1>4, <2>1
  <2>2. CASE p # q
    BY <1>3, <1>4, <2>2 DEF SearchInv, QueriesInv
  <2>. QED  BY <2>1, <2>2
<1>. QED  BY <1>1, <1>2, <1>5 DEF SearchInv, QueriesInv

\* The store goes on, and the searches do not.
LEMMA StoreMoves ==
    ASSUME SearchInv, [IngestNext \/ FailsElsewhere]_ingestVars, UNCHANGED query
    PROVE  SearchInv'
<1>1. IInv'
  BY NextKeeps DEF SearchInv
<1>2. ChunksGoOn
  BY StoreGoesOn DEF SearchInv, IInv
<1>3. query' \in [Queries -> SearchStates]
  BY DEF SearchInv
<1>4. ASSUME NEW p \in Queries
      PROVE  SearchOK(query[p], chunks') /\ (query[p].step = "done" => HitsOK(query[p], chunks'))
  <2>1. query[p] \in SearchStates /\ SearchOK(query[p], chunks)
        /\ (query[p].step = "done" => HitsOK(query[p], chunks))
    BY DEF SearchInv, QueriesInv
  <2>2. /\ ToSet(query[p].dense) \subseteq Chunks /\ ToSet(query[p].sparse) \subseteq Chunks
        /\ ToSet(query[p].fused) \subseteq Chunks
    BY <2>1 DEF SearchStates, Orderings, ToSet
  <2>3. SearchOK(query[p], chunks')
    BY <1>2, <2>1, <2>2 DEF SearchOK, ChunksGoOn
  <2>4. query[p].step = "done" => HitsOK(query[p], chunks')
    BY <1>2, <2>1, <2>2 DEF HitsOK, ChunksGoOn
  <2>. QED  BY <2>3, <2>4
<1>. QED  BY <1>1, <1>3, <1>4 DEF SearchInv, QueriesInv

-----------------------------------------------------------------------------
(* The operators of the search *)

\* The first n of the ids, or all.
LEMMA TrimProperties ==
    ASSUME NEW S, NEW ids \in Seq(S), NEW n \in Nat
    PROVE  /\ Trim(ids, n) \in Seq(S)
           /\ Len(Trim(ids, n)) = IF Len(ids) < n THEN Len(ids) ELSE n
           /\ \A i \in 1 .. Len(Trim(ids, n)) : i \in 1 .. Len(ids) /\ Trim(ids, n)[i] = ids[i]
<1>. DEFINE m == IF Len(ids) < n THEN Len(ids) ELSE n
<1>1. m \in Nat /\ m <= Len(ids) /\ Len(ids) \in Nat
  OBVIOUS
<1>. HIDE DEF m
<1>2. \A i \in 1 .. m : ids[i] \in S
  BY <1>1
<1>3. /\ SubSeq(ids, 1, m) \in Seq(S)
      /\ Len(SubSeq(ids, 1, m)) = m
      /\ \A i \in 1 .. m : SubSeq(ids, 1, m)[i] = ids[i]
  BY <1>1, <1>2
<1>4. Trim(ids, n) = SubSeq(ids, 1, m)
  BY DEF Trim, m
<1>5. \A i \in 1 .. m : i \in 1 .. Len(ids)
  BY <1>1
<1>. QED  BY <1>3, <1>4, <1>5 DEF m

LEMMA RankOfFinds ==
    ASSUME NEW S, NEW ids \in Seq(S), NEW c \in ToSet(ids)
    PROVE  RankOf(ids, c) \in DOMAIN ids /\ ids[RankOf(ids, c)] = c
  BY DEF RankOf, ToSet

\* What the hydration returns: all the rows that are there, in the order of the ids.
LEMMA HitsProperties ==
    ASSUME NEW ids \in Seq(Chunks)
    PROVE  /\ Hits(ids) \in Seq(Chunks)
           /\ ToSet(Hits(ids)) = {c \in ToSet(ids) : Hydratable(c)}
           /\ \A i \in DOMAIN Hits(ids) : Hits(ids)[i] \in ToSet(ids)
           /\ \A i, j \in DOMAIN Hits(ids) :
                 i < j => RankOf(ids, Hits(ids)[i]) < RankOf(ids, Hits(ids)[j])
<1>. DEFINE S == {c \in ToSet(ids) : Hydratable(c)}
            R == {p \in S \X S : RankOf(ids, p[1]) < RankOf(ids, p[2])}
            Sorted(e) == \A i, j \in DOMAIN e : i < j => RankOf(ids, e[i]) < RankOf(ids, e[j])
<1>1. S \subseteq ToSet(ids) /\ S \subseteq Chunks /\ IsFiniteSet(S)
  <2>1. ToSet(ids) \subseteq Chunks
    BY DEF ToSet
  <2>2. S \in SUBSET Chunks
    BY <2>1
  <2>. QED  BY <2>1, <2>2, IngestAssumption, FS_Subset
<1>2. \A c \in S : RankOf(ids, c) \in Nat /\ ids[RankOf(ids, c)] = c
  BY <1>1, RankOfFinds
<1>. HIDE DEF S
<1>3. R \in TotalOrders(S)
  BY <1>2 DEF TotalOrders
<1>4. PICK e \in SetToSeqs(S) : \A i, j \in DOMAIN e : i < j => <<e[i], e[j]>> \in R
  <2>. HIDE DEF R
  <2>. QED  BY <1>1, <1>3, SortedEnumeration
<1>5. Sorted(e)
  BY <1>4
<1>6. Hits(ids) = CHOOSE s \in SetToSeqs(S) : Sorted(s)
  BY DEF Hits, SortedBy, S
<1>7. Hits(ids) \in SetToSeqs(S) /\ Sorted(Hits(ids))
  BY <1>5, <1>6
<1>8. Hits(ids) \in Seq(S) /\ ToSet(Hits(ids)) = S
  BY <1>1, <1>7, EnumerationIsOnto
<1>9. Hits(ids) \in Seq(Chunks) /\ \A i \in DOMAIN Hits(ids) : Hits(ids)[i] \in ToSet(ids)
  BY <1>1, <1>8
<1>. QED  BY <1>7, <1>8, <1>9 DEF S

\* Every leg's ids are chunks, and the weights and limits are numbers.
LEMMA LegsType ==
    ASSUME NEW x \in SearchStates
    PROVE  /\ Legs(x) \in Seq(LegsOf(Chunks))
           /\ x.search.top_k \in Nat
           /\ Chunks \in SUBSET Nat
           /\ Ranked(Legs(x)) \subseteq ToSet(x.dense) \cup ToSet(x.sparse)
<1>1. x.search.dense \in Nat /\ x.search.sparse \in Nat /\ x.search.top_k \in Nat
  BY SearchAssumption DEF SearchStates, NoSearch
<1>2. x.dense \in Orderings /\ x.sparse \in Orderings
  BY DEF SearchStates
<1>3. Legs(x) \in Seq(LegsOf(Chunks))
  BY <1>1, <1>2 DEF Legs, LegsOf, Orderings
<1>4. DOMAIN Legs(x) = {1, 2} /\ Legs(x)[1].ranked = x.dense /\ Legs(x)[2].ranked = x.sparse
  BY DEF Legs
<1>5. Ranked(Legs(x)) \subseteq ToSet(x.dense) \cup ToSet(x.sparse)
  BY <1>4 DEF Ranked
<1>. QED  BY <1>1, <1>3, <1>5, SearchAssumption

-----------------------------------------------------------------------------
(* The steps of a search *)

LEMMA StartQueryKeeps ==
    ASSUME SearchInv, NEW q \in Queries, StartQuery(q), UNCHANGED ingestVars PROVE SearchInv'
<1>1. PICK s \in Searches : query' = [query EXCEPT ![q].step = "dense", ![q].search = s]
  BY DEF StartQuery
<1>. DEFINE x == [query[q] EXCEPT !.step = "dense", !.search = s]
<1>2. query' = [query EXCEPT ![q] = x]
  BY <1>1 DEF SearchInv
<1>3. query[q] = Waiting /\ query[q] \in SearchStates
  BY DEF StartQuery, SearchInv
<1>4. /\ x \in SearchStates /\ x.step = "dense"
      /\ x.dense = query[q].dense /\ x.sparse = query[q].sparse /\ x.fused = query[q].fused
      /\ x.hits = query[q].hits
  BY <1>3 DEF SearchStates
<1>. HIDE DEF x
<1>5. x.dense = <<>> /\ x.sparse = <<>> /\ x.fused = <<>> /\ x.hits = <<>>
  BY <1>3, <1>4 DEF Waiting
<1>6. SearchOK(x, chunks)
  <2>1. ToSet(<<>>) = {}
    BY DEF ToSet
  <2>. QED  BY <1>4, <1>5, <2>1 DEF SearchOK
<1>. QED  BY <1>2, <1>4, <1>6, SearchMoves

\* What the first two SELECTs return are rankings of rows that are there.
LEMMA RankingsAreOrderings ==
    ASSUME NEW ids \in SUBSET Chunks, NEW n, NEW s \in Rankings(ids, n)
    PROVE  s \in Orderings /\ ToSet(s) \subseteq ids
<1>1. PICK m \in 0 .. Cardinality(ids) : s \in [1 .. m -> ids]
  BY DEF Rankings
<1>2. m \in Nat /\ IsInjective(s)
  BY <1>1 DEF Rankings
<1>. QED  BY <1>1, <1>2 DEF ToSet, Orderings

LEMMA DenseLegKeeps ==
    ASSUME SearchInv, NEW q \in Queries, DenseLeg(q), UNCHANGED ingestVars PROVE SearchInv'
<1>1. PICK ids \in Rankings({c \in InDocument(query[q].search) : chunks[c].embedded},
                            FetchK(query[q].search)) :
          query' = [query EXCEPT ![q].step = "sparse", ![q].dense = ids]
  BY DEF DenseLeg
<1>. DEFINE x == [query[q] EXCEPT !.step = "sparse", !.dense = ids]
<1>2. query[q] \in SearchStates /\ query[q].step = "dense" /\ SearchOK(query[q], chunks)
  BY DEF DenseLeg, SearchInv, QueriesInv
<1>3. query' = [query EXCEPT ![q] = x]
  BY <1>1 DEF SearchInv
<1>4. ids \in Orderings /\ \A c \in ToSet(ids) : chunks[c].status # "absent"
  <2>1. {c \in InDocument(query[q].search) : chunks[c].embedded} \in SUBSET Present
    BY DEF InDocument
  <2>2. Present \subseteq Chunks /\ \A c \in Present : chunks[c].status # "absent"
    BY DEF Present
  <2>3. ids \in Orderings
        /\ ToSet(ids) \subseteq {c \in InDocument(query[q].search) : chunks[c].embedded}
    BY <1>1, <2>1, <2>2, RankingsAreOrderings
  <2>. QED  BY <2>1, <2>2, <2>3
<1>5. /\ x \in SearchStates /\ x.step = "sparse" /\ x.dense = ids
      /\ x.sparse = query[q].sparse /\ x.fused = query[q].fused /\ x.hits = query[q].hits
  BY <1>2, <1>4 DEF SearchStates
<1>. HIDE DEF x
<1>6. SearchOK(x, chunks)
  BY <1>2, <1>4, <1>5 DEF SearchOK
<1>. QED  BY <1>3, <1>5, <1>6, SearchMoves

LEMMA SparseLegKeeps ==
    ASSUME SearchInv, NEW q \in Queries, SparseLeg(q), UNCHANGED ingestVars PROVE SearchInv'
<1>1. PICK ids \in Rankings(InDocument(query[q].search), FetchK(query[q].search)) :
          LET x == [query[q] EXCEPT !.sparse = ids]
              fused == Trim(Fuse(Legs(x)), query[q].search.top_k)
          IN  query' = [query EXCEPT ![q] =
                  [x EXCEPT !.fused = fused,
                            !.step = IF fused = <<>> THEN "done" ELSE "hydrate"]]
  BY DEF SparseLeg
<1>. DEFINE x == [query[q] EXCEPT !.sparse = ids]
            all == Fuse(Legs(x))
            fused == Trim(all, query[q].search.top_k)
            y == [x EXCEPT !.fused = fused, !.step = IF fused = <<>> THEN "done" ELSE "hydrate"]
<1>2. query[q] \in SearchStates /\ query[q].step = "sparse" /\ SearchOK(query[q], chunks)
  BY DEF SparseLeg, SearchInv, QueriesInv
<1>3. ids \in Orderings /\ \A c \in ToSet(ids) : chunks[c].status # "absent"
  <2>1. InDocument(query[q].search) \in SUBSET Present
    BY DEF InDocument
  <2>2. Present \subseteq Chunks /\ \A c \in Present : chunks[c].status # "absent"
    BY DEF Present
  <2>3. ids \in Orderings /\ ToSet(ids) \subseteq InDocument(query[q].search)
    BY <1>1, <2>1, <2>2, RankingsAreOrderings
  <2>. QED  BY <2>1, <2>2, <2>3
<1>4. /\ x \in SearchStates /\ x.dense = query[q].dense /\ x.sparse = ids
      /\ x.search = query[q].search /\ x.hits = query[q].hits /\ x.step = "sparse"
  BY <1>2, <1>3 DEF SearchStates
<1>5. query' = [query EXCEPT ![q] = y]
  BY <1>1
<1>. HIDE DEF x
<1>6. /\ all \in Seq(Chunks)
      /\ ToSet(all) \subseteq ToSet(x.dense) \cup ToSet(x.sparse)
      /\ query[q].search.top_k \in Nat
  <2>1. /\ Legs(x) \in Seq(LegsOf(Chunks)) /\ Chunks \in SUBSET Nat /\ x.search.top_k \in Nat
        /\ Ranked(Legs(x)) \subseteq ToSet(x.dense) \cup ToSet(x.sparse)
    BY <1>4, LegsType
  <2>2. all \in Seq(Chunks) /\ ToSet(all) = Ranked(Legs(x))
    BY <2>1, FuseIsTheRanking
  <2>. QED  BY <1>4, <2>1, <2>2
<1>. HIDE DEF all
<1>7. fused \in Seq(Chunks) /\ ToSet(fused) \subseteq ToSet(all)
  <2>1. /\ fused \in Seq(Chunks)
        /\ \A i \in 1 .. Len(fused) : i \in 1 .. Len(all) /\ fused[i] = all[i]
    BY <1>6, TrimProperties
  <2>. HIDE DEF fused
  <2>2. \A i \in DOMAIN fused : i \in DOMAIN all /\ fused[i] = all[i]
    BY <1>6, <2>1
  <2>. QED  BY <2>2, <2>1 DEF ToSet
<1>8. fused = Trim(Fuse(Legs(x)), x.search.top_k)
  BY <1>4 DEF all
<1>. HIDE DEF fused
<1>9. /\ y \in SearchStates /\ y.dense = x.dense /\ y.sparse = x.sparse /\ y.fused = fused
      /\ y.search = x.search /\ y.hits = x.hits
      /\ y.step = IF fused = <<>> THEN "done" ELSE "hydrate"
  BY <1>4, <1>7 DEF SearchStates
<1>. HIDE DEF y
<1>10. Legs(y) = Legs(x)
  BY <1>9 DEF Legs
<1>11. \A c \in ToSet(y.dense) \cup ToSet(y.sparse) \cup ToSet(y.fused) : chunks[c].status # "absent"
  BY <1>2, <1>3, <1>4, <1>6, <1>7, <1>9 DEF SearchOK
<1>12. x.hits = <<>>
  BY <1>2, <1>4 DEF SearchOK
<1>13. SearchOK(y, chunks)
  BY <1>8, <1>9, <1>10, <1>11, <1>12 DEF SearchOK
<1>14. y.step = "done" => HitsOK(y, chunks)
  BY <1>9, <1>12 DEF HitsOK, ToSet
<1>. QED  BY <1>5, <1>9, <1>13, <1>14, SearchMoves

\* The hydration leaves out the rows that are not there any more, and only they.
LEMMA HydrateKeeps ==
    ASSUME SearchInv, NEW q \in Queries, Hydrate(q), UNCHANGED ingestVars PROVE SearchInv'
<1>. DEFINE old == query[q]
            x == [old EXCEPT !.step = "done", !.dense = <<>>, !.sparse = <<>>,
                             !.hits = Hits(old.fused)]
<1>1. old \in SearchStates /\ old.step = "hydrate" /\ SearchOK(old, chunks)
  BY DEF Hydrate, SearchInv, QueriesInv
<1>2. query' = [query EXCEPT ![q] = x]
  BY DEF Hydrate, SearchInv
<1>3. old.fused \in Seq(Chunks)
  BY <1>1 DEF SearchStates
<1>4. /\ Hits(old.fused) \in Seq(Chunks)
      /\ ToSet(Hits(old.fused)) = {c \in ToSet(old.fused) : Hydratable(c)}
      /\ \A i \in DOMAIN Hits(old.fused) : Hits(old.fused)[i] \in ToSet(old.fused)
      /\ \A i, j \in DOMAIN Hits(old.fused) :
            i < j => RankOf(old.fused, Hits(old.fused)[i]) < RankOf(old.fused, Hits(old.fused)[j])
  BY <1>3, HitsProperties
<1>5. /\ x \in SearchStates /\ x.step = "done" /\ x.dense = <<>> /\ x.sparse = <<>>
      /\ x.fused = old.fused /\ x.hits = Hits(old.fused)
  <2>1. Hits(old.fused) \in Seq(Chunks) /\ <<>> \in Orderings
    BY <1>4 DEF Orderings, IsInjective
  <2>. HIDE DEF old
  <2>. QED  BY <1>1, <2>1 DEF SearchStates
<1>. HIDE DEF x
<1>6. \A c \in ToSet(old.fused) : chunks[c].status # "absent" /\ c \in Chunks
  BY <1>1, <1>3 DEF SearchOK, ToSet
<1>7. SearchOK(x, chunks)
  <2>1. ToSet(<<>>) = {}
    BY DEF ToSet
  <2>. QED  BY <1>5, <1>6, <2>1 DEF SearchOK
<1>8. HitsOK(x, chunks)
  <2>1. ASSUME NEW i \in DOMAIN x.hits
        PROVE  \E m \in DOMAIN x.fused :
                  /\ x.hits[i] = x.fused[m]
                  /\ \A j \in DOMAIN x.hits : i < j =>
                        \E n \in DOMAIN x.fused : m < n /\ x.hits[j] = x.fused[n]
    <3>. DEFINE rank(c) == RankOf(x.fused, c)
    <3>1. \A j \in DOMAIN x.hits : rank(x.hits[j]) \in DOMAIN x.fused
                                   /\ x.fused[rank(x.hits[j])] = x.hits[j]
      BY <1>3, <1>4, <1>5, RankOfFinds
    <3>2. \A j \in DOMAIN x.hits : i < j => rank(x.hits[i]) < rank(x.hits[j])
      BY <1>4, <1>5, <2>1
    <3>. HIDE DEF rank
    <3>. QED  BY <2>1, <3>1, <3>2
  <2>2. ASSUME NEW c \in ToSet(x.fused) \ ToSet(x.hits) PROVE chunks[c].status = "deleted"
    <3>1. c \in Chunks /\ chunks[c].status # "absent" /\ chunks[c].status # "present"
      BY <1>4, <1>5, <1>6 DEF Hydratable
    <3>2. chunks[c] \in ChunkStates
      BY <3>1 DEF SearchInv, IInv, IngestTypeOK
    <3>. QED  BY <3>1, <3>2 DEF ChunkStates
  <2>. QED  BY <2>1, <2>2 DEF HitsOK
<1>. QED  BY <1>2, <1>5, <1>7, <1>8, SearchMoves

LEMMA QueryFailsKeeps ==
    ASSUME SearchInv, NEW q \in Queries, QueryFails(q) PROVE SearchInv'
<1>. DEFINE x == [query[q] EXCEPT !.step = "failed"]
<1>1. query[q] \in SearchStates /\ SearchOK(query[q], chunks)
      /\ query[q].step \in {"dense", "sparse", "hydrate"}
  BY DEF QueryFails, SearchInv, QueriesInv
<1>2. query' = [query EXCEPT ![q] = x] /\ FailsElsewhere
  BY DEF QueryFails, SearchInv
<1>3. /\ x \in SearchStates /\ x.step = "failed" /\ x.dense = query[q].dense
      /\ x.sparse = query[q].sparse /\ x.fused = query[q].fused /\ x.hits = query[q].hits
  BY <1>1 DEF SearchStates
<1>. HIDE DEF x
<1>4. SearchOK(x, chunks)
  BY <1>1, <1>3 DEF SearchOK
<1>. QED  BY <1>2, <1>3, <1>4, SearchMoves

\* Every step of the store, of a run or of a search keeps the invariant.
THEOREM SearchIsInductive == Spec => []SearchInv
<1>1. SearchInv /\ [Next]_vars => SearchInv'
  <2>. SUFFICES ASSUME SearchInv, [Next]_vars PROVE SearchInv'
    OBVIOUS
  <2>1. CASE IngestNext /\ UNCHANGED query
    BY <2>1, StoreMoves
  <2>2. ASSUME NEW q \in Queries, StartQuery(q) /\ UNCHANGED ingestVars PROVE SearchInv'
    BY <2>2, StartQueryKeeps
  <2>3. ASSUME NEW q \in Queries, SearchStep(q) PROVE SearchInv'
    BY <2>3, DenseLegKeeps, SparseLegKeeps, HydrateKeeps DEF SearchStep
  <2>4. ASSUME NEW q \in Queries, QueryFails(q) PROVE SearchInv'
    BY <2>4, QueryFailsKeeps
  <2>5. CASE UNCHANGED vars
    BY <2>5, StoreMoves DEF vars
  <2>. QED  BY <2>1, <2>2, <2>3, <2>4, <2>5 DEF Next
<1>. QED  BY <1>1, InitSearchInv, PTL DEF Spec

-----------------------------------------------------------------------------
(* The theorems *)

\* The variables of the searches and of the store keep their types.
THEOREM SearchTypeCorrect == Spec => []TypeOK
<1>1. SearchInv => TypeOK
  BY DEF SearchInv, SearchStates, Orderings, IInv, TypeOK
<1>. QED  BY <1>1, SearchIsInductive, PTL

\* Whatever the legs returned and have in common, and however many ids tie, the search
\* goes on with the top_k best by the score as doubles sum it, equal doubles by id: the
\* fusion is the whole ranking, and the cut at top_k takes a prefix of it.
THEOREM FusionIsByScore == Spec => []FusionRanksByScore
<1>1. SearchInv => FusionRanksByScore
  <2>1. SUFFICES ASSUME SearchInv, NEW q \in Queries, query[q].step = "hydrate"
                 PROVE  LET x == query[q]  legs == Legs(x)  all == Ranked(legs) IN
                        /\ ToSet(x.fused) \subseteq all
                        /\ Len(x.fused) = IF Cardinality(all) < x.search.top_k
                                          THEN Cardinality(all) ELSE x.search.top_k
                        /\ IsRanking(legs, x.fused)
                        /\ \A a \in ToSet(x.fused), b \in all \ ToSet(x.fused) :
                              IsRanking(legs, <<a, b>>)
    BY DEF FusionRanksByScore
  <2>. DEFINE x == query[q]
              legs == Legs(x)
              all == Ranked(legs)
              f == Fuse(legs)
              top == Trim(f, x.search.top_k)
              Comes(a, b) == \/ Score(legs, a) > Score(legs, b)
                             \/ Score(legs, a) = Score(legs, b) /\ a < b
  <2>2. x \in SearchStates /\ x.fused = top
    BY <2>1 DEF SearchInv, QueriesInv, SearchOK
  <2>3. legs \in Seq(LegsOf(Chunks)) /\ x.search.top_k \in Nat /\ Chunks \in SUBSET Nat
    BY <2>2, LegsType
  <2>. HIDE DEF x, legs
  <2>4. /\ f \in Seq(Chunks) /\ ToSet(f) = all /\ Len(f) = Cardinality(all)
        /\ IsRanking(legs, f)
    BY <2>3, FuseIsTheRanking
  <2>. HIDE DEF f, all
  <2>5. /\ top \in Seq(Chunks)
        /\ Len(top) = IF Len(f) < x.search.top_k THEN Len(f) ELSE x.search.top_k
        /\ \A i \in 1 .. Len(top) : i \in 1 .. Len(f) /\ top[i] = f[i]
    BY <2>3, <2>4, TrimProperties
  <2>. HIDE DEF top
  <2>6. \A i, j \in 1 .. Len(f) : i < j => Comes(f[i], f[j])
    BY <2>4 DEF IsRanking
  <2>. HIDE DEF Comes
  <2>7. ToSet(top) \subseteq all
    BY <2>4, <2>5 DEF ToSet
  <2>8. \A i, j \in 1 .. Len(top) : i < j => Comes(top[i], top[j])
    BY <2>5, <2>6
  <2>9. IsRanking(legs, top)
    BY <2>5, <2>8 DEF IsRanking, Comes
  <2>10. ASSUME NEW a \in ToSet(top), NEW b \in all \ ToSet(top) PROVE IsRanking(legs, <<a, b>>)
    <3>1. PICK i \in 1 .. Len(top) : top[i] = a
      BY <2>5 DEF ToSet
    <3>2. PICK j \in 1 .. Len(f) : f[j] = b
      BY <2>4 DEF ToSet
    <3>3. Len(top) \in Nat /\ ~(j \in 1 .. Len(top))
      BY <2>5, <2>10, <3>2 DEF ToSet
    <3>4. i < j
      BY <3>1, <3>2, <3>3
    <3>5. Comes(a, b)
      BY <2>5, <2>6, <3>1, <3>2, <3>4
    <3>6. DOMAIN <<a, b>> = {1, 2} /\ <<a, b>>[1] = a /\ <<a, b>>[2] = b
      OBVIOUS
    <3>. QED  BY <3>5, <3>6 DEF IsRanking, Comes
  <2>. QED  BY <2>2, <2>4, <2>5, <2>7, <2>9, <2>10 DEF x, legs, all
<1>. QED  BY <1>1, SearchIsInductive, PTL

\* For every k, every weights and every precision of the arithmetic, a chunk that no leg
\* ranks below another one, and whose id is the smaller, comes before it: it scores no
\* less, so that the key puts it first, and the cut at top_k keeps it if it keeps the
\* other.
THEOREM RanksDecide == Spec => []BetterRanksComeFirst
<1>1. SearchInv => BetterRanksComeFirst
  <2>1. SUFFICES ASSUME SearchInv, NEW q \in Queries, query[q].step = "hydrate",
                        NEW a \in Ranked(Legs(query[q])), NEW b \in Ranked(Legs(query[q])),
                        a < b, NoLower(Legs(query[q]), a, b),
                        NEW j \in DOMAIN query[q].fused, query[q].fused[j] = b
                 PROVE  \E i \in DOMAIN query[q].fused : i < j /\ query[q].fused[i] = a
    BY DEF BetterRanksComeFirst
  <2>. DEFINE x == query[q]
              legs == Legs(x)
              f == Fuse(legs)
              top == Trim(f, x.search.top_k)
  <2>2. x \in SearchStates /\ x.fused = top
    BY <2>1 DEF SearchInv, QueriesInv, SearchOK
  <2>3. legs \in Seq(LegsOf(Chunks)) /\ x.search.top_k \in Nat /\ Chunks \in SUBSET Nat
    BY <2>2, LegsType
  <2>4. a \in Ranked(legs) /\ b \in Ranked(legs) /\ NoLower(legs, a, b)
        /\ j \in DOMAIN top /\ top[j] = b
    BY <2>1, <2>2
  <2>. HIDE DEF x, legs
  <2>5. f \in Seq(Chunks) /\ ToSet(f) = Ranked(legs) /\ IsRanking(legs, f)
    BY <2>3, FuseIsTheRanking
  <2>6. a \in Nat /\ b \in Nat /\ Score(legs, a) \in Nat /\ Score(legs, b) \in Nat
    <3>1. /\ Scores(legs) \in [Ranked(legs) -> Nat]
          /\ \A id \in Ranked(legs) : Scores(legs)[id] = Score(legs, id)
          /\ Ranked(legs) \in FiniteSubsetsOf(Chunks)
      BY <2>3, ScoresAreTheDocstrings
    <3>. QED  BY <2>3, <2>4, <3>1 DEF FiniteSubsetsOf
  <2>7. Score(legs, b) <= Score(legs, a)
    BY <2>3, <2>4, NoLowerScoresNoLess
  <2>. HIDE DEF f
  <2>8. /\ top \in Seq(Chunks)
        /\ Len(top) = IF Len(f) < x.search.top_k THEN Len(f) ELSE x.search.top_k
        /\ \A i \in 1 .. Len(top) : i \in 1 .. Len(f) /\ top[i] = f[i]
    BY <2>3, <2>5, TrimProperties
  <2>. HIDE DEF top
  <2>9. j \in 1 .. Len(top) /\ j \in DOMAIN f /\ f[j] = b
    BY <2>4, <2>5, <2>8
  <2>10. PICK i \in DOMAIN f : f[i] = a
    BY <2>4, <2>5 DEF ToSet
  <2>11. i < j
    <3>1. SUFFICES ASSUME j < i \/ i = j PROVE FALSE
      BY <2>5, <2>9, <2>10
    <3>2. CASE i = j
      BY <2>1, <2>6, <2>9, <2>10, <3>2
    <3>3. CASE j < i
      <4>1. \/ Score(legs, b) > Score(legs, a)
            \/ Score(legs, b) = Score(legs, a) /\ b < a
        BY <2>5, <2>9, <2>10, <3>3 DEF IsRanking
      <4>. QED  BY <2>1, <2>6, <2>7, <4>1
    <3>. QED  BY <3>1, <3>2, <3>3
  <2>12. i \in DOMAIN top /\ top[i] = a
    BY <2>5, <2>8, <2>9, <2>10, <2>11
  <2>. QED  BY <2>2, <2>11, <2>12 DEF x
<1>. QED  BY <1>1, SearchIsInductive, PTL

\* The hits are the fused ids in their order without those whose rows were deleted
\* between the legs and the hydration; no writer, embedder or upload beside the search
\* loses another one, and a row that is lost stays lost.
THEOREM HitsAreComplete == Spec => []HitsMissOnlyDeleted
<1>1. SearchInv => HitsMissOnlyDeleted
  BY DEF SearchInv, QueriesInv, HitsOK, HitsMissOnlyDeleted
<1>. QED  BY <1>1, SearchIsInductive, PTL
=============================================================================
