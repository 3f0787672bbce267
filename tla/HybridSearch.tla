---------------------------- MODULE HybridSearch ----------------------------
(***************************************************************************)
(* hybrid_search of services/retrieval.py, as POST /query of               *)
(* sandbox/retrieve.py calls it, on the chunks that EvidenceIngest's runs  *)
(* and writers change meanwhile.                                           *)
(*                                                                         *)
(* A search is three SELECTs, each with a snapshot of its own (READ        *)
(* COMMITTED): the ids nearest to the query's vector, the ids whose text   *)
(* matches, and the rows of the winners.  Which chunks match, and how near *)
(* they are, depends on the data, so each leg may return any ids it could  *)
(* see, in any order, and fewer than the limit (the HNSW index is          *)
(* approximate).  Without VOYAGE_API_KEY the vector is all zero and the    *)
(* order of the dense leg means nothing; that is one of the orders too.    *)
(***************************************************************************)
EXTENDS EvidenceIngest, RankFusion

CONSTANTS
    Queries,   \* searches that may be in progress at the same time
    Searches   \* their parameters

ASSUME SearchAssumption ==
    /\ Chunks \subseteq Nat
    /\ \A s \in Searches :
          /\ s.dense \in Nat /\ s.sparse \in Nat /\ s.top_k \in Nat
          /\ s.leg_k \in Nat \cup {None}
          /\ s.document \in DataSources \cup {None}

VARIABLE query   \* query[q]: where the search q is, and what it holds

vars == <<ingestVars, query>>

NoSearch == [dense |-> 0, sparse |-> 0, top_k |-> 0, leg_k |-> None, document |-> None]
Waiting == [step |-> "idle", search |-> NoSearch, dense |-> <<>>, sparse |-> <<>>,
            fused |-> <<>>, hits |-> <<>>]

SearchInit == Init /\ query = [q \in Queries |-> Waiting]

\* The body of POST /query, or another caller's arguments.  The embedder may fail here,
\* which ends the request before there is a search.
StartQuery(q) ==
    /\ query[q] = Waiting
    /\ "query" \in setting.kinds
    /\ \E s \in Searches :
          query' = [query EXCEPT ![q].step = "dense", ![q].search = s]

FetchK(s) ==
    IF s.leg_k # None THEN s.leg_k ELSE IF s.top_k * 4 > 20 THEN s.top_k * 4 ELSE 20

\* Rankings of at most n of the ids.
Rankings(ids, n) ==
    {s \in UNION {[1 .. m -> ids] : m \in 0 .. Cardinality(ids)} :
        Len(s) <= n /\ IsInjective(s)}

InDocument(s) == {c \in Present : s.document = None \/ chunks[c].document = s.document}

DenseLeg(q) ==
    LET s == query[q].search IN
    /\ query[q].step = "dense"
    /\ \E ids \in Rankings({c \in InDocument(s) : chunks[c].embedded}, FetchK(s)) :
          query' = [query EXCEPT ![q].step = "sparse", ![q].dense = ids]

Legs(x) == <<[weight |-> x.search.dense, ranked |-> x.dense],
             [weight |-> x.search.sparse, ranked |-> x.sparse]>>

\* [:top_k].
Trim(ids, n) == SubSeq(ids, 1, IF Len(ids) < n THEN Len(ids) ELSE n)

\* The sparse leg, and the fusion, which reads nothing more.
SparseLeg(q) ==
    LET s == query[q].search IN
    /\ query[q].step = "sparse"
    /\ \E ids \in Rankings(InDocument(s), FetchK(s)) :
          LET x == [query[q] EXCEPT !.sparse = ids]
              fused == Trim(Fuse(Legs(x)), s.top_k)
          IN  query' = [query EXCEPT ![q] =
                  [x EXCEPT !.fused = fused,
                            !.step = IF fused = <<>> THEN "done" ELSE "hydrate"]]

\* Seeded fault: the rows are taken to be where the legs found them.
SeededHydratable(c) == chunks[c].status = "present" /\ chunks[c].embedded

\* What the third SELECT finds by id.
Hydratable(c) == chunks[c].status = "present"

\* rank_of.
RankOf(ids, c) == CHOOSE i \in DOMAIN ids : ids[i] = c

\* The rows of the winners that are still there, sorted by their rank.
Hits(ids) ==
    SortedBy({c \in ToSet(ids) : Hydratable(c)}, LAMBDA c, d : RankOf(ids, c) < RankOf(ids, d))

\* The third SELECT.  The legs are not looked at again.
Hydrate(q) ==
    /\ query[q].step = "hydrate"
    /\ query' = [query EXCEPT ![q].step = "done", ![q].dense = <<>>, ![q].sparse = <<>>,
                              ![q].hits = Hits(query[q].fused)]

\* The database fails under a statement.
QueryFails(q) ==
    /\ query[q].step \in {"dense", "sparse", "hydrate"}
    /\ query' = [query EXCEPT ![q].step = "failed"]
    /\ FailsElsewhere

-----------------------------------------------------------------------------
SearchStep(q) == (DenseLeg(q) \/ SparseLeg(q) \/ Hydrate(q)) /\ UNCHANGED ingestVars

Next ==
    \/ IngestNext /\ UNCHANGED query
    \/ \E q \in Queries :
          \/ StartQuery(q) /\ UNCHANGED ingestVars
          \/ SearchStep(q)
          \/ QueryFails(q)

Spec == SearchInit /\ [][Next]_vars

\* A script or an upload that runs goes on, unless it waits for another one.
FairSpec == Spec /\ \A r \in Runs : WF_vars(Progress(r) /\ UNCHANGED query)

-----------------------------------------------------------------------------
(* Properties *)

\* The type invariant.
TypeOK ==
    /\ IngestTypeOK
    /\ \A q \in Queries :
          /\ query[q].step \in {"idle", "dense", "sparse", "hydrate", "done", "failed"}
          /\ query[q].search \in Searches \cup {NoSearch}
          /\ \A leg \in {query[q].dense, query[q].sparse, query[q].fused, query[q].hits} :
                leg \in Seq(Chunks)

\* The fused ids are the top_k of all that a leg of a weight other than 0 returned, by
\* the score of the docstring as doubles sum it, equal doubles by id; whatever the legs
\* have in common.
FusionRanksByScore ==
    \A q \in Queries : query[q].step = "hydrate" =>
        LET x == query[q]  legs == Legs(x)  all == Ranked(legs) IN
        /\ ToSet(x.fused) \subseteq all
        /\ Len(x.fused) = IF Cardinality(all) < x.search.top_k
                          THEN Cardinality(all) ELSE x.search.top_k
        /\ IsRanking(legs, x.fused)
        /\ \A a \in ToSet(x.fused), b \in all \ ToSet(x.fused) : IsRanking(legs, <<a, b>>)

\* A chunk that no leg ranks below another one, and whose id is the smaller, is fused
\* before it: what doubles make of the scores never turns the ranks around, at worst it
\* leaves the two to their ids.
BetterRanksComeFirst ==
    \A q \in Queries : query[q].step = "hydrate" =>
        LET x == query[q]  legs == Legs(x)  all == Ranked(legs) IN
        \A a, b \in all : a < b /\ NoLower(legs, a, b) =>
            \A j \in DOMAIN x.fused : x.fused[j] = b =>
                \E i \in DOMAIN x.fused : i < j /\ x.fused[i] = a

\* The hits are fused ids in the fused order, each once, and miss only those that were
\* deleted between the legs and the hydration; nothing else that happens meanwhile
\* loses a hit.
HitsMissOnlyDeleted ==
    \A q \in Queries : query[q].step = "done" =>
        LET x == query[q] IN
        /\ \A i \in DOMAIN x.hits : \E m \in DOMAIN x.fused :
              /\ x.hits[i] = x.fused[m]
              /\ \A j \in DOMAIN x.hits : i < j =>
                    \E n \in DOMAIN x.fused : m < n /\ x.hits[j] = x.fused[n]
        /\ \A c \in ToSet(x.fused) \ ToSet(x.hits) : chunks[c].status = "deleted"

\* Every run that has started ends, whoever else needs the organisation or replaces
\* the chunks.
RunsEnd == \A r \in Runs : ~At(r, "idle") ~> run[r].step \in Ended
=============================================================================
