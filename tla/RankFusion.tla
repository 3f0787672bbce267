----------------------------- MODULE RankFusion -----------------------------
(***************************************************************************)
(* reciprocal_rank_fusion of services/retrieval.py.  A leg is a weight and *)
(* a ranking, a sequence of different chunk ids.  Scores are doubles: each *)
(* quotient weight / (k + rank) and each sum is rounded to Precision bits. *)
(* A double is a whole number of units, the unit being the least positive  *)
(* one; weights are such numbers too.                                      *)
(***************************************************************************)
EXTENDS SequencesExt

CONSTANTS
    RRF_K,      \* the smoothing constant k
    Precision   \* the significant bits of a double

ASSUME FusionAssumption == RRF_K \in Nat /\ Precision \in Nat \ {0}

Power2[n \in Nat] == IF n = 0 THEN 1 ELSE 2 * Power2[n - 1]

\* The whole number nearest to n / d, the even one of two.
Nearest(n, d) ==
    LET q == n \div d
        r == n % d
    IN  IF 2 * r < d \/ (2 * r = d /\ q % 2 = 0) THEN q ELSE q + 1

\* The least exponent with which n / d has no more than Precision bits before the point.
Exponent(n, d) ==
    CHOOSE e \in 0 .. n :
        /\ n < d * Power2[Precision + e]
        /\ e = 0 \/ d * Power2[Precision + (e - 1)] <= n

\* n / d as a double.
Double(n, d) ==
    LET ulp == Power2[Exponent(n, d)] IN Nearest(n, d * ulp) * ulp

\* weight / (k + rank), rank from 1.
Share(weight, rank) == Double(weight, RRF_K + rank)

Plus(x, y) == Double(x + y, 1)

\* scores.get(id, 0.0).
Get(scores, id) == IF id \in DOMAIN scores THEN scores[id] ELSE 0

\* Seeded fault: a later leg overwrites the score of an earlier one.
SeededAddShare(scores, id, share) ==
    [c \in DOMAIN scores \cup {id} |-> IF c = id THEN share ELSE scores[c]]

\* scores[id] = scores.get(id, 0.0) + share
AddShare(scores, id, share) ==
    [c \in DOMAIN scores \cup {id} |->
        IF c = id THEN Plus(Get(scores, id), share) ELSE scores[c]]

\* One turn of the outer loop; a leg of weight 0 is absent.
AddLeg(scores, leg) ==
    IF leg.weight = 0 THEN scores
    ELSE FoldLeftDomain(LAMBDA sofar, rank :
                            AddShare(sofar, leg.ranked[rank], Share(leg.weight, rank)),
                        scores, leg.ranked)

Scores(legs) == FoldLeft(AddLeg, <<>>, legs)

\* sorted: the ids in the order of before.
SortedBy(ids, before(_, _)) ==
    CHOOSE s \in SetToSeqs(ids) :
        \A i, j \in DOMAIN s : i < j => before(s[i], s[j])

\* Seeded fault: sorted by (score, id) and reversed.
SeededBefore(scores, a, b) == scores[a] > scores[b] \/ (scores[a] = scores[b] /\ b < a)

\* The sort key (-score, id).
Before(scores, a, b) == scores[a] > scores[b] \/ (scores[a] = scores[b] /\ a < b)

\* The ids, best first.
Fuse(legs) ==
    LET scores == Scores(legs)
    IN  SortedBy(DOMAIN scores, LAMBDA a, b : Before(scores, a, b))

-----------------------------------------------------------------------------
(* What the docstring says of the result, in the arithmetic of the code *)

\* The leg counts for id.
Ranks(leg, id) == leg.weight # 0 /\ id \in ToSet(leg.ranked)

RankIn(leg, id) == CHOOSE rank \in DOMAIN leg.ranked : leg.ranked[rank] = id

\* The ids that some leg of a weight other than 0 ranks.
Ranked(legs) == UNION {ToSet(legs[i].ranked) : i \in {j \in DOMAIN legs : legs[j].weight # 0}}

\* "score(chunk) = sum over legs of weight[leg] / (k + rank_in_leg)", summed as doubles
\* in the order of the legs.
Score(legs, id) ==
    FoldLeft(LAMBDA sofar, leg :
                 IF Ranks(leg, id) THEN Plus(sofar, Share(leg.weight, RankIn(leg, id)))
                 ELSE sofar,
             0, legs)

\* Best first, and "ties are broken by chunk id": a tie is one of doubles.
IsRanking(legs, ids) ==
    \A i, j \in DOMAIN ids : i < j =>
        \/ Score(legs, ids[i]) > Score(legs, ids[j])
        \/ Score(legs, ids[i]) = Score(legs, ids[j]) /\ ids[i] < ids[j]

\* Every leg of a weight other than 0 that ranks b ranks a, and no lower.
NoLower(legs, a, b) ==
    \A i \in DOMAIN legs :
        Ranks(legs[i], b) => Ranks(legs[i], a) /\ RankIn(legs[i], a) <= RankIn(legs[i], b)
=============================================================================
