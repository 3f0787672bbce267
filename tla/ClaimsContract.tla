--------------------------- MODULE ClaimsContract ---------------------------
(***************************************************************************)
(* The two guards of the claims table, which two files state separately:   *)
(*  - contracts/claims.schema.json, against which scripts/ingest_claims.py *)
(*    validates every claim before it writes anything;                     *)
(*  - the CHECK constraints of models/claim.py, which hold the rows.       *)
(*                                                                         *)
(* A claim is what the JSON object says, as far as either guard looks:     *)
(* keys is the set of keys of its location besides kind, normalized says   *)
(* whether value.normalized is a number, scaled whether value has both     *)
(* scale_multiplier and scale_source, and fits whether every value fits    *)
(* its column (String(16) for cell_ref, a 32-bit integer for page and the  *)
(* span, no NUL in a text), of which the schema says nothing.  An absent   *)
(* key and a null are both None: neither guard tells them apart.           *)
(***************************************************************************)
CONSTANT None

LocationKeys == {"file", "page", "char_start", "char_end", "bbox", "sheet", "cell_ref",
                 "paragraph"}
Span == {"char_start", "char_end"}

-----------------------------------------------------------------------------
(* The contract *)

ContractStatuses == {"proposed", "cited", "rejected", "missing", "conflicted",
                     "inconclusive", "partially_verified", "verified"}
ContractMethods == {"exact_span", "formula_reexecution", "direct_read", "reranker",
                    "human_review"}
ContractKinds == {"quantitative", "qualitative"}
ContractClasses == {"related_party", "operating_model", "market_definition",
                    "competitive_position", "commercial_terms", "risk_or_dependency",
                    "plan_or_commitment"}
Periods == {"A", "E", "P"}

ASSUME ContractAssumption ==
    None \notin ContractMethods \cup ContractClasses \cup ContractKinds \cup Periods

\* The three shapes of location.oneOf: "file" stands for every key that is only
\* there for debugging.
Required == [pdf |-> {"page"}, xlsx |-> {"sheet", "cell_ref"}, docx |-> {"paragraph"}]
Allowed == [pdf  |-> {"file", "page", "bbox"} \cup Span,
            xlsx |-> {"file", "sheet", "cell_ref"},
            docx |-> {"file", "paragraph"} \cup Span]

WellFormed(claim) ==
    /\ claim.status \in ContractStatuses
    /\ claim.verification_method \in ContractMethods \cup {None}
    /\ claim.claim_kind \in ContractKinds \cup {None}
    /\ claim.assertion_class \in ContractClasses \cup {None}
    /\ claim.period_kind \in Periods \cup {None}

LocationIsTyped(claim) ==
    /\ claim.kind \in {"pdf", "xlsx", "docx"}
    /\ Required[claim.kind] \subseteq claim.keys
    /\ claim.keys \subseteq Allowed[claim.kind]

\* What was found in a linear text has its exact span, and what is missing has none.
SpanIsAllOrNothing(claim) ==
    /\ claim.status # "missing" /\ claim.kind \in {"pdf", "docx"} => Span \subseteq claim.keys
    /\ claim.status = "missing" => Span \cap claim.keys = {}

CheckedHasMethod(claim) ==
    claim.status \in {"cited", "conflicted", "inconclusive", "partially_verified", "verified"}
        => claim.verification_method # None

MagnitudeHasScale(claim) ==
    claim.value_type # "text" /\ claim.normalized => claim.scaled

QualitativeIsText(claim) ==
    claim.claim_kind = "qualitative" =>
        claim.assertion_class # None /\ claim.value_type = "text" /\ ~claim.normalized

ContractAdmits(claim) ==
    /\ WellFormed(claim)
    /\ LocationIsTyped(claim)
    /\ SpanIsAllOrNothing(claim)
    /\ CheckedHasMethod(claim)
    /\ MagnitudeHasScale(claim)
    /\ QualitativeIsText(claim)

-----------------------------------------------------------------------------
(* The row *)

LocationColumns == LocationKeys \ {"file"}

\* Seeded fault: assertion_class is not carried over.
SeededRowFromClaim(claim) ==
    [status |-> claim.status, verification_method |-> claim.verification_method,
     claim_kind |-> claim.claim_kind, assertion_class |-> None,
     period_kind |-> claim.period_kind, kind |-> claim.kind,
     columns |-> claim.keys \cap LocationColumns, fits |-> claim.fits]

\* _row_from_claim; columns is the set of location columns that are not NULL.  The
\* value goes into one JSONB column, and the ids of the claim are not taken over.
RowFromClaim(claim) ==
    [status |-> claim.status, verification_method |-> claim.verification_method,
     claim_kind |-> claim.claim_kind, assertion_class |-> claim.assertion_class,
     period_kind |-> claim.period_kind, kind |-> claim.kind,
     columns |-> claim.keys \cap LocationColumns, fits |-> claim.fits]

-----------------------------------------------------------------------------
(* The constraints of the table *)

RowStatuses == {"proposed", "cited", "rejected", "missing", "conflicted",
                "inconclusive", "partially_verified", "verified"}
CheckedStatuses == {"cited", "conflicted", "inconclusive", "partially_verified", "verified"}
RowMethods == {"exact_span", "formula_reexecution", "direct_read", "reranker",
               "human_review"}
RowClasses == {"related_party", "operating_model", "market_definition",
               "competitive_position", "commercial_terms", "risk_or_dependency",
               "plan_or_commitment"}

\* The types of the columns, and those that are NOT NULL.
FitsItsColumns(row) == row.fits

EnumsHold(row) ==
    /\ row.status \in RowStatuses
    /\ row.verification_method \in RowMethods \cup {None}
    /\ row.kind \in {"pdf", "xlsx", "docx"}
    /\ row.claim_kind \in {"quantitative", "qualitative", None}
    /\ row.assertion_class \in RowClasses \cup {None}
    /\ row.period_kind \in {"A", "E", "P", None}

\* ck_claims_locator_matches_kind.
LocatorMatchesKind(row) ==
    \/ row.kind = "pdf" /\ "page" \in row.columns
    \/ row.kind = "xlsx" /\ {"sheet", "cell_ref"} \subseteq row.columns
    \/ row.kind = "docx" /\ "paragraph" \in row.columns

ChecksHold(row) ==
    /\ EnumsHold(row)
    /\ LocatorMatchesKind(row)
    /\ row.claim_kind = "qualitative" => row.assertion_class # None
    /\ row.status = "missing" \/ row.kind = "xlsx" \/ Span \subseteq row.columns
    /\ row.status = "missing" => Span \cap row.columns = {}
    /\ row.status \in CheckedStatuses => row.verification_method # None
=============================================================================
