--------------------------- MODULE MCHybridSearch ---------------------------
(* A small instance of HybridSearch, and with it of EvidenceIngest, for TLC. *)
EXTENDS HybridSearch

CONSTANTS r1, r2, q1, a, b, cim, uuid5

\* What admitted claims look like, one for each kind of location ...
MCCited == [status |-> "cited", verification_method |-> "exact_span", claim_kind |-> None,
            assertion_class |-> None, period_kind |-> "A", kind |-> "pdf",
            keys |-> {"file", "page", "char_start", "char_end"},
            value_type |-> "currency", normalized |-> TRUE, scaled |-> TRUE, fits |-> TRUE]
MCCell == [MCCited EXCEPT !.verification_method = "direct_read", !.kind = "xlsx",
                          !.keys = {"sheet", "cell_ref"}]
MCMissing == [MCCited EXCEPT !.status = "missing", !.verification_method = None,
                             !.kind = "docx", !.keys = {"paragraph"},
                             !.value_type = "text", !.normalized = FALSE]
MCText == [MCCited EXCEPT !.status = "proposed", !.claim_kind = "qualitative",
                          !.assertion_class = "related_party",
                          !.value_type = "text", !.normalized = FALSE]
\* ... with a cell reference of more than 16 characters, and claims to be refused.
MCLongCell == [MCCell EXCEPT !.fits = FALSE]
MCRefused == {
    [MCCited EXCEPT !.verification_method = None],
    [MCCited EXCEPT !.keys = {"page", "char_start"}],
    [MCMissing EXCEPT !.keys = {"paragraph", "char_start", "char_end"}],
    [MCText EXCEPT !.assertion_class = None],
    [MCCited EXCEPT !.scaled = FALSE],
    [MCCited EXCEPT !.status = "guessed"]}

MCCandidates == {MCCited, MCCell, MCMissing, MCText, MCLongCell} \cup MCRefused
MCPayloads == {{}} \cup {{c} : c \in MCCandidates} \cup {{MCCited, c} : c \in MCCandidates}

\* Up to two requests to the provider.
MCInputs == {<<>>, <<a>>, <<a, b>>, <<a, b, a>>}

MCSettings ==
    [kinds : {{"claims", "chunks"}}, runs : {{r1, r2}}, inputs : {MCInputs}, key : {TRUE}]
      \cup [kinds : {{"upload", "chunks"}}, runs : {{r1, r2}}, inputs : {{<<a>>, <<a, b, a>>}},
            key : {TRUE}]
      \cup [kinds : {{"chunks", "upload", "writer"}}, runs : {{r1, r2}},
            inputs : {{<<>>, <<a>>}}, key : {FALSE}]
      \cup [kinds : {{"upload", "writer", "query"}}, runs : {{r1}},
            inputs : {{<<>>}}, key : {FALSE}]
MCDocumentOf == [c \in 1 .. 3 |-> IF c = 2 THEN None ELSE cim]

\* Weights in the least units of a double.  With k = 5 and three bits the second search
\* meets chunks of the same exact score that the rounding tells apart, and chunks of
\* different exact scores that it makes equal.
MCSearches == {
    [dense |-> 64, sparse |-> 64, top_k |-> 2, leg_k |-> 2, document |-> None],
    [dense |-> 448, sparse |-> 256, top_k |-> 3, leg_k |-> None, document |-> None],
    [dense |-> 0, sparse |-> 64, top_k |-> 3, leg_k |-> None, document |-> cim]}
=============================================================================
