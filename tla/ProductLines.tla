---------------------------- MODULE ProductLines ----------------------------
(***************************************************************************)
(* The product line rows the workbench shows under a review: which reviews  *)
(* have them and, per source line, what the Hub knows of its product.       *)
(* `facts' are those of one review version: the source line numbers (0 is a *)
(* blank one), the open reasons, the matched supplier (0 when there is      *)
(* none), the stored match evidence and, once decided, the resolution of    *)
(* each line.                                                               *)
(***************************************************************************)
EXTENDS Naturals, Sequences, SequencesExt

PRODUCT_LINE_REASON_CODES == {"PRODUCT_NOT_FOUND", "PRODUCT_AMBIGUOUS", "PRODUCT_IDENTIFIER_MISSING"}
PRODUCT_REVIEW_REASON_CODES == PRODUCT_LINE_REASON_CODES \cup {"PRODUCT_MAPPING_INCOMPLETE"}
SUPPLIER_BLOCKER_CODES == {"SUPPLIER_NOT_FOUND", "SUPPLIER_AMBIGUOUS", "SUPPLIER_TAX_NUMBER_MISSING"}
AccountResolutionKinds == {"account_only", "accounting_resolution", "operating_expense_mapping", "fixed_asset"}

ProductLineMatchState ==
    {"matched", "product_not_found", "product_ambiguous", "identifier_missing",
     "supplier_unresolved", "resolved_without_product", "no_evidence"}

ReasonState(code) ==
    CASE code = "PRODUCT_NOT_FOUND" -> "product_not_found"
      [] code = "PRODUCT_AMBIGUOUS" -> "product_ambiguous"
      [] code = "PRODUCT_IDENTIFIER_MISSING" -> "identifier_missing"

EvidenceState(status) ==
    CASE status = "NOT_FOUND" -> "product_not_found"
      [] status = "MULTIPLE_MATCHES" -> "product_ambiguous"
      [] status = "INVALID_INPUT" -> "identifier_missing"
      [] OTHER -> "no_evidence"

Codes(facts) == {r.code : r \in facts.reasons}

\* The weightiest of the reasons recorded for a line; "" when it has none.
LineReason(facts, n) ==
    LET codes == {r.code : r \in {q \in facts.reasons : q.line = n}} \cap PRODUCT_LINE_REASON_CODES IN
    CASE codes = {} -> ""
      [] "PRODUCT_IDENTIFIER_MISSING" \in codes -> "PRODUCT_IDENTIFIER_MISSING"
      [] "PRODUCT_AMBIGUOUS" \in codes -> "PRODUCT_AMBIGUOUS"
      [] OTHER -> "PRODUCT_NOT_FOUND"

\* Without a supplier nothing is known of a product that was not found.
SupplierFirst(state, doubtful) ==
    IF state = "product_not_found" /\ doubtful THEN "supplier_unresolved" ELSE state

State(name) == [state |-> name, product |-> 0]

EvidencedState(facts, n) ==
    IF n \notin DOMAIN facts.evidence THEN State("no_evidence")
    ELSE IF facts.evidence[n].status = "MATCHED" /\ facts.evidence[n].product > 0
         THEN [state |-> "matched", product |-> facts.evidence[n].product]
         ELSE State(SupplierFirst(EvidenceState(facts.evidence[n].status), facts.supplier = 0))

PendingState(facts, n) ==
    LET reason == LineReason(facts, n) IN
    IF reason = "" THEN EvidencedState(facts, n)
    ELSE State(SupplierFirst(ReasonState(reason),
                   facts.supplier = 0 /\ Codes(facts) \cap SUPPLIER_BLOCKER_CODES # {}))

DecidedState(resolutions, n) ==
    CASE n \notin DOMAIN resolutions -> State("no_evidence")
      [] resolutions[n].kind = "product" /\ resolutions[n].product > 0 ->
            [state |-> "matched", product |-> resolutions[n].product]
      [] resolutions[n].kind \in AccountResolutionKinds -> State("resolved_without_product")
      [] OTHER -> State("no_evidence")

IsProductReview(facts, had, decided, resolutions) ==
    \/ had
    \/ Codes(facts) \cap PRODUCT_REVIEW_REASON_CODES # {}
    \/ decided /\ \E n \in DOMAIN resolutions :
                      resolutions[n].kind = "product" /\ resolutions[n].product > 0
    \/ ~decided /\ \E n \in DOMAIN facts.evidence : facts.evidence[n].status = "MATCHED"

\* A line is known by its number only, so numbers must identify lines.
Identified(numbers) == IsInjective(numbers) /\ 0 \notin {numbers[i] : i \in DOMAIN numbers}

LineProjection(facts, decided, resolutions, n) ==
    IF decided THEN DecidedState(resolutions, n) ELSE PendingState(facts, n)

\* The suggested products, for a line that is still open in this version.
HintValues(facts, pending, line, n) ==
    IF pending /\ line.state = "product_not_found" /\ n \in DOMAIN facts.hints THEN facts.hints[n] ELSE {}

\* What the line rows should show: a set of keyed rows, or that there is nothing to say.
ProductLineRows(facts, had, version, pending, resolutions) ==
    IF ~IsProductReview(facts, had, ~pending, resolutions) THEN [ok |-> TRUE, rows |-> {}]
    ELSE IF ~Identified(facts.numbers) THEN [ok |-> FALSE, rows |-> {}]
    ELSE [ok |-> TRUE, rows |->
            {LET n == facts.numbers[i]
                 line == LineProjection(facts, ~pending, resolutions, n) IN
             [key |-> n, version |-> version, supplier |-> facts.supplier, state |-> line.state,
              product |-> line.product, hints |-> HintValues(facts, pending, line, n)]
             : i \in DOMAIN facts.numbers}]
=============================================================================
