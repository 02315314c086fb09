---------------------------- MODULE DecisionRules ----------------------------
(* From match results to a workflow: the deterministic rule engine, and the  *)
(* effective decision a review is classified with once an operator has       *)
(* resolved its supplier or its accounting treatment.                        *)
EXTENDS InvoiceMatching

Reason(code, line) == [code |-> code, line |-> line]
When(condition, code) == IF condition THEN {Reason(code, None)} ELSE {}

PartnerReasons(match) ==
    CASE match.status = "MATCHED" -> {}
      [] match.status = "NOT_FOUND" -> {Reason("SUPPLIER_NOT_FOUND", None)}
      [] match.status = "MULTIPLE_MATCHES" -> {Reason("SUPPLIER_AMBIGUOUS", None)}
      [] OTHER -> {Reason("SUPPLIER_TAX_NUMBER_MISSING", None)}

ProductReasonCode ==
    [NOT_FOUND        |-> "PRODUCT_NOT_FOUND",
     MULTIPLE_MATCHES |-> "PRODUCT_AMBIGUOUS",
     INVALID_INPUT    |-> "PRODUCT_IDENTIFIER_MISSING"]

ProductReasons(inv, match) ==
    {Reason(ProductReasonCode[match[i].status], inv.lines[i].num) :
        i \in {j \in DOMAIN match : match[j].status # "MATCHED"}}
    \cup When(inv.lines = <<>>, "UNSUPPORTED_INVOICE_CONTENT")

TaxReasonCode ==
    [NOT_FOUND        |-> "TAX_NOT_FOUND",
     MULTIPLE_MATCHES |-> "TAX_AMBIGUOUS",
     INVALID_INPUT    |-> "UNSUPPORTED_INVOICE_CONTENT"]

TaxReasons(inv, match) ==
    When(match.errors, "TAX_MAPPING_INCOMPLETE")
    \cup UNION {{Reason(TaxReasonCode[r.status], inv.lines[i].num) :
                    r \in {x \in Range(match.results[i]) : x.status # "MATCHED"}} :
                i \in DOMAIN match.results}

ExpenseReason(match) ==
    Reason(IF match.status = "MULTIPLE_MATCHES" THEN "OPERATING_EXPENSE_MAPPING_AMBIGUOUS"
                                                ELSE "OPERATING_EXPENSE_MAPPING_REQUIRED", None)

\* An invoice free of product identifiers is explained as an expense, not by
\* the product identifiers it never had.
ManualReviewReasons(inv, partnerReasons, productReasons, taxReasons, expense) ==
    partnerReasons \cup taxReasons \cup
        IF InvoiceIdentifierFree(inv) /\ taxReasons = {}
        THEN IF expense.status = "MATCHED" THEN {} ELSE {ExpenseReason(expense)}
        ELSE productReasons

ReturnCodes == {"IADE", "TEVKIFATIADE", "YTBIADE", "YTBTEVKIFATIADE"}

\* A return invoice is never a purchase: nothing else is even reported.
IsReturn(inv) == inv.type \in ReturnCodes

\* The three ways out: a return, a bill of products or of one expense, a
\* review.
Verdict(inv, partner, product, tax, expense, partnerReasons, productReasons, taxReasons, sourceReasons) ==
    LET billable == /\ partnerReasons \cup taxReasons \cup sourceReasons = {}
                    /\ \/ productReasons = {}
                       \/ /\ InvoiceIdentifierFree(inv)
                          /\ expense.status = "MATCHED"
                          /\ ~AmbiguousCommercial(inv)
    IN  [workflow |-> IF ~IsReturn(inv) /\ billable THEN "VENDOR_BILL" ELSE "MANUAL_REVIEW",
         reasons  |-> CASE IsReturn(inv) -> {Reason("RETURN_INVOICE_NOT_SUPPORTED", None)}
                        [] ~IsReturn(inv) /\ billable -> {}
                        [] OTHER -> sourceReasons
                                    \cup ManualReviewReasons(inv, partnerReasons, productReasons, taxReasons, expense)
                                    \cup When(AmbiguousCommercial(inv), "AMBIGUOUS_COMMERCIAL_PURCHASE"),
         partner  |-> partner,
         product  |-> product,
         tax      |-> tax,
         expense  |-> expense,
         asset    |-> None]

VerdictOf(inv, partner, product, tax, expense) ==
    Verdict(inv, partner, product, tax, expense, PartnerReasons(partner), ProductReasons(inv, product),
            TaxReasons(inv, tax), {Reason(c, None) : c \in SourceTaxReasons(inv)})

\* The engine's verdict: a workflow, the reasons for a review, and the match
\* results it rests on.
EvaluateWith(inv, w, cfg, accepted, partner) ==
    VerdictOf(inv, partner,
              ProductMatch(inv, w, EffectivePartnerMatch(partner, accepted)),
              MapExemption(inv, TaxMatch(inv, w), w, cfg),
              IF AmbiguousCommercial(inv) THEN NoExpense("NOT_FOUND") ELSE OperatingExpenseMatch(w, partner))

Evaluate(inv, w, cfg, accepted) == EvaluateWith(inv, w, cfg, accepted, PartnerMatch(inv, w))

-----------------------------------------------------------------------------
(* The effective decision.  `effect' is the review's latest supplier         *)
(* remediation effect, `res' its latest accounting resolution.               *)

\* Both kinds of accounting resolution apply only where the supplier-wide
\* mapping said nothing, and only to a resolved supplier.
ResolutionApplies(res, treatment, raw, supplier) ==
    /\ res # None
    /\ res.treatment = treatment
    /\ raw.expense.status # "MATCHED"
    /\ supplier # None

\* A supplier the operator matched to an existing partner brings that
\* partner's own expense mapping with it.
EffectiveExpense(inv, w, raw, accepted) ==
    IF /\ accepted # None
       /\ accepted.origin = "match_existing"
       /\ ~AmbiguousCommercial(inv)
       /\ raw.partner.status # "MATCHED"
    THEN OperatingExpenseMatch(w, Matched(accepted.partner))
    ELSE None

\* Only what a resolution answers is struck from the reasons.
StrippedCodes(accepted, expense, asset) ==
    {c \in {"SUPPLIER_AMBIGUOUS", "OPERATING_EXPENSE_MAPPING_REQUIRED",
            "OPERATING_EXPENSE_MAPPING_AMBIGUOUS", "AMBIGUOUS_COMMERCIAL_PURCHASE"} :
        \/ /\ c = "SUPPLIER_AMBIGUOUS"
           /\ accepted # None /\ accepted.origin = "match_existing"
        \/ /\ c \in {"OPERATING_EXPENSE_MAPPING_REQUIRED", "OPERATING_EXPENSE_MAPPING_AMBIGUOUS"}
           /\ asset # None \/ (expense # None /\ expense.status = "MATCHED")
        \/ /\ c = "AMBIGUOUS_COMMERCIAL_PURCHASE"
           /\ asset # None \/ (expense # None /\ expense.status = "MATCHED" /\ expense.by = "review")}

\* What the review is classified as: the raw verdict `raw', with the reasons
\* an operator's answer removed.
Effective(raw, accepted, asset, expense) ==
    LET reasons == {r \in raw.reasons : r.code \notin StrippedCodes(accepted, expense, asset)}
    IN  [workflow |-> IF raw.workflow = "MANUAL_REVIEW" /\ reasons # {} THEN "MANUAL_REVIEW" ELSE "VENDOR_BILL",
         reasons  |-> reasons,
         partner  |-> EffectivePartnerMatch(raw.partner, accepted),
         product  |-> raw.product,
         tax      |-> raw.tax,
         expense  |-> CASE asset # None -> None
                        [] asset = None /\ expense # None -> expense
                        [] OTHER -> raw.expense,
         asset    |-> asset]

\* A fixed asset excludes an expense, a review's own account one of the
\* supplier's mapping.
Treated(inv, w, raw, accepted, res, supplier) ==
    CASE ResolutionApplies(res, "capitalize_fixed_asset", raw, supplier) ->
            Effective(raw, accepted, res.account, None)
      [] ResolutionApplies(res, "expense_account", raw, supplier) ->
            Effective(raw, accepted, None, ExpenseResult("MATCHED", res.account, "review"))
      [] OTHER -> Effective(raw, accepted, None, EffectiveExpense(inv, w, raw, accepted))

\* An accepted supplier is consulted only where the invoice matched none; the
\* engine then runs again with it.
WithAcceptedSupplier(inv, w, cfg, raw, accepted, res) ==
    IF accepted = None
    THEN Treated(inv, w, raw, None, res, EffectiveSupplier(raw.partner, None))
    ELSE LET again == Evaluate(inv, w, cfg, accepted)
         IN  Treated(inv, w, again, accepted, res, EffectiveSupplier(again.partner, accepted))

EffectiveAfter(inv, w, cfg, effect, res, raw) ==
    WithAcceptedSupplier(inv, w, cfg, raw,
                         IF raw.partner.status = "MATCHED" THEN None ELSE AcceptedSupplier(effect, w), res)

EffectiveDecision(inv, w, cfg, effect, res) ==
    EffectiveAfter(inv, w, cfg, effect, res, Evaluate(inv, w, cfg, None))

=============================================================================
