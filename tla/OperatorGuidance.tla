-------------------------- MODULE OperatorGuidance --------------------------
(* The one next step the workbench tells the operator to take, computed from *)
(* the committed review and the facts recorded for its current version.      *)

NextActions == {"SUPPLIER", "PRODUCT", "PURPOSE", "ACCOUNTING", "DECISION", "EXECUTE", "TECHNICAL", "DONE"}

SupplierCodes == {"SUPPLIER_NOT_FOUND", "SUPPLIER_AMBIGUOUS"}
OperatingExpenseCodes == {"OPERATING_EXPENSE_MAPPING_REQUIRED", "OPERATING_EXPENSE_MAPPING_AMBIGUOUS"}
NoBillCodes == {"RETURN_INVOICE_NOT_SUPPORTED", "WITHHOLDING_TAX_NOT_SUPPORTED", "SOURCE_DOCUMENT_UNVERIFIED"}
AllPurposes == {"internal_use", "resale", "customer_project", "other_operating_expense"}

\* A blocker is answered in a fixed order: nothing can be billed, then the
\* supplier, the products, the purpose, the accounting.  `facts' are those of
\* the current version: the purpose, whether its accounting is recorded,
\* whether a line carries a product code, whether a line without a product
\* has a seller code and mapping is switched on.
BlockedAction(codes, facts) ==
    CASE codes \cap NoBillCodes # {} -> "TECHNICAL"
      [] codes \cap SupplierCodes # {} -> "SUPPLIER"
      [] "PRODUCT_NOT_FOUND" \in codes /\ facts.mappable -> "PRODUCT"
      [] codes \cap OperatingExpenseCodes # {} ->
            CASE facts.purpose \notin AllPurposes -> "PURPOSE"
              [] facts.purpose \in {"internal_use", "other_operating_expense"} -> "ACCOUNTING"
              [] OTHER -> "TECHNICAL"
      [] OTHER -> "TECHNICAL"

UnblockedAction(facts) ==
    CASE facts.coded /\ facts.purpose \notin AllPurposes -> "PURPOSE"
      [] facts.coded /\ facts.purpose \notin {"resale", "internal_use"} -> "TECHNICAL"
      [] facts.purpose = "internal_use" /\ ~facts.accounted -> "ACCOUNTING"
      [] OTHER -> "DECISION"

AfterDecision(workflow, executed) ==
    CASE workflow = "VENDOR_BILL" -> IF executed THEN "DONE" ELSE "EXECUTE"
      [] workflow = "CUSTOMER_QUOTATION" -> "TECHNICAL"
      [] OTHER -> "DONE"

NextAction(status, codes, facts, workflow, executed) ==
    CASE status \in {"DISMISSED", "RESOLVED"} -> "DONE"
      [] status = "DECISION_SUBMITTED" -> AfterDecision(workflow, executed)
      [] codes # {} -> BlockedAction(codes, facts)
      [] OTHER -> UnblockedAction(facts)

\* The previous invoice of the supplier is shown only beside these steps.
ShowsPreviousInvoice(status, action) == status = "PENDING_REVIEW" /\ action \in {"PURPOSE", "ACCOUNTING"}
=============================================================================
