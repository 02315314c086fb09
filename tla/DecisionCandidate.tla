------------------------- MODULE DecisionCandidate -------------------------
(***************************************************************************)
(* What the Hub makes of the decision an operator entered on the workbench  *)
(* row: the labels translated, the business context allocations checked     *)
(* against the invoice total and against the records of Odoo they name.     *)
(* 0 stands for a field left empty; amounts are in cents, percentages whole.*)
(***************************************************************************)
EXTENDS Naturals, Sequences, FiniteSets, SequencesExt, FiniteSetsExt

AllocationTypes ==
    {"sales_order_cost", "customer_recharge", "existing_purchase_order", "new_rfq_purchase",
     "project_cost", "operating_expense", "fixed_asset", "subscription_service", "internal_cost"}

\* the label shown in Odoo, the workflow it stands for and the allocation it cannot do without
WorkflowOfLabel ==
    [existing_po |-> "VENDOR_BILL", new_rfq |-> "RFQ", direct_bill |-> "VENDOR_BILL",
     expense |-> "EXPENSE", asset |-> "ASSET", subscription |-> "SUBSCRIPTION"]
RequiredAllocation ==
    [existing_po |-> "existing_purchase_order", new_rfq |-> "new_rfq_purchase",
     expense |-> "operating_expense", asset |-> "fixed_asset", subscription |-> "subscription_service"]
DirectBillConflicts == {"existing_purchase_order", "new_rfq_purchase"}

TypeSpecific(a) ==
    CASE a.type = "sales_order_cost" -> a.salesOrder > 0
      [] a.type = "customer_recharge" -> a.recharge > 0
      [] a.type = "existing_purchase_order" -> a.purchaseOrder > 0
      [] a.type = "project_cost" -> a.project > 0 \/ a.analytic > 0
      [] OTHER -> a.type \in AllocationTypes

ValidAllocation(a) ==
    /\ a.amount > 0 \/ a.percentage > 0
    /\ a.percentage <= 100
    /\ TypeSpecific(a)

SumOf(allocations, Field(_)) == FoldSeq(LAMBDA a, sum : Field(a) + sum, 0, allocations)
AmountTotal(allocations) == SumOf(allocations, LAMBDA a : a.amount)
PercentageTotal(allocations) == SumOf(allocations, LAMBDA a : a.percentage)
Every(allocations, Has(_)) == \A i \in DOMAIN allocations : Has(allocations[i])

AllocationTotals(allocations, completeness, total) ==
    IF completeness = "complete"
    THEN LET amounts == Every(allocations, LAMBDA a : a.amount > 0)
             percentages == Every(allocations, LAMBDA a : a.percentage > 0) IN
         /\ amounts \/ percentages
         /\ amounts => total > 0 /\ AmountTotal(allocations) = total
         /\ percentages => PercentageTotal(allocations) = 100
    ELSE /\ total > 0 => AmountTotal(allocations) <= total
         /\ PercentageTotal(allocations) <= 100

UniqueKeys(allocations) ==
    \A i, j \in DOMAIN allocations : allocations[i].key = allocations[j].key => i = j

OneCurrency(allocations, currency) ==
    Cardinality(({a.currency : a \in ToSet(allocations)} \cup {currency}) \ {""}) <= 1

ValidAllocationSet(allocations, completeness, total, currency) ==
    /\ Every(allocations, ValidAllocation)
    /\ UniqueKeys(allocations)
    /\ OneCurrency(allocations, currency)
    /\ AllocationTotals(allocations, completeness, total)

LabelFits(label, allocations) ==
    LET types == {a.type : a \in ToSet(allocations)} IN
    /\ label \in DOMAIN RequiredAllocation => RequiredAllocation[label] \in types
    /\ label = "direct_bill" => types \cap DirectBillConflicts = {}

ValidLineResolutions(lines) ==
    /\ \A i \in DOMAIN lines : lines[i].accountOnly => lines[i].account > 0
    /\ \A i, j \in DOMAIN lines : lines[i].line = lines[j].line => i = j

\* The candidate read from a ready row: a dismissal takes none of the selections the
\* operator left on the row, a decision takes all of them or is refused.
Refused == [ok |-> FALSE]
Candidate(entry, version, allocations) ==
    CASE entry.decision = "dismiss" ->
            [ok |-> TRUE, version |-> version, decision |-> "dismiss", workflow |-> "",
             allocations |-> <<>>, completeness |-> "", lines |-> <<>>]
      [] /\ entry.decision = "submit"
         /\ allocations = <<>> \/ ValidAllocationSet(allocations, entry.completeness, entry.total, entry.currency)
         /\ entry.label \in DOMAIN WorkflowOfLabel
         /\ LabelFits(entry.label, allocations)
         /\ ValidLineResolutions(entry.lines) ->
            [ok |-> TRUE, version |-> version, decision |-> "submit", workflow |-> WorkflowOfLabel[entry.label],
             allocations |-> allocations, completeness |-> entry.completeness, lines |-> entry.lines]
      [] OTHER -> Refused

---------------------------------------------------------------------------
(* The records of Odoo an allocation names: erp gives, per kind, a partial   *)
(* function from ids to [company, partner, ...]; company 0 is shared.        *)

Known(ids, id) == id = 0 \/ id \in DOMAIN ids
OwnCompany(ids, id, company) == id # 0 => ids[id].company = company
OwnOrShared(ids, id, company) == id # 0 => ids[id].company \in {0, company}
SamePartner(ids, id, partner) == (id # 0 /\ partner # 0) => ids[id].partner \in {0, partner}

ReferencesFound(a, erp) ==
    /\ Known(erp.partners, a.customer) /\ Known(erp.partners, a.recharge)
    /\ Known(erp.companies, a.targetCompany)
    /\ Known(erp.opportunities, a.opportunity)
    /\ Known(erp.salesOrders, a.salesOrder)
    /\ Known(erp.salesOrderLines, a.salesOrderLine)
    /\ Known(erp.purchaseOrders, a.purchaseOrder)
    /\ Known(erp.customerInvoices, a.customerInvoice)
    /\ Known(erp.analytics, a.analytic)

ReferencesInScope(a, erp, company) ==
    /\ OwnOrShared(erp.partners, a.customer, company) /\ OwnOrShared(erp.partners, a.recharge, company)
    /\ OwnOrShared(erp.opportunities, a.opportunity, company)
    /\ OwnCompany(erp.salesOrders, a.salesOrder, company)
    /\ OwnCompany(erp.purchaseOrders, a.purchaseOrder, company)
    /\ OwnCompany(erp.customerInvoices, a.customerInvoice, company)
    /\ OwnOrShared(erp.analytics, a.analytic, company)

ReferencesRelated(a, erp) ==
    /\ SamePartner(erp.opportunities, a.opportunity, a.customer)
    /\ SamePartner(erp.salesOrders, a.salesOrder, a.customer)
    /\ (a.salesOrderLine # 0 /\ a.salesOrder # 0) => erp.salesOrderLines[a.salesOrderLine].order = a.salesOrder
    /\ SamePartner(erp.customerInvoices, a.customerInvoice, IF a.recharge # 0 THEN a.recharge ELSE a.customer)
    /\ a.customerInvoice # 0 => erp.customerInvoices[a.customerInvoice].outgoing

\* a project or a subscription cannot be verified, so it cannot be named
ReferenceValid(a, erp, company) ==
    /\ ReferencesFound(a, erp)
    /\ ReferencesInScope(a, erp, company)
    /\ ReferencesRelated(a, erp)
    /\ a.project = 0 /\ a.subscription = 0

ReferencesValid(candidate, erp, company) ==
    \A i \in DOMAIN candidate.allocations : ReferenceValid(candidate.allocations[i], erp, company)

\* The key is a digest of everything the decision says and of the version it was read at.
DecisionKey(candidate) == candidate

\* The V1 button takes a dismissal or a direct bill.  A candidate does not carry its label:
\* a bill is known to be direct by the absence of a purchase order allocation.
V1Supported(candidate) ==
    \/ candidate.decision = "dismiss"
    \/ /\ candidate.workflow = "VENDOR_BILL"
       /\ \A i \in DOMAIN candidate.allocations : candidate.allocations[i].type # "existing_purchase_order"
=============================================================================
