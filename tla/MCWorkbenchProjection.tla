------------------------ MODULE MCWorkbenchProjection ------------------------
EXTENDS WorkbenchProjection

Guidance(purpose) ==
    [purpose |-> purpose, latest |-> purpose, accounted |-> FALSE, coded |-> TRUE, mappable |-> TRUE]
Facts(reasons, supplier, evidence, hints) ==
    [treatment |-> "", numbers |-> <<1>>, reasons |-> reasons, supplier |-> supplier, evidence |-> evidence, hints |-> hints,
     workflow |-> IF reasons = {} THEN "VENDOR_BILL" ELSE "MANUAL_REVIEW", guidance |-> Guidance("resale")]

\* one product line: without a supplier, without a product but with hints, matched
NoSupplier == Facts({[code |-> "SUPPLIER_NOT_FOUND", line |-> 0], [code |-> "PRODUCT_NOT_FOUND", line |-> 1]}, 0, <<>>, <<>>)
NoProduct == Facts({[code |-> "PRODUCT_NOT_FOUND", line |-> 1]}, 7, <<>>, <<{5, 6}>>)
Matched == Facts({}, 7, <<[status |-> "MATCHED", product |-> 5]>>, <<>>)
\* an expense after all: its line row is withdrawn
Expense == [Facts({[code |-> "OPERATING_EXPENSE_MAPPING_REQUIRED", line |-> 0]}, 7, <<>>, <<>>)
            EXCEPT !.treatment = "accounting_resolution"]
\* two lines of one number
Repeated(facts) == [facts EXCEPT !.numbers = <<1, 1>>]

MCInvoices == {{NoSupplier, NoProduct}, {Matched, Expense}, {Repeated(NoProduct)}}

Allocation(key, type, amount, order) ==
    [key |-> key, type |-> type, amount |-> amount, percentage |-> 0, currency |-> "TRY",
     customer |-> 0, recharge |-> 0, customerInvoice |-> 0, targetCompany |-> 0, opportunity |-> 0,
     salesOrder |-> 0, salesOrderLine |-> 0, purchaseOrder |-> order, project |-> 0, analytic |-> 0, subscription |-> 0]
Entry(decision, label, completeness, allocations, chosen) ==
    [decision |-> decision, label |-> label, completeness |-> completeness, total |-> InvoiceTotal,
     currency |-> "TRY", allocations |-> allocations, lines |-> chosen]

ChosenProduct == <<[line |-> 1, product |-> 6, accountOnly |-> FALSE, account |-> 0]>>
\* accepted: a dismissal, a direct bill by amounts and one by percentages; refused: an incomplete allocation, an order
\* of another company, a purchase order label without its order
MCEntries ==
    {Entry("dismiss", "existing_po", "complete", <<>>, <<>>),
     Entry("submit", "direct_bill", "complete",
           <<Allocation("a", "internal_cost", 6, 0), Allocation("b", "operating_expense", 4, 0)>>, ChosenProduct),
     Entry("submit", "direct_bill", "complete",
           <<[Allocation("a", "internal_cost", 50, 0) EXCEPT !.percentage = 60],
             [Allocation("b", "operating_expense", 0, 0) EXCEPT !.percentage = 40]>>, <<>>),
     Entry("submit", "direct_bill", "complete", <<Allocation("a", "internal_cost", 6, 0)>>, <<>>),
     Entry("submit", "existing_po", "complete", <<Allocation("a", "existing_purchase_order", 10, 2)>>, <<>>),
     Entry("submit", "existing_po", "complete", <<>>, <<>>)}

None == <<>>
MCErp ==
    [partners |-> None, companies |-> None, opportunities |-> None, salesOrders |-> None,
     salesOrderLines |-> None, customerInvoices |-> None, analytics |-> None,
     purchaseOrders |-> <<[company |-> 1, partner |-> 7], [company |-> 2, partner |-> 7]>>]
=============================================================================
