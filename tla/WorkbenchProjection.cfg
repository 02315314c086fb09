SPECIFICATION ProjectionSpec
CONSTANTS
    Syncers = {w1, w2}
    Ticker = w1
    Invoices <- MCInvoices
    Entries <- MCEntries
    Erp <- MCErp
    Company = 1
    InvoiceTotal = 10
    Reconciler = w2
    MaxVersion = 3
    MaxEvents = 2
INVARIANTS
    ButtonDecisionIsAsSeen
PROPERTIES
    ProjectionConverges
