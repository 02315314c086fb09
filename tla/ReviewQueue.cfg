SPECIFICATION ReviewSpec
CONSTANTS
    c1 = c1
    c2 = c2
    k1 = k1
    k2 = k2
    k3 = k3
    e1 = e1
    e2 = e2
    e3 = e3
    f1 = f1
    None = None
    Callers <- MCCallers
    Keys <- MCKeys
    Contents <- MCContents
    Facts <- MCFacts
    Invoices <- MCInvoices
    MaxVersion = 2
SYMMETRY MCSymmetry
INVARIANTS
    HistoryIsSound
    DecisionPinned
    AcceptedIsDurable
PROPERTIES
    RowsAreImmutable
