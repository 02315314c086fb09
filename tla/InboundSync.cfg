SPECIFICATION FairSpec
CONSTANTS
  NoWorker = NoWorker
  Ettns = {i1, i2, i3}
  Broken = {i3}
  Accepted = {i2}
  Pollers = {p1, p2}
  Manual = {m1}
  PageSize = 2
  MaxPages = 2
  MaxTroubles = 1
  MaxManualRuns = 1
CHECK_DEADLOCK FALSE
INVARIANTS
    ImportsAreWhole
PROPERTIES
    EveryInvoiceIsImported
