SPECIFICATION PathsSpec
CONSTANTS
    None = None
    Own = Own
    Generic0 = 80
    Approved <- MCApproved
    ApprovedCategories = {41}
    CompanyCurrency = "TRY"
    LegacyTolerance = 10
    Invoices <- MCInvoices
    Worlds <- MCWorlds
    Drifts <- MCDrifts
    ExemptionConfig <- MCExemptionConfig
    Effects <- MCEffects
    Accounts <- MCAccounts
    AssetAccounts <- MCAssetAccounts
    LineChoices <- MCLineChoices
    MaxVersion = 3
    MaxChanges = 1
    MaxAttempts = 2
    LegacyRequests = {r1, r2}
    Journal <- MCJournal
    MaxLegacySends = 3
    Upper <- MCUpper
    ActiveCurrencies <- MCActiveCurrencies
    Workflows = {"VENDOR_BILL", "MANUAL_REVIEW"}
    RuleSets <- MCRuleSets
    InitialRules = "plain"
    MaxEdits = 1
    Originals <- MCOriginals
    Original <- MCOriginal
    Outbox0 <- MCOutbox0
    ReferenceLists <- MCReferenceLists
    AccountCompanies = {None, Own}
    BuyerCompanies <- MCBuyerCompanies
    PageSize = 2
    Window = 1
    MaxOutboxEvents = 2
SYMMETRY LegacySymmetry
CHECK_DEADLOCK FALSE
INVARIANTS
    BilledAsInvoiced
    ShownIsWhatIsWritten
    DecisionIsComplete
    LegacyDraftsAreOnce
    LookupIsTrue
PROPERTIES
    RulesDecide
