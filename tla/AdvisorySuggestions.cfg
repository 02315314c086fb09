SPECIFICATION FairAdvisorySpec
CONSTANTS
    None = None
    Own = Own
    Approved = {}
    Generic0 = Generic0
    ManualOnlySuppliers = {}
    ManualOnlyCategories = {"manual"}
    Threshold = 55
    TieMargin = 5
    MaxSuggestions = 3
    Ratio <- MCRatio
    Lines <- MCLines
    Facts <- MCFacts
    Supplier = "s"
    Catalogs <- MCCatalogs
    Priors <- MCPriors
    Cutoff = 0
    MaxSets = 4
    MaxEvents = 2
INVARIANTS
    DisplayIsTrue
PROPERTIES
    SuggestionsFollow
