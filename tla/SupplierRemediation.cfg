SPECIFICATION Spec
CONSTANTS
    s1 = s1
    s2 = s2
    a1 = a1
    NoSession = NoSession
    NoAuth = NoAuth
    NoConsumer = NoConsumer
    None = None
    Own = Own
    GateOpen = TRUE
    LegacyVat = LegacyVat
    DocumentVat = DocumentVat
    MaxVersion = 3
    MaxUses = 2
    MaxPartners = 2
    Budgets <- MCBudgets
    Sessions <- MCSessions
    Auths <- MCAuths
    Operations <- PartnerCreatingModes
    Consumers <- MCConsumers
    OperationOf <- MCOperationOf
CHECK_DEADLOCK FALSE
INVARIANTS
    SupplierWritesAreSafe
    OnePartnerPerWrite
PROPERTIES
    PermanentSupplierIsResumed
