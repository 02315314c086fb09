SPECIFICATION RecoverySpec
CONSTANTS
    w1 = w1
    w2 = w2
    p1 = p1
    a1 = a1
    a2 = a2
    ThisExecution = ThisExecution
    NoWorker = NoWorker
    NoRow = NoRow
    NoStep = NoStep
    NoAuth = NoAuth
    NoConsumer = NoConsumer
    Plans <- MCPlans
    PlanLength <- MCPlanLength
    RetryPolicies <- MCRetryPolicies
    Workers <- MCOneWorker
    Auths <- MCNoAuths
    ExecuteEnabled = TRUE
    LateArrivals = TRUE
    MaxBills = 2
    MaxUses = 2
CHECK_DEADLOCK TRUE
INVARIANTS
    OneAwaitedBill
PROPERTIES
    RetriesReachAnEnd
