SPECIFICATION FairSpec
CONSTANTS
    w1 = w1
    w2 = w2
    p1 = p1
    a1 = a1
    a2 = a2
    ThisExecution = ThisExecution
    NoWorker = NoWorker
    NoRow = NoRow
    NoStep = NoStep
    NoAuth = NoAuth
    NoConsumer = NoConsumer
    Plans <- MCPlans
    PlanLength <- MCPlanLength
    RetryPolicies <- MCRetryPolicies
    Workers <- MCWorkers
    Auths <- MCAuths
    ExecuteEnabled = FALSE
    LateArrivals = FALSE
    MaxBills = 2
    MaxUses = 2
CHECK_DEADLOCK FALSE
INVARIANTS
    AtMostOneBill
    CompletedHasItsBill
    WritesAreAdmitted
PROPERTIES
    EveryWorkbenchRequestEnds
