SPECIFICATION DecisionSpec
CONSTANTS
    w1 = w1
    w2 = w2
    s1 = s1
    s2 = s2
    NoWorker = NoWorker
    NoRow = NoRow
    NoStep = NoStep
    NoWorkflow = NoWorkflow
    NoDecision = NoDecision
    NoEvidence = NoEvidence
    Workers <- MCWorkers
    Plans <- MCPlans
    PlanLength <- MCPlanLength
    RetryPolicies <- MCRetryPolicies
    Drafts <- MCDrafts
    RowSets <- MCRowSets
    Deployments <- MCDeployments
    Scenarios <- MCScenarios
    Editable <- MCEditable
    MaxEdits = 1
    MaxDocs = 2
CHECK_DEADLOCK FALSE
INVARIANTS
    ExecutedIsTheDecision
PROPERTIES
    DecisionRequestsEnd
