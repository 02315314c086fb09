SPECIFICATION RuntimeFairSpec
CONSTANTS
    w1 = w1
    w2 = w2
    p1 = p1
    p2 = p2
    NoWorker = NoWorker
    NoRow = NoRow
    NoStep = NoStep
    Workers <- MCWorkers
    Plans <- MCPlans
    PlanLength <- MCPlanLength
    RetryPolicies <- MCRetryPolicies
INVARIANTS
    HistoryReplaysToRow
    CheckpointResumable
    NeverStuckRunning
    OneStrategyAtATime
    AnswerIsDurable
PROPERTIES
    ImplementsLedger
    EveryRequestIsAnswered
