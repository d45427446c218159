SPECIFICATION Spec
CONSTANTS
    MaxSteps = 2
    MaxRetries = 3
    MaxCalls = 2
INVARIANTS
    AgentTypeOK
    TranscriptWellFormed
    StopsSoon
    BudgetKept
    ReplayMatches
