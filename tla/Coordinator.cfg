SPECIFICATION Spec
CONSTANTS
    Plans <- AllPlans
INVARIANTS
    TypeOK
    ArtifactsTraceable
    FailuresContained
PROPERTIES
    ReportsComplete
    HistoryKept
    BlockSticks
    CycleEnds
CHECK_DEADLOCK FALSE
