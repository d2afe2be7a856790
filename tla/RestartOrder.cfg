SPECIFICATION Spec
CONSTANTS
    Plans <- BranchPlans
INVARIANTS
    LatestFailureBlocks
CHECK_DEADLOCK FALSE
