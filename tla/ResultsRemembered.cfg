SPECIFICATION Spec
CONSTANTS
    Plans <- SpinePlans
INVARIANTS
    ResultsUpdateMemory
CHECK_DEADLOCK FALSE
