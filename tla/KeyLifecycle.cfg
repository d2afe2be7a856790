SPECIFICATION Spec
CONSTANTS
    keys = keys
    Payloads = {keys}
    MaxRecords = 3
    MaxRestarts = 1
    MaxWriteFailures = 0
INVARIANTS
    LogVerifies
CHECK_DEADLOCK FALSE
