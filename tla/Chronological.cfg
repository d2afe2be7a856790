SPECIFICATION Spec
CONSTANTS
    p1 = p1
    p2 = p2
    p3 = p3
    v1 = v1
    a = a
    b = b
    NoOne = NoOne
    Requests = {p1, p2}
    Readers = {}
    Inputs = {a}
    InputOf <- MCInputOf
    AUDIT_CHAIN_PARTITIONS = 1
    ChainOf <- MCOneChain
    MAX_TRANSACTION_RETRIES = 2
    PoolSize = 2
    MaxFaults = 0
    MaxClock = 1
    CHECKPOINT_INTERVAL = 2
INVARIANTS
    Chronological
