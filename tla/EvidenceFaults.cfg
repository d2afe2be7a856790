SPECIFICATION FairSpec
CONSTANTS
    p1 = p1
    p2 = p2
    p3 = p3
    v1 = v1
    a = a
    b = b
    NoOne = NoOne
    Requests = {p1, p3}
    Readers = {v1}
    Inputs = {a, b}
    InputOf <- MCInputOf
    AUDIT_CHAIN_PARTITIONS = 1
    ChainOf <- MCOneChain
    MAX_TRANSACTION_RETRIES = 2
    PoolSize = 2
    MaxFaults = 3
    MaxClock = 0
    CHECKPOINT_INTERVAL = 2
INVARIANTS
    TypeOK
    ConnectionsAccounted
    LocksScoped
    CountedOnce
    VerdictCoversEvidence
PROPERTIES
    EventuallyAnswered
    ReadYourWrites
