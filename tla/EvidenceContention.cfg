SPECIFICATION Spec
CONSTANTS
    p1 = p1
    p2 = p2
    p3 = p3
    v1 = v1
    a = a
    b = b
    NoOne = NoOne
    Requests = {p1, p2, p3}
    Readers = {}
    Inputs = {a, b}
    InputOf <- MCInputOf
    AUDIT_CHAIN_PARTITIONS = 2
    ChainOf <- MCTwoChains
    MAX_TRANSACTION_RETRIES = 2
    PoolSize = 2
    MaxFaults = 2
    MaxClock = 0
    CHECKPOINT_INTERVAL = 2
SYMMETRY MCSymmetry
INVARIANTS
    ChainsVerify
    EvidenceAudited
    RejectionsFollowPersist
    PrevHashCurrent
    NoUniqueViolation
    AnswersHonest
PROPERTIES
    AppendOnly
    CheckpointsAgree
    ImplementsLedger
