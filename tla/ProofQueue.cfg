SPECIFICATION FairSpec
CONSTANTS
    t1 = t1
    t2 = t2
    None = None
    Tasks = {t1, t2}
    Workers = {"plonk-prover_0"}
    MaxSubmits = 3
    MaxWriteFailures = 1
INVARIANTS
    TypeOK
    SingleFlight
    LegalHistory
    AbandonedOnlyUnlogged
    MirrorComplete
PROPERTIES
    EventuallySettled
