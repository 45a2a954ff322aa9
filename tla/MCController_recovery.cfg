SPECIFICATION Spec
CONSTANTS
    Nodes = {n1}
    NoNode = NoNode
    MaxRetries = 1
    Jobs = {j1}
    NoJob = NoJob
    Threads = {t1, t2}
    ClientOps = {"register", "heartbeat", "claim_next", "start", "complete", "fail"}
    MaxEpoch = 4
    RecoveryLoop = TRUE
    Faults = {}
SYMMETRY Symmetry
INVARIANTS
    AcknowledgedReportStands
    RetriesBounded
PROPERTIES
    StaleReportHarmless
    LedgerSpec
