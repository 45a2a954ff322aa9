SPECIFICATION Spec
CONSTANTS
    Nodes = {n1, n2}
    NoNode = NoNode
    MaxRetries = 2
    Jobs = {j1}
    NoJob = NoJob
    Threads = {t1, t2}
    ClientOps = {"register", "heartbeat", "claim_next", "start", "progress", "complete", "fail", "claim"}
    MaxEpoch = 1
    RecoveryLoop = FALSE
    Faults = {"restart", "storage", "unshared"}
SYMMETRY Symmetry
INVARIANTS
    TypeOK
    ClaimLeaseExclusive
    JobOutcomeJustified
    ResultOnlyFromCompletion
PROPERTIES
    TerminalStepFinal
