SPECIFICATION Spec
CONSTANTS
    Nodes = {n1}
    NoNode = NoNode
    MaxRetries = 1
    Jobs = {j1}
    NoJob = NoJob
    Threads = {t1}
    ClientOps = {"register", "heartbeat", "claim_next"}
    MaxEpoch = 4
    RecoveryLoop = TRUE
    Faults = {}

INVARIANTS
    ReassignedStepClaimable
