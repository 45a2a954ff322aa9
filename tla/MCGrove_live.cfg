SPECIFICATION FairGroveSpec
CONSTANTS
    n1 = n1
    n2 = n2
    w1 = w1
    w2 = w2
    Nodes = {n1}
    NodeOf <- SharedNode
    Workers = {w1, w2}
    Threads = {t1, t2}
    Jobs = {j1, j2}
    NoNode = NoNode
    NoJob = NoJob
    NoThread = NoThread
    PollOnce = {}
    Mortal = {}
    ClientOps = {"register", "heartbeat", "claim_next", "start", "complete", "fail"}
    MaxRetries = 2
    MaxEpoch = 1
    RecoveryLoop = FALSE
    Faults = {}
INVARIANTS
    JobAgreesWithStep
PROPERTIES
    JobsFinish
