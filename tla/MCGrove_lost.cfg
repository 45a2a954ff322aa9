SPECIFICATION FairGroveSpec
CONSTANTS
    n1 = n1
    n2 = n2
    w1 = w1
    w2 = w2
    Nodes = {n1, n2}
    NodeOf <- OwnNodes
    Workers = {w1, w2}
    Threads = {t1, t2}
    Jobs = {j1}
    NoNode = NoNode
    NoJob = NoJob
    NoThread = NoThread
    PollOnce = {}
    Mortal = {w1}
    ClientOps = {"register", "heartbeat", "claim_next", "start", "complete", "fail"}
    MaxRetries = 2
    MaxEpoch = 1
    RecoveryLoop = FALSE
    Faults = {}
PROPERTIES
    JobsFinish
