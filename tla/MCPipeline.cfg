SPECIFICATION FairSpec
CONSTANTS
    MaxAttempts = 2
    Modes = {"mock", "real", "smoke"}
    Requests <- MCRequests
    Overlap = FALSE
    Times <- MCTimes
    MaxLength = 2
INVARIANTS
    TypeOK
    CompletedIsFresh
    RequestedPublished
    SubtitlesReadable
PROPERTIES
    OutputsPromised
    AttemptEnds
    
CHECK_DEADLOCK FALSE
