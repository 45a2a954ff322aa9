SPECIFICATION Spec
CONSTANTS
    c1 = c1
    c2 = c2
    c3 = c3
    s1 = s1
    s2 = s2
    Calls = {c1, c2, c3}
    StepOf <- MCStepOf
    ToolOf <- MCToolOf
    NoCall = NoCall
INVARIANTS
    TypeOK
    CompletedMeansDone
    ResultsHaveLogs
PROPERTIES
    ExecuteReturns
CHECK_DEADLOCK FALSE
