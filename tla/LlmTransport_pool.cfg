SPECIFICATION Spec
CONSTANTS
    c1 = c1
    c2 = c2
    Caller <- TwoCallers
    Workers = 2
    Attempts = 2
    Nothing = Nothing
INVARIANTS TypeOK AnswerIsCurrent OverlapOnlyInThreads
PROPERTIES EveryAttemptEnds RecoversFromSlowCalls
