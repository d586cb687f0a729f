SPECIFICATION Spec
CONSTANTS
    s1 = s1
    s2 = s2
    s3 = s3
    q1 = q1
    q2 = q2
    Searcher <- ThreeSearchers
    Query <- MCQuery
    NoResult = NoResult
    MaxFaults = 2
SYMMETRY SearchSymmetry
INVARIANTS FailureIsExhaustive AnswerHasASource RepeatIsFree
PROPERTY SettledForGood
