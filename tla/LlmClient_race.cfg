SPECIFICATION Spec
CONSTANTS
    c1 = c1
    c2 = c2
    c3 = c3
    k1 = k1
    loose = loose
    strict = strict
    good = good
    fine = fine
    old = old
    junk = junk
    Caller <- ThreeCallers
    Key = {k1}
    Schema = {loose, strict}
    Text = {good, fine, old, junk}
    Accepts <- MCAccepts
    NoText = NoText
    Retries = 2
    MaxFaults = 2
SYMMETRY CallerSymmetry
INVARIANTS AnswerFitsSchema RepeatIsFree RetryBudget
PROPERTIES OnlyAnswersAreCached ShadowedOnlyByARace
