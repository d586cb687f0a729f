SPECIFICATION Spec
CONSTANTS
    r1 = r1
    r2 = r2
    q1 = q1
    u1 = u1
    u2 = u2
    t1 = t1
    t2 = t2
    Run <- MCRun
    Query = {q1}
    Url = {u1, u2}
    Text = {t1}
    Listing <- OneListing
    Reply <- Swapped
    Error = Error
    None = None
    TopK = 2
    MaxFaults = 0
INVARIANT SecondRunIsFree
