SPECIFICATION Spec
CONSTANTS
    k1 = k1
    k2 = k2
    Key <- MCKey
    Nothing = Nothing
    Garbage = Garbage
    Undecodable = Undecodable
    Raises = Raises
    MaxPuts = 3
    MaxTears = 1
INVARIANT CrashSafe
