SPECIFICATION Spec
CONSTANTS
    k1 = k1
    k2 = k2
    Key <- MCKey
    Nothing = Nothing
    Garbage = Garbage
    Undecodable = Undecodable
    Raises = Raises
    MaxPuts = 5
    MaxTears = 2
INVARIANT LossBounded
PROPERTIES AckedPutIsServed ReadsNeverGoBack FileSpec
