SPECIFICATION Spec
CONSTANTS
    c1 = c1
    Conn <- OneConn
    Task <- OneConn
    Request <- MCRequest
    Absent = Absent
    MaxChunks = 2
    MaxCancels = 2
INVARIANT DisconnectsAreReal
