SPECIFICATION MCSpec
CONSTANTS
    c1 = c1
    c2 = c2
    k1 = k1
    strict = strict
    good = good
    junk = junk
    b1 = b1
    i1 = i1
    i2 = i2
    i3 = i3
    u1 = u1
    u2 = u2
    r1 = r1
    t1 = t1
    t2 = t2
    None = None
    Error = Error
PROPERTIES EveryCallEnds EverySearchEnds EverythingEnds EveryRunEnds
