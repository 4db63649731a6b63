\* Three sweeps, in a process each or two of them in one.
SPECIFICATION ObSpec
CONSTANTS
    s1 = s1
    s2 = s2
    s3 = s3
    p1 = p1
    p2 = p2
    p3 = p3
    Items = {i1, i2}
    Sweeps = {s1, s2, s3}
    Owners = {p1, p2, p3}
    Layouts <- BothLayouts
    NoOwner = NoOwner
    Lease = 1
    Batch = 2
    MaxWait = 1
    MaxFaults = 2
INVARIANTS DispatchedWasPublished BacklogIsIndexed LiveLeaseIsExclusive
PROPERTY DueIsDispatched
