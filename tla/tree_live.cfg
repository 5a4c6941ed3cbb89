SPECIFICATION Spec
CONSTANTS
    t1 = t1
    t2 = t2
    NoThread = NoThread
    s1 = s1
    s2 = s2
    s3 = s3
    u1 = u1
    u2 = u2
    c1 = c1
    c2 = c2
    d1 = d1
    Threads = {t1, t2}
    Services = {s1, s2, s3}
    UuidOf <- MCUuidOf
    ServicePath <- MCServicePath
    path = path
    other = other
    CharUuids = {c1, c2}
    DescUuids = {d1}
    MaxCreations = 2
SYMMETRY Symmetries
INVARIANT TypeOK
INVARIANT NextPathFree
INVARIANT DictComplete
INVARIANT DictExported
PROPERTY NeverReplaced
