SPECIFICATION Spec
CONSTANTS
    o1 = o1
    o2 = o2
    o3 = o3
    p = p
    q = q
    Objects = {o1, o2}
    Paths = {p, q}
    PathOf <- MCPathOf
    Interfaces = {1, 2}
    MaxConnects = 1
    MaxRegistrations = 3
CHECK_DEADLOCK FALSE
INVARIANT NoDanglingExport
