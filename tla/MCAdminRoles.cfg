SPECIFICATION Spec
CONSTANTS
    root = root
    ops = ops
    s1 = s1
    s2 = s2
    r1 = r1
    r2 = r2
    new = new
    Admins = {root, ops, new}
    Managed = {root, ops, new}
    SIDs = {s1}
    Requests <- MCRequests
    Null = Null
    SuperUser = root
    ReadonlyUser = ops
    TTL = 2
    MaxWait = 1
    MaxTime = 3
SYMMETRY RequestSymmetry
PROPERTIES
    OnlySupersManage
