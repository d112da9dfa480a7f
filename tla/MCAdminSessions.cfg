SPECIFICATION Spec
CONSTANTS
    root = root
    ops = ops
    s1 = s1
    s2 = s2
    r1 = r1
    r2 = r2
    new = new
    Admins = {root, ops}
    Managed = {}
    SIDs <- MCSIDs
    Requests <- MCRequests
    Null = Null
    SuperUser = root
    ReadonlyUser = ops
    TTL = 2
    MaxWait = 1
    MaxTime = 6
SYMMETRY Symmetry
INVARIANTS
    TypeOK
    UsedSessionsLast
PROPERTIES
    SessionsEnd
    IdleSessionsEnd
