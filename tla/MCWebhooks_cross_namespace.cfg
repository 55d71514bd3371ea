CONSTANTS
    p1 = p1  p2 = p2
    i1 = i1  i2 = i2  i3 = i3  i4 = i4
    NoProc = NoProc  NoId = NoId  NoRow = NoRow
    Procs <- MCProcs
    Ids <- MCIds
    LinkVals <- MCLinkVals
    Hooks <- CrossHooks
    Reports = {}
    UpdateReqs = {}
    ResolveScopes = {}
    Ops = {"CreateOrUpdate", "ResolveByScope"}
    MaxOps = 2
    LockOnFind = FALSE
    StatementsFail = TRUE
    QueryFilters = {}
    SerialPerScope = FALSE
    HasClient = TRUE
    KiteAccess = {"team"}
INIT WInit
NEXT WNext
SYMMETRY MCSymmetry
CHECK_DEADLOCK FALSE
INVARIANT IssuesInCheckedNamespaces
