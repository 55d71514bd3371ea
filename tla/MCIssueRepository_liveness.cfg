CONSTANTS
    p1 = p1  p2 = p2
    i1 = i1  i2 = i2  i3 = i3  i4 = i4
    l1 = l1  l2 = l2
    NoProc = NoProc  NoId = NoId  NoRow = NoRow
    Procs <- MCProcs
    Ids <- MCIds
    LinkVals <- MCLinkVals
    Reports <- MCReports
    UpdateReqs <- MCRelink
    ResolveScopes <- MCResolveScopes
    Ops = {"CreateOrUpdate", "Update", "Delete"}
    MaxOps = 2
    LockOnFind = FALSE
    StatementsFail = FALSE
    QueryFilters = {}
SPECIFICATION FairSpec
CHECK_DEADLOCK FALSE
PROPERTY RequestsComplete
