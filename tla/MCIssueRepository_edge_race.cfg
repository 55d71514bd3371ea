CONSTANTS
    p1 = p1  p2 = p2
    i1 = i1  i2 = i2  i3 = i3  i4 = i4
    l1 = l1  l2 = l2
    NoProc = NoProc  NoId = NoId  NoRow = NoRow
    Procs <- MCProcs
    Ids <- MCIds
    LinkVals <- MCLinkVals
    Reports <- MCTwoRuns
    UpdateReqs <- MCUpdateReqs
    ResolveScopes <- MCResolveScopes
    Ops = {"CreateOrUpdate", "AddRelated"}
    MaxOps = 2
    LockOnFind = FALSE
    StatementsFail = TRUE
    QueryFilters = {}
SPECIFICATION Spec
SYMMETRY MCSymmetry
CHECK_DEADLOCK FALSE
INVARIANT EdgesUndirectedUnique
