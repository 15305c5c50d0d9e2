\* Three pool connections, two request goroutines running any shape of
\* unit of work; db.Config.MaxOpenConns starts at 2 or 12 (both monitor branches), and the monitor may
\* move it up to 12.
CONSTANTS
    c1 = c1
    c2 = c2
    c3 = c3
    g1 = g1
    g2 = g2
    None = None
    Conns <- MCConns
    G <- MCG
    Programs <- MCPrograms
    InitMaxOpen = {2, 12}
    MaxOpenBound = 12
SPECIFICATION Spec
INVARIANTS TypeOK ConnectionsAccountedFor
PROPERTIES AllRequestsComplete CloseReturns
