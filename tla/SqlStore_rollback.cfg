\* Three pool connections, two request goroutines each running
\* TransactionContext; Exec; Commit or Rollback.
CONSTANTS
    c1 = c1
    c2 = c2
    c3 = c3
    g1 = g1
    g2 = g2
    None = None
    Conns <- MCConns
    G <- MCG
    Programs = {"tx"}
    InitMaxOpen = {2, 12}
    MaxOpenBound = 12
SPECIFICATION Spec
INVARIANTS RollbackUndoesWrites
