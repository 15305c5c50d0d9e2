\* Three operations, one of which may hang; main may return at any moment;
\* up to two signals.
CONSTANTS
    o1 = o1
    o2 = o2
    o3 = o3
    Ops <- MCOps
SPECIFICATION Spec
CONSTANTS
    MayHang = {o2}
    MainMayReturn = TRUE
    MaxSignals = 2
INVARIANTS TypeOK WaitClosedAfterAllOperations
PROPERTIES ShutdownEnds
