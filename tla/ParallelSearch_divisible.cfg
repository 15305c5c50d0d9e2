\* Slices whose length is a multiple of the thread count: the helper path.
CONSTANTS
    v1 = v1
    v2 = v2
    MCMaxLen = 4
    Vals <- MCVals
    Data <- MCDataDivisible
    Threads = {0, 1, 2}
    MaxThread = 2
SPECIFICATION Spec
INVARIANTS TypeOK MatchesSequential
PROPERTIES Terminates
