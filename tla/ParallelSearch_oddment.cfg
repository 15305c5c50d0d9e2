\* Any slice of up to three values split over two threads: the oddment path.
CONSTANTS
    v1 = v1
    v2 = v2
    MCMaxLen = 3
    Vals <- MCVals
    Data <- MCData
    Threads = {2}
    MaxThread = 2
SPECIFICATION Spec
INVARIANTS MatchesSequential
