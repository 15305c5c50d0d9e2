--------------------------- MODULE MC_ParallelSearch ---------------------------
EXTENDS ParallelSearch, SequencesExt

CONSTANTS v1, v2, MCMaxLen

MCVals == {v1, v2}

\* Every slice of at most MCMaxLen values.
MCData == BoundedSeq(MCVals, MCMaxLen)

\* The slices whose length every thread count in MCThreads divides.
MCDataDivisible == {d \in MCData : \A th \in Threads : th > 0 => Len(d) % th = 0}
=============================================================================
