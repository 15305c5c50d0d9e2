----------------------------- MODULE MC_SqlStore -----------------------------
EXTENDS SqlStore, TLC

CONSTANTS c1, c2, c3, g1, g2

MCConns == {c1, c2, c3}
MCG == {g1, g2}
MCPrograms == {"plain", "acq", "tx", "acqtx", "query"}

=============================================================================
