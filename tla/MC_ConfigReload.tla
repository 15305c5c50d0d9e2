--------------------------- MODULE MC_ConfigReload ---------------------------
EXTENDS ConfigReload

CONSTANTS k1, k2, f1, f2, r1

MCKeys == {k1, k2}
MCFields == <<f1, f2>>
MCReaders == {r1}
=============================================================================
