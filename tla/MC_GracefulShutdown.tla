------------------------- MODULE MC_GracefulShutdown -------------------------
EXTENDS GracefulShutdown

CONSTANTS o1, o2, o3

MCOps == {o1, o2, o3}
=============================================================================
