------------------------------ MODULE MC_RedisKit ------------------------------
EXTENDS RedisKit

CONSTANTS cl1, p1, k1, v1

MCClientOf == [p \in {p1} |-> cl1]
=============================================================================
