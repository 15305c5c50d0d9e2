\* One client, one request goroutine, one key and one value: Set, Delete
\* and Get through RedisKitClient, three calls.
CONSTANTS
    cl1 = cl1
    p1 = p1
    k1 = k1
    v1 = v1
    Absent = Absent
    None = None
    Clients = {cl1}
    Procs = {p1}
    ClientOf <- MCClientOf
    Keys = {k1}
    Vals = {v1}
    Ops = {"set", "delete", "get"}
    MaxOps = 3
SPECIFICATION Spec
INVARIANT ReadYourWrites
