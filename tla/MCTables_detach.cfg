\* Targets with hashes that agree: one more than find looks at.
SPECIFICATION TablesSpec
CONSTANTS
    c1 = c1
    c2 = c2
    c3 = c3
    g = g
    h = h
    i = i
    j = j
    Cpus = {c1, c2, c3}
    Requests = {8, 9}
    HeapSize = 40
    MinScale = 3
    MaxCalls = 5
    Threads = {"c1", "c2"}
    Keys <- MCKeys
    Hash <- MCHash
    Operations <- MCOperations
    Before <- MCBefore
    DefaultScale = 3
    MaxScan = 1
    MaxScale = 5
INVARIANT
    DetachTargetsAreFound
CHECK_DEADLOCK FALSE
