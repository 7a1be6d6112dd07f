CONSTANTS
    p1 = p1
    p2 = p2
    Cpus = {c1, c2}
    Pcs = {p1, p2}
    Host = {}
    Detach = {}
    Own = {}
    Follows <- MCFollows
    IblHash <- MCIblHash
    Branches <- MCBranches
    InstrumentHost = TRUE
    Fragments = {f1, f2, f3, f4}
    Routines = {r1, r2, r3, r4}
    Global = Global
SPECIFICATION Spec
SYMMETRY Symmetry
INVARIANT FoundHasInfo
