\* Ends with a fault, or when the slabs, pages or traces are used up.
SPECIFICATION MemorySpec
CONSTANTS
    c1 = c1
    c2 = c2
    c3 = c3
    p1 = p1
    p2 = p2
    p3 = p3
    p4 = p4
    f1 = f1
    f2 = f2
    f3 = f3
    f4 = f4
    f5 = f5
    r1 = r1
    r2 = r2
    r3 = r3
    r4 = r4
    Global = Global
    AreaCpus <- ThreeCpus
    Sizes = {1, 2}
    WrapperStart = 4
    ExecEnd = 6
    Cpus <- TwoCpus
    Pcs <- HostPcs
    Host = {p3}
    Detach = {p2}
    Own = {p4}
    Follows <- FollowsOf
    IblHash <- OneHash
    Branches <- HostBranches
    InstrumentHost = FALSE
    Fragments = {f1, f2, f3, f4, f5}
    Routines = {r1, r2, r3, r4}
SYMMETRY Symmetry
INVARIANTS
    GrantedDisjoint
    SlabsAreListed
    ObjectsAreOwned
    LookupIsRight
    
CHECK_DEADLOCK FALSE
