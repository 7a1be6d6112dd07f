SPECIFICATION ClientsSpec
CONSTANTS
    c1 = c1
    c2 = c2
    v1 = v1
    o1 = o1
    nil = nil
    Cpus = {c1, c2}
    MAX_NUM_WATCHPOINTS = 2
    Half = 8
    Bases = {3, 8, 12}
    Sizes = {2, 3}
    OperandSizes = {1, 2, 4}
    KreallocSucceeds = {TRUE}
    MaxObjects = 2
    Threads = {c1, c2}
    Globals = {v1}
    Objects = {o1}
    MAX_NUM_SECTION_IDS = 3
    MaxLocks = 2
    MAX_NUM_MESSAGES = 2
    MaxLogged = 4
    MaxReports = 2
SYMMETRY Symmetry
INVARIANTS
    
    DescriptorsAreRight
    
    ReportsAreRight
    FirstReportIsConsistent
    
