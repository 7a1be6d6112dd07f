CONSTANTS
    Cpus = {c1, c2, c3}
    Branches = {b1, b2}
    Blocks = {t1, t2}
    None = None
    Stub = Stub
    Redzone = 0
SPECIFICATION Spec
INVARIANT ArrivesAtPublished
PROPERTY ImplementsResolution
PROPERTY EventuallyPatched
