\* User space: the stub and the return of the patcher shift %rsp by the red zone.
CONSTANTS
    Cpus = {c1, c2}
    Branches = {b1}
    Blocks = {t1}
    None = None
    Stub = Stub
    Redzone = 128
SPECIFICATION SafeSpec
INVARIANT StackRestored
