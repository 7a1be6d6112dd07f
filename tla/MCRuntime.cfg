\* The parts end when their bounds are reached.
SPECIFICATION RuntimeSpec
CONSTANTS
    c1 = c1
    c2 = c2
    c3 = c3
    App = {"a1", "a2"}
    Host = {"h1", "h2", "h3"}
    DetachPoints <- DetachedIn
    Modes <- Switches
    MaxDepth = 3
    Cpus = {c1, c2}
    Policies = {"p", "q"}
    MaxIds = 8
    BootCpus = {c1, c2}
    Vectors <- Vectored
    NativeIdts <- KernelIdts
    NativeOf <- KernelCalls
    NMI = 1
    SYSCALL = 3
    LastVector = 3
    Slots = {1, 2, 3, 4}
    Granary = 1
    TextPages <- Texts
    KernelDoes = {}
    LogCpus = {c1, c2, c3}
    LogEntries = 3
    MaxEntries = 5
INVARIANTS
    
    HandlesAreVisited
    InterruptIsTransparent
    TakeOverIsSafe
    
    
    
    LogIsRight
PROPERTIES
    EventuallyTakenOver
CHECK_DEADLOCK FALSE
