----------------------------- MODULE MCClients ------------------------------
(***************************************************************************)
(* The clients of Granary. A behaviour is about one of them, or about one   *)
(* part of it: the watchpoints' instrumentation of memory operands          *)
(* ("watchpoints") and the descriptors of the bounds checker                *)
(* ("descriptors"); the policies ("policies"), the events ("events") and    *)
(* the log ("messages") of the RCU debugger; the policies of                *)
(* everything_watched_aug ("augmented"); the scan ("scan") and the walk     *)
(* over the pages ("pages") of the leak detector; the graph of the cfg      *)
(* client ("graph"). The variables x1 .. x10 hold the state of the part     *)
(* but for the descriptors, the events and the log, which have their own.   *)
(***************************************************************************)
EXTENDS Descriptors, RcuDebugger, TLC

CONSTANTS c1, c2, v1, o1, nil

VARIABLES part, x1, x2, x3, x4, x5, x6, x7, x8, x9, x10

TwoCpus == {c1, c2}

Symmetry == Permutations(TwoCpus)

Registers == <<"rax", "rcx", "rbx", "rsp", "rsi", "rdi", "r8">>

K == INSTANCE EmitUtils WITH Order <- Registers, Xmm <- <<"x0">>, StackSlots <- 32

R(r) == K!R(r)
Mem(r, n) == K!M(r, n)

\* Instructions that read, write and do both, that change the register they
\* address with, that read and write flags, that use the stack and XMM
\* registers, and that address memory by implicit operands.
Instructions ==
    {K!mov(R("rax"), Mem("rbx", 0)), K!mov(R("rbx"), Mem("rbx", 1)), K!mov(Mem("rbx", 1), R("rax")),
     K!mov(R("r8"), Mem("r8", 0)), K!I("inc", Mem("rdi", 0), K!None),
     K!I("test", R("rax"), Mem("rbx", 0)), K!I("adc", R("rax"), Mem("rbx", 0)),
     K!push(Mem("rbx", 0)), K!pop(Mem("rdi", 0)), K!I("rep_movs", K!None, K!None),
     K!I("xlat", K!None, K!None), K!mov(Mem("rdi", 0), R("rsp")), K!mov(R("rcx"), R("rax")),
     K!I("xmov", R("x0"), Mem("rsi", 0)), K!pop(R("rax")), K!push(R("rax")),
     K!mov(Mem("r8", 1), R("rdi")), K!mov(R("rsp"), Mem("rbx", 0))}

\* Those that a block ends with before a return, where no flag is live.
SomeInstructions ==
    {K!mov(R("rbx"), Mem("rbx", 1)), K!I("inc", Mem("rdi", 0), K!None), K!push(Mem("rbx", 0)),
     K!I("adc", R("rax"), Mem("rbx", 0))}

Ending(second, cti) ==
    {<<a, b, K!I(cti, K!None, K!None)>> : a \in Instructions, b \in second}

W == INSTANCE Watchpoints
        WITH Order <- Registers, Xmm <- <<"x0">>, StackSlots <- 32,
             Blocks <- Ending(Instructions, "jb") \cup Ending(SomeInstructions, "ret"),
             Watched <- {{"rbx"}, {"rsi", "rdi", "r8"}},
             job <- x1, phase <- x2, code <- x3, st <- x4

-----------------------------------------------------------------------------

Op(op) == [op |-> op, to |-> 0]
To(op, n) == [op |-> op, to |-> n]

\* Nested sections, a call before and in a section, and a branch in it.
P == INSTANCE FaultPolicies
        WITH Client <- "rcudbg", Cpus <- TwoCpus, Entries <- {1},
             Functions <- <<<<Op("access"), To("call", 2), Op("lock"), Op("lock"), To("call", 2),
                              To("jmp", 7), Op("unlock"), Op("access"), Op("unlock"), Op("ret")>>,
                            <<Op("access"), Op("access"), Op("ret")>>>>,
             cache <- x1, patched <- x2, cpu <- x3, native <- x4

\* Accesses at the start of a block, behind it and behind a call.
A == INSTANCE FaultPolicies
        WITH Client <- "aug", Cpus <- TwoCpus, Entries <- {1},
             Functions <- <<<<Op("access"), To("call", 2), Op("access"), Op("ret")>>,
                            <<Op("access"), Op("access"), Op("ret")>>>>,
             cache <- x1, patched <- x2, cpu <- x3, native <- x4

-----------------------------------------------------------------------------

\* Three tables of two pages, or a large page or a hole in place of one.
Entry(kind, prot, level, addr, pages) ==
    [kind |-> kind, prot |-> prot, level |-> level, addr |-> addr, pages |-> pages]
Hole(a) == <<Entry("hole", "none", 3, a, 2)>>
Pte(a) == {Entry("hole", "none", 4, a, 1), Entry("page", "rw_nx", 4, a, 1), Entry("page", "ro", 4, a, 1)}
Pmd(a) ==
    {Hole(a), <<Entry("page", "rw_nx", 3, a, 2)>>}
    \cup {<<Entry("table", "none", 3, a, 2), p, q>> : p \in Pte(a), q \in Pte(a + 1)}

S == INSTANCE LeakScan
        WITH Objects <- {1, 2}, Globals <- {0}, MaxScans <- 2,
             Tables <- {Hole(0) \o x \o y \o z \o Hole(8) : x \in Pmd(2), y \in Pmd(4), z \in Pmd(6)},
             Markers <- <<0, 4, 100>>,
             desc <- x1, memory <- x2, execution_state <- x3, scan <- x4, scans <- x5, before <- x6,
             table <- x7, at <- x8, st <- x9, scanned <- x10

\* Blocks with a branch in the middle, and with a return behind an indirect call.
C == INSTANCE FlowGraph
        WITH Cpus <- TwoCpus, Ctis <- <<<<"direct", "jcc">>, <<"indirect", "return">>>>,
             States <- {1, 2, 3}, Targets <- {"t1", "t2"}, FirstSize <- 1, MaxExecutions <- 3,
             Null <- nil,
             BASIC_BLOCKS <- x1, bb <- x2, cache <- x3, cpu <- x4, ran <- x5, taken <- x6,
             grown <- x7

ASSUME ClientsAssumption == ConstantsOK /\ LogOK /\ EventsOK /\ S!ConstantsOK

-----------------------------------------------------------------------------

From5 == x5 = 0 /\ x6 = 0 /\ x7 = 0
From8 == x8 = 0 /\ x9 = 0 /\ x10 = 0
From1 == x1 = 0 /\ x2 = 0 /\ x3 = 0 /\ x4 = 0

Others ==
    \/ part = "watchpoints" /\ W!Init /\ From5 /\ From8
    \/ part = "policies" /\ P!Init /\ From5 /\ From8
    \/ part = "augmented" /\ A!Init /\ From5 /\ From8
    \/ part = "scan" /\ S!Init /\ x7 = 0 /\ From8
    \/ part = "pages" /\ S!WalkInit /\ From1 /\ x5 = 0 /\ x6 = 0
    \/ part = "graph" /\ C!Init /\ From8

\* What the descriptors, the events and the log have in the other parts.
NoDescriptors ==
    /\ env = 0 /\ live = {} /\ pointers = {} /\ DESCRIPTORS = 0 /\ NEXT_COUNTER_INDEX = 0
    /\ free_list = 0 /\ cpu = 0
NoEvents ==
    /\ thread = 0 /\ reg = 0 /\ memory = 0 /\ NEXT_SECTION_ID = 0 /\ taken = 0 /\ assigned = 0
    /\ last = [thread |-> c1, event |-> "none", ptr |-> 0, said |-> {}]
NoLog ==
    /\ NEXT_LOG_OFFSET = 0 /\ MESSAGES = 0 /\ writer = 0 /\ reader = 0 /\ logged = 0 /\ reports = 0
    /\ printed = [m |-> Empty, i |-> 0, report |-> 0]

ClientsInit ==
    \/ part = "descriptors" /\ Init /\ NoEvents /\ NoLog /\ From1 /\ From5 /\ From8
    \/ part = "events" /\ EventsInit /\ NoDescriptors /\ NoLog /\ From1 /\ From5 /\ From8
    \/ part = "messages" /\ LogInit /\ NoDescriptors /\ NoEvents /\ From1 /\ From5 /\ From8
    \/ NoDescriptors /\ NoEvents /\ NoLog /\ Others

ownVars == <<vars, eventVars, logVars>>
xs == <<x1, x2, x3, x4, x5, x6, x7, x8, x9, x10>>
Rest5 == <<part, x5, x6, x7, x8, x9, x10, ownVars>>
Rest8 == <<part, x8, x9, x10, ownVars>>
clientsVars == <<part, xs, ownVars>>

\* The bounds on what the other parts do may make them stop.
ClientsNext ==
    \/ part = "descriptors" /\ Next /\ UNCHANGED <<part, xs, eventVars, logVars>>
    \/ part = "events" /\ EventsNext /\ UNCHANGED <<part, xs, vars, logVars>>
    \/ part = "messages" /\ LogNext /\ UNCHANGED <<part, xs, vars, eventVars>>
    \/ part = "watchpoints" /\ W!Next /\ UNCHANGED Rest5
    \/ part = "policies" /\ P!Next /\ UNCHANGED Rest5
    \/ part = "augmented" /\ A!Next /\ UNCHANGED Rest5
    \/ part = "scan" /\ S!Next /\ UNCHANGED <<x7, Rest8>>
    \/ part = "pages" /\ S!kernel_pagetable_walk /\ UNCHANGED <<part, x1, x2, x3, x4, x5, x6, ownVars>>
    \/ part = "graph" /\ C!Next /\ UNCHANGED Rest8
    \/ part \notin {"policies", "augmented", "events"} /\ UNCHANGED clientsVars

ClientsSpec == ClientsInit /\ [][ClientsNext]_clientsVars

\* A block with instrumented memory operands leaves the program where the block
\* itself would have left it, with watched addresses in place of the others.
WatchedIsNative == part = "watchpoints" => W!WatchedIsNative

\* Code runs under the policy of the number of read-side critical sections that
\* the program is in, and blocks that fault are upgraded without an instruction
\* being skipped or repeated, whichever CPUs fault in them at the same time.
PolicyFollowsProgram ==
    /\ part = "policies" => P!PolicyFollowsProgram
    /\ part = "augmented" => A!PolicyFollowsProgram /\ A!PatchedLeadsOn

\* A scan of the leak detector reports objects that nothing leads to, and finds
\* the words of the pages that are mapped; and what the cfg client would print is
\* the blocks, counts and targets of what ran.
FindingsAreRight ==
    /\ part = "scan" => S!ScanIsRight
    /\ part = "pages" => S!RunsAreScanned
    /\ part = "graph" => C!GraphIsRight
=============================================================================
