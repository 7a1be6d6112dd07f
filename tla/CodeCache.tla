------------------------------ MODULE CodeCache -----------------------------
(***************************************************************************)
(* The code cache of Granary and its indirect branch lookup (IBL):         *)
(* code_cache::find, run by several CPUs at once, the part of              *)
(* basic_block::translate that publishes a trace, and the chains of IBL    *)
(* exit routines that translated code runs through without any lock.       *)
(*                                                                         *)
(* The hash table CODE_CACHE is a map whose load and store are atomic (its *)
(* lock is taken by each of them and by nothing else).  The fragment       *)
(* allocators belong to the CPUs, so that lock_coarse never waits.         *)
(***************************************************************************)
EXTENDS Naturals, FiniteSets

CONSTANTS
    Cpus,
    Pcs,             \* Addresses of native code.
    Host,            \* Those that is_host_address says yes to.
    Detach,          \* Those that find_detach_target redirects.
    Own,             \* Those that point into code that Granary generated.
    Follows,         \* Follows[p]: the blocks that a trace from p takes along.
    IblHash,         \* granary_ibl_hash, of the address without its policy.
    Branches,        \* The mangled addresses that code branches to.
    InstrumentHost,  \* CONFIG_FEATURE_INSTRUMENT_HOST
    Fragments,       \* Places for fragments; enough for every CPU to
                     \* translate every block once.
    Routines,        \* Places for IBL exit routines; likewise.
    Global           \* GLOBAL_CODE_CACHE_ROUTINE

\* A mangled address: the address, the temporary properties that find looks
\* at, and the property is_in_host_context.
Vias == {"direct", "attach", "indirect", "return"}
Addresses == [pc : Pcs, via : Vias, host : BOOLEAN]

ASSUME CodeCacheAssumption ==
    /\ Host \subseteq Pcs /\ Detach \subseteq Pcs /\ Own \subseteq Pcs
    /\ Follows \in [Pcs -> SUBSET Pcs]
    /\ DOMAIN IblHash = Pcs
    /\ Branches \subseteq Addresses
    /\ InstrumentHost \in BOOLEAN
    /\ IsFiniteSet(Routines) /\ Global \notin Routines

VARIABLES
    cache,    \* CODE_CACHE
    fragment, \* The blocks of each fragment, and whether its info is stored.
    routine,  \* The IBL exit routines.
    table,    \* IBL_JUMP_TABLE
    iblLock,  \* IBL_JUMP_TABLE_LOCK: its owner, or None.
    pc,       \* What each CPU does next.
    want,     \* The mangled address it is on its way to.
    target,   \* target_addr; where it is, while it runs.
    mine,     \* The fragment that it translates.
    todo,     \* The blocks of it that are not in the code cache yet.
    node,     \* The IBL exit routine that it is about to enter.
    pushed    \* Whether the IBL code has left its saved register on the stack.

vars == <<cache, fragment, routine, table, iblLock, pc, want, target, mine,
          todo, node, pushed>>

None == <<"none">>
NoAddress == [pc |-> Global, via |-> "none", host |-> FALSE]
Block(f, a) == <<"block", f, a>>
Hit(r) == <<"hit", r>>       \* ibl_hit_from_code_cache_find of r.
Native(p) == <<"native", p>>

Unused == [blocks |-> {}, info |-> FALSE]
NoRoutine == [guard |-> None, target |-> None, next |-> Global]

\* What find converts a mangled address to: the temporary properties are
\* removed and the context is that of the address.
Base(a) == [pc |-> a.pc, via |-> "direct", host |-> a.pc \in Host]

BaseOf(p) == [pc |-> p, via |-> "direct", host |-> p \in Host]

Indirect(a) == a.via \in {"indirect", "return"}

CanDetach(a) == a.via # "attach"

Init ==
    /\ cache = [a \in Addresses |-> None]
    /\ fragment = [f \in Fragments |-> Unused]
    /\ routine = [r \in Routines |-> NoRoutine]
    /\ table = [p \in {IblHash[q] : q \in Pcs} |-> Global]
    /\ iblLock = None
    /\ pc = [c \in Cpus |-> "run"]
    /\ want = [c \in Cpus |-> NoAddress]
    /\ target = [c \in Cpus |-> None]
    /\ mine = [c \in Cpus |-> None]
    /\ todo = [c \in Cpus |-> {}]
    /\ node = [c \in Cpus |-> Global]
    /\ pushed = [c \in Cpus |-> FALSE]

Step(c, from, to) ==
    /\ pc[c] = from
    /\ pc' = [pc EXCEPT ![c] = to]

\* find returns code: the stub or the caller jumps there.
Arrive(c, from, code) ==
    /\ Step(c, from, IF code[1] = "hit" THEN "hit" ELSE "run")
    /\ target' = [target EXCEPT ![c] = code]

-----------------------------------------------------------------------------
(* Translated code.                                                        *)

\* The stub of a direct branch, or attach, calls find.
DirectBranch(c, a) ==
    /\ ~Indirect(a)
    /\ Step(c, "run", "load")
    /\ want' = [want EXCEPT ![c] = a]
    /\ target' = [target EXCEPT ![c] = None]
    /\ UNCHANGED <<cache, fragment, routine, table, iblLock, mine, todo, node,
                   pushed>>

\* An indirect branch or a return goes through the jump table.
IndirectBranch(c, a) ==
    /\ Indirect(a)
    /\ Step(c, "run", "walk")
    /\ want' = [want EXCEPT ![c] = a]
    /\ target' = [target EXCEPT ![c] = None]
    /\ node' = [node EXCEPT ![c] = table[IblHash[a.pc]]]
    /\ pushed' = [pushed EXCEPT ![c] = TRUE]
    /\ UNCHANGED <<cache, fragment, routine, table, iblLock, mine, todo>>

\* An exit routine that is for another target jumps to the next one.
Miss(c) ==
    /\ pc[c] = "walk" /\ node[c] # Global
    /\ routine[node[c]].guard # want[c]
    /\ Step(c, "walk", "walk")
    /\ node' = [node EXCEPT ![c] = routine[node[c]].next]
    /\ UNCHANGED <<cache, fragment, routine, table, iblLock, want, target, mine,
                   todo, pushed>>

\* The first exit routine that is for the target restores the registers and
\* jumps to it.
IblHit(c) ==
    /\ pc[c] = "walk" /\ node[c] # Global
    /\ routine[node[c]].guard = want[c]
    /\ Arrive(c, "walk", routine[node[c]].target)
    /\ node' = [node EXCEPT ![c] = Global]
    /\ pushed' = [pushed EXCEPT ![c] = FALSE]
    /\ UNCHANGED <<cache, fragment, routine, table, iblLock, want, mine, todo>>

\* The end of the chain calls find.
IblMiss(c) ==
    /\ node[c] = Global
    /\ Step(c, "walk", "load")
    /\ UNCHANGED <<cache, fragment, routine, table, iblLock, want, target, mine,
                   todo, node, pushed>>

\* The second half of an exit routine, which find returns, pops the register.
ReturnedHit(c) ==
    /\ pc[c] = "hit"
    /\ Arrive(c, "hit", routine[target[c][2]].target)
    /\ pushed' = [pushed EXCEPT ![c] = FALSE]
    /\ UNCHANGED <<cache, fragment, routine, table, iblLock, want, mine, todo,
                   node>>

-----------------------------------------------------------------------------
(* code_cache::find.                                                       *)

\* With a target: an indirect branch needs an exit routine first.
Found(c, from, code) ==
    IF Indirect(want[c])
    THEN /\ Step(c, from, "ibl")
         /\ target' = [target EXCEPT ![c] = code]
    ELSE Arrive(c, from, code)

\* The address is looked up without its temporary properties.
Load_Base(c) ==
    /\ pc[c] = "load"
    /\ LET a == Base(want[c])
       IN  IF cache[a] # None THEN Arrive(c, "load", cache[a])
           ELSE Step(c, "load", "base") /\ UNCHANGED target
    /\ UNCHANGED <<cache, fragment, routine, table, iblLock, want, mine, todo,
                   node, pushed>>

\* The entry of the address as it is, with its temporary properties.
Load(c) ==
    /\ pc[c] = "load"
    /\ IF cache[want[c]] # None THEN Arrive(c, "load", cache[want[c]])
       ELSE Step(c, "load", "base") /\ UNCHANGED target
    /\ UNCHANGED <<cache, fragment, routine, table, iblLock, want, mine, todo,
                   node, pushed>>

\* The host address is not instrumented, and is reached from application code.
LeavesToHost(a) == ~InstrumentHost /\ ~a.host /\ a.pc \in Host

\* Detach points are left also if that is forbidden.
KnownTarget_Forced(a) ==
    IF a.pc \in Own THEN Native(a.pc)
    ELSE IF Base(a) # a /\ cache[Base(a)] # None THEN cache[Base(a)]
    ELSE IF a.pc \in Detach \/ LeavesToHost(a) THEN Native(a.pc)
    ELSE None

\* What find finds without translating anything.
KnownTarget(a) ==
    IF a.pc \in Own THEN Native(a.pc)
    ELSE IF Base(a) # a /\ cache[Base(a)] # None THEN cache[Base(a)]
    ELSE IF CanDetach(a) /\ (a.pc \in Detach \/ LeavesToHost(a))
    THEN Native(a.pc)
    ELSE None

FindBase(c) ==
    /\ pc[c] = "base"
    /\ LET code == KnownTarget(want[c])
       IN  IF code = None THEN Step(c, "base", "translate") /\ UNCHANGED target
           ELSE Found(c, "base", code)
    /\ UNCHANGED <<cache, fragment, routine, table, iblLock, want, mine, todo,
                   node, pushed>>

\* The blocks that the trace takes along: the ones that are not in the code
\* cache when basic_block::translate looks.
TraceFrom(a) ==
    {b \in {BaseOf(p) : p \in Follows[a.pc]} : b # a /\ cache[b] = None}

\* basic_block::translate until the fragment is encoded.
Translate(c) ==
    LET base == Base(want[c])
        f == CHOOSE f \in Fragments : fragment[f].blocks = {}
    IN  /\ pc[c] = "translate"
        /\ \E g \in Fragments : fragment[g].blocks = {}
        /\ Step(c, "translate", "add")
        /\ fragment' = [fragment EXCEPT ![f] =
                          [blocks |-> {base} \cup TraceFrom(base), info |-> FALSE]]
        /\ mine' = [mine EXCEPT ![c] = f]
        /\ todo' = [todo EXCEPT ![c] = TraceFrom(base)]
        /\ target' = [target EXCEPT ![c] = Block(f, base)]
        /\ UNCHANGED <<cache, routine, table, iblLock, want, node, pushed>>

\* code_cache::add of one of the other blocks of the trace.
Add(c) ==
    /\ Step(c, "add", "add")
    /\ \E b \in todo[c] :
          /\ cache' = [cache EXCEPT ![b] = Block(mine[c], b)]
          /\ todo' = [todo EXCEPT ![c] = @ \ {b}]
    /\ UNCHANGED <<fragment, routine, table, iblLock, want, target, mine, node,
                   pushed>>

\* store_trace_meta_info, after the loop over the blocks.
StoreInfo(c) ==
    /\ todo[c] = {}
    /\ Step(c, "add", "commit")
    /\ fragment' = [fragment EXCEPT ![mine[c]].info = TRUE]
    /\ UNCHANGED <<cache, routine, table, iblLock, want, target, mine, todo,
                   node, pushed>>

\* A trace is given back like a block.
Single_Any(c) == TRUE

\* 1 == num_translated_bbs
Single(c) == fragment[mine[c]].blocks = {Base(want[c])}

\* A single block is stored if there is no entry yet: HASH_KEEP_PREV_ENTRY.
CommitBlock(c) ==
    /\ pc[c] = "commit" /\ Single(c)
    /\ cache[Base(want[c])] = None
    /\ Found(c, "commit", target[c])
    /\ cache' = [cache EXCEPT ![Base(want[c])] = target[c]]
    /\ mine' = [mine EXCEPT ![c] = None]
    /\ UNCHANGED <<fragment, routine, table, iblLock, want, todo, node,
                   pushed>>

\* The entry exists, but the losing block is returned.
DiscardBlock_Returned(c) ==
    /\ pc[c] = "commit" /\ Single(c)
    /\ cache[Base(want[c])] # None
    /\ Found(c, "commit", target[c])
    /\ fragment' = [fragment EXCEPT ![mine[c]] = Unused]
    /\ mine' = [mine EXCEPT ![c] = None]
    /\ UNCHANGED <<cache, routine, table, iblLock, want, todo, node, pushed>>

\* Otherwise the block is given back...
DiscardBlock(c) ==
    /\ pc[c] = "commit" /\ Single(c)
    /\ cache[Base(want[c])] # None
    /\ Step(c, "commit", "winner")
    /\ fragment' = [fragment EXCEPT ![mine[c]] = Unused]
    /\ mine' = [mine EXCEPT ![c] = None]
    /\ UNCHANGED <<cache, routine, table, iblLock, want, target, todo,
                   node, pushed>>

\* ... and the entry is used.
LoadWinner(c) ==
    /\ pc[c] = "winner"
    /\ Found(c, "winner", cache[Base(want[c])])
    /\ UNCHANGED <<cache, fragment, routine, table, iblLock, want, mine, todo,
                   node, pushed>>

\* A trace replaces the entry: HASH_OVERWRITE_PREV_ENTRY.
CommitTrace(c) ==
    /\ pc[c] = "commit" /\ ~Single(c)
    /\ Found(c, "commit", target[c])
    /\ cache' = [cache EXCEPT ![Base(want[c])] = target[c]]
    /\ mine' = [mine EXCEPT ![c] = None]
    /\ UNCHANGED <<fragment, routine, table, iblLock, want, todo, node,
                   pushed>>

LockIbl(c) ==
    /\ iblLock = None
    /\ Step(c, "ibl", "routine")
    /\ iblLock' = c
    /\ UNCHANGED <<cache, fragment, routine, table, want, target, mine, todo,
                   node, pushed>>

\* A routine for the same target is changed in place.
ExitRoutine_Reused(c) ==
    LET old == {r \in Routines : routine[r].guard = want[c]}
        r == CHOOSE r \in Routines :
                IF old # {} THEN r \in old ELSE routine[r] = NoRoutine
        index == IblHash[want[c].pc]
    IN  /\ \E q \in Routines : routine[q] = NoRoutine
        /\ Step(c, "routine", "stub")
        /\ routine' = [routine EXCEPT ![r] = [guard |-> want[c],
                                              target |-> target[c],
                                              next |-> IF old # {} THEN @.next
                                                       ELSE table[index]]]
        /\ table' = [table EXCEPT ![index] = IF old # {} THEN @ ELSE r]
        /\ target' = [target EXCEPT ![c] = Hit(r)]
        /\ UNCHANGED <<cache, fragment, iblLock, want, mine, todo, node, pushed>>

\* The routine is chained to itself.
ExitRoutine_Cyclic(c) ==
    LET r == CHOOSE r \in Routines : routine[r] = NoRoutine
        index == IblHash[want[c].pc]
    IN  /\ \E q \in Routines : routine[q] = NoRoutine
        /\ Step(c, "routine", "stub")
        /\ routine' = [routine EXCEPT ![r] = [guard |-> want[c],
                                              target |-> target[c],
                                              next |-> r]]
        /\ table' = [table EXCEPT ![index] = r]
        /\ target' = [target EXCEPT ![c] = Hit(r)]
        /\ UNCHANGED <<cache, fragment, iblLock, want, mine, todo, node, pushed>>

\* ibl_exit_routine: the new routine goes to the front of its chain.
ExitRoutine(c) ==
    LET r == CHOOSE r \in Routines : routine[r] = NoRoutine
        index == IblHash[want[c].pc]
    IN  /\ \E q \in Routines : routine[q] = NoRoutine
        /\ Step(c, "routine", "stub")
        /\ routine' = [routine EXCEPT ![r] = [guard |-> want[c],
                                              target |-> target[c],
                                              next |-> table[index]]]
        /\ table' = [table EXCEPT ![index] = r]
        /\ target' = [target EXCEPT ![c] = Hit(r)]
        /\ UNCHANGED <<cache, fragment, iblLock, want, mine, todo, node, pushed>>

\* The entry of the indirect address is kept if there is one, and returned.
StoreStub(c) ==
    /\ pc[c] = "stub"
    /\ cache' = [cache EXCEPT ![want[c]] = IF @ = None THEN target[c] ELSE @]
    /\ Arrive(c, "stub", cache'[want[c]])
    /\ iblLock' = None
    /\ UNCHANGED <<fragment, routine, table, want, mine, todo, node, pushed>>

-----------------------------------------------------------------------------
Branch(c) == \E a \in Branches : DirectBranch(c, a) \/ IndirectBranch(c, a)

Lookup(c) ==
    \/ Miss(c) \/ IblHit(c) \/ IblMiss(c) \/ ReturnedHit(c)
    \/ Load(c) \/ FindBase(c)
    \/ Translate(c) \/ Add(c) \/ StoreInfo(c)
    \/ CommitBlock(c) \/ DiscardBlock(c) \/ LoadWinner(c) \/ CommitTrace(c)
    \/ LockIbl(c) \/ ExitRoutine(c) \/ StoreStub(c)

Next == \E c \in Cpus : Branch(c) \/ Lookup(c)

Spec == Init /\ [][Next]_vars

\* find runs with interrupts disabled, and generated code is not preempted for
\* ever: a CPU that is on its way takes its next step if it can.
FairSpec == Spec /\ \A c \in Cpus : WF_vars(Lookup(c))

-----------------------------------------------------------------------------
(* Properties.                                                             *)

Codes ==
    {None} \cup {Block(f, a) : f \in Fragments, a \in Addresses}
           \cup {Hit(r) : r \in Routines} \cup {Native(p) : p \in Pcs}

\* What the cache, the traces and the exit routines hold is code or nothing, and
\* the CPU that holds the lock of the IBL is the one that makes an exit routine.
TypeOK ==
    /\ cache \in [Addresses -> Codes]
    /\ fragment \in [Fragments -> [blocks : SUBSET Addresses, info : BOOLEAN]]
    /\ routine \in [Routines -> [guard : Addresses \cup {None}, target : Codes,
                                 next : Routines \cup {Global}]]
    /\ table \in [{IblHash[q] : q \in Pcs} -> Routines \cup {Global}]
    /\ iblLock \in Cpus \cup {None}
    /\ \A c \in Cpus : iblLock = c <=> pc[c] \in {"routine", "stub"}
    /\ pc \in [Cpus -> {"run", "walk", "hit", "load", "base", "translate", "add",
                        "commit", "winner", "ibl", "routine", "stub"}]
    /\ want \in [Cpus -> Addresses \cup {NoAddress}]
    /\ target \in [Cpus -> Codes]
    /\ mine \in [Cpus -> Fragments \cup {None}]
    /\ todo \in [Cpus -> SUBSET Addresses]
    /\ node \in [Cpus -> Routines \cup {Global}]
    /\ pushed \in [Cpus -> BOOLEAN]

\* code is code for a: a block in use that was translated from it, or native.
LeadsTo(code, a) ==
    \/ code = Native(a.pc)
    \/ \E f \in Fragments : code = Block(f, Base(a)) /\ Base(a) \in fragment[f].blocks

\* Whatever another CPU translated, discarded or overwrote in the meantime, a
\* CPU arrives at code for the address that it branched to, and never in a
\* block that find gave back to its allocator.
ArrivesRight ==
    \A c \in Cpus : pc[c] = "run" /\ target[c] # None => LeadsTo(target[c], want[c])

\* The same of everything that is reachable later on: the entries of the code
\* cache, and the exit routines that translated code runs through.  A block
\* that lost against another CPU is nowhere to be found.
ReachableIsLive ==
    /\ \A a \in Addresses : cache[a] # None =>
          IF Indirect(a)
          THEN \E r \in Routines : cache[a] = Hit(r) /\ routine[r].guard = a
          ELSE LeadsTo(cache[a], a)
    /\ \A r \in Routines : routine[r] # NoRoutine =>
          LeadsTo(routine[r].target, routine[r].guard)

\* An exit routine pops the register that the IBL code pushed: find returns
\* the second half of one to the IBL, and to nobody else.
StackBalanced ==
    \A c \in Cpus : /\ pc[c] = "run" => ~pushed[c]
                    /\ pc[c] = "hit" => pushed[c]

\* Code that must be instrumented (force_attach) is, also if it is a detach
\* point that other CPUs have been redirected from, unless it is Granary's own.
AttachIsInstrumented ==
    \A c \in Cpus :
        pc[c] = "run" /\ target[c] # None /\ want[c].via = "attach" =>
            target[c][1] = "block" \/ want[c].pc \in Own

\* The exit routines of a chain, from r on, with n steps.
Reaches[n \in Nat] ==
    [r \in Routines \cup {Global} |->
        IF r = Global THEN {}
        ELSE {r} \cup (IF n = 0 THEN {} ELSE Reaches[n - 1][routine[r].next])]

Chained(r) == Reaches[Cardinality(Routines)][r]

\* Exit routines are never lost: once find has stored the entry of an indirect
\* address, its routine is on the chain that the hash of the address selects,
\* so that the next branch there stays in the code cache.
StubIsChained ==
    \A a \in Addresses : Indirect(a) /\ cache[a] # None =>
        cache[a] \in {Hit(r) : r \in Chained(table[IblHash[a.pc]])}

\* Where there are detach points, host code and code that points into the code
\* cache, branches arrive at code for their target or at native code where they
\* should, one with force_attach arrives at instrumented code, and what the code
\* cache says of an indirect target is on the chain that the IBL walks for it.
HostArrivesRight == ArrivesRight /\ AttachIsInstrumented /\ StubIsChained

\* A chain changes at its front only: a CPU in the middle of it is not led
\* astray, and it ends at the global lookup routine.
ChainsGrow ==
    [][\A r \in Routines : routine[r] # NoRoutine => routine'[r] = routine[r]]_vars

\* Every branch arrives: chains end, and no lock is held for ever.
EveryBranchArrives == \A c \in Cpus : pc[c] # "run" ~> pc[c] = "run"

\* find_basic_block_info, which attach calls with what find returned and the
\* interrupt handlers with the address that was interrupted, asserts that the
\* block has its meta-information.
FoundHasInfo ==
    \A c \in Cpus : pc[c] = "run" /\ target[c][1] = "block" =>
        fragment[target[c][2]].info

=============================================================================
