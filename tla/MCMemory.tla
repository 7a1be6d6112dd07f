------------------------------ MODULE MCMemory ------------------------------
(***************************************************************************)
(* The memory that code is put in, and what leads to it. A behaviour is     *)
(* about one part: the executable area, the bump allocators that divide it, *)
(* the locators of the fragments in it, or the code cache of a kernel with  *)
(* detach points and host code. The parts share no state here, so that the  *)
(* states are the sum and not the product of theirs.                        *)
(***************************************************************************)
EXTENDS ExecArea, CodeCache, TLC

CONSTANTS c1, c2, c3, p1, p2, p3, p4, f1, f2, f3, f4, f5, r1, r2, r3, r4

VARIABLES part,
          kind, slabs, alloc, global, live, kept, phase, estimate,
          curr, free, fresh, traceEstimate, fragmentSlabs, locators, storePc, trace, keptTraces, stored, look

\* Four units shared by the code cache and the gencode and two for wrappers:
\* the pointers meet, cross and overrun their limits.
ThreeCpus == {c1, c2, c3}
TwoCpus == {c1, c2}
Symmetry == Permutations(TwoCpus)

\* Slabs of four units. Objects of three units leave an unaligned rest, objects
\* of five need a slab of double size. Only the memory of transient slabs may
\* be misaligned: the others are pages.
ObjectSizes == "fragment" :> {3, 5} @@ "stub" :> {1, 3} @@ "transient" :> {2}
Misaligned == "fragment" :> {0} @@ "stub" :> {0} @@ "transient" :> {0, 1}

B == INSTANCE BumpAllocator
        WITH Cpus <- TwoCpus, SlabSize <- 4, MinAlign <- 2, Sizes <- ObjectSizes,
             Offsets <- Misaligned, MaxSlabs <- 3

\* Pages of three units, an estimate within a page and one that needs two pages.
F == INSTANCE FragmentLocator
        WITH Cpus <- TwoCpus, SlabSize <- 3, Estimates <- {1, 4}, MaxPages <- 3, MaxStored <- 3,
             pc <- storePc, estimate <- traceEstimate, slabs <- fragmentSlabs, kept <- keptTraces

Address(p, via, host) == [pc |-> p, via |-> via, host |-> host]

\* A detach point (p2), also with force_attach, a host address (p3) from the
\* application and from the host, and a return address into the code cache
\* that is jumped to (p4). The first block takes the second one along in a
\* trace, all addresses share one entry of the jump table, and host code is not
\* instrumented.
HostBranches ==
    {Address(p2, "direct", FALSE), Address(p2, "attach", FALSE),
     Address(p3, "indirect", FALSE), Address(p3, "direct", TRUE),
     Address(p4, "indirect", FALSE)}

HostPcs == {p1, p2, p3, p4}
FollowsOf == [p \in HostPcs |-> IF p = p1 THEN {p2} ELSE {}]
OneHash == [p \in HostPcs |-> 0]

ASSUME PartsAssumption == B!ConstantsOK /\ F!ConstantsOK

bumpVars == <<kind, slabs, alloc, global, live, kept, phase, estimate>>
locatorVars == <<curr, free, fresh, traceEstimate, fragmentSlabs, locators, storePc, trace,
                 keptTraces, stored, look>>

MemoryInit ==
    /\ part \in {"area", "slabs", "locators", "host"} /\ AreaInit /\ B!Init /\ F!Init /\ Init
    /\ part # "slabs" => kind = "fragment"

MemoryNext ==
    \/ part = "area" /\ AreaNext /\ UNCHANGED <<part, bumpVars, locatorVars, vars>>
    \/ part = "slabs" /\ B!Next /\ UNCHANGED <<part, areaVars, locatorVars, vars>>
    \/ part = "locators" /\ F!Next /\ UNCHANGED <<part, areaVars, bumpVars, vars>>
    \/ part = "host" /\ Next /\ UNCHANGED <<part, areaVars, bumpVars, locatorVars>>

MemorySpec == MemoryInit /\ [][MemoryNext]_<<part, areaVars, bumpVars, locatorVars, vars>>

\* Every slab is on exactly one list, that of a CPU or that of dead slabs, however
\* CPUs take slabs from each other, back out of allocations and discard blocks,
\* and its index stays within it.
SlabsAreListed == part = "slabs" => B!TypeOK /\ B!SlabOnOneList

\* An object in use lies in a slab that its own CPU allocates from and in no
\* other object, the memory of a finished translation is never given back, and a
\* trace is placed with the alignment that it was laid out for.
ObjectsAreOwned == part = "slabs" => B!LiveIsOwned /\ B!KeptStayLive /\ B!EstimateIsAligned

\* The lookup of an address, during the updates of other CPUs too, finds the
\* trace and the block that contain it and reads information that was stored,
\* and a block that is discarded takes back what it stored itself.
LookupIsRight ==
    part = "locators" =>
        F!TypeOK /\ F!FindIsRight /\ F!LookupFinds /\ F!LookupReadsInfo /\ F!TakesBackItsOwn

\* ASSERT(nullptr == *next_slab_) in store_trace_meta_info: no page that a trace
\* runs onto has a locator already.
NextSlabIsEmpty == part = "locators" => F!NextSlabIsEmpty
=============================================================================
