--------------------------- MODULE BumpAllocator ----------------------------
(***************************************************************************)
(* The bump-pointer allocators of Granary (granary/bump_allocator.h), one  *)
(* per CPU, and the ways Granary uses them:                                *)
(*                                                                         *)
(*  - the fragment allocator, which holds the translated blocks: measured, *)
(*    backed out of and allocated again by basic_block::translate, backed  *)
(*    out of once more if another CPU translated the block first;          *)
(*  - the stub allocator: the same, but its dead slabs are not shared;     *)
(*  - the transient allocators, whose objects are all freed at the next    *)
(*    entry into Granary (granary::enter).                                 *)
(*                                                                         *)
(* Slabs are linked lists.  A slab moves between the list that its         *)
(* allocator allocates from, the free list of the allocator and a global   *)
(* free list that the CPUs share.  An operation of an allocator touches    *)
(* only private state and, in one critical section under a try-lock, the   *)
(* global list; it is one action, in which the try-lock may fail, as it    *)
(* does while another CPU is in its critical section.                      *)
(***************************************************************************)
EXTENDS Integers, Sequences, FiniteSetsExt, Functions

CONSTANTS
    Cpus,
    SlabSize,  \* SLAB_SIZE, in some unit.
    MinAlign,  \* MIN_ALIGN, in that unit.
    Sizes,     \* The sizes of the objects of each kind of allocator.
    Offsets,   \* By how much the memory of its slabs may be misaligned.
    MaxSlabs   \* Bound on the number of slabs.

Kinds == {"fragment", "stub", "transient"}

\* What is assumed of the constants.
ConstantsOK ==
    /\ SlabSize \in Nat \ {0}
    /\ MinAlign \in Nat \ {0}
    /\ Sizes \in [Kinds -> SUBSET (Nat \ {0})]
    /\ Offsets \in [Kinds -> SUBSET (0..(MinAlign - 1))]

VARIABLES
    kind,     \* The kind of allocator that is looked at.
    slabs,    \* The slabs that exist; a slab is named by its position.
    alloc,    \* alloc[c]: the fields of the allocator of CPU c.
    global,   \* global_free: the head of the global free list.
    live,     \* The bytes of objects that are in use, with their CPU.
    kept,     \* Those of them that belong to finished translations (history).
    phase,    \* phase[c]: what CPU c does with its allocator.
    estimate  \* estimate[c]: the address that allocate_staged returned.

vars == <<kind, slabs, alloc, global, live, kept, phase, estimate>>

Null == 0

\* SHARE_DEAD_SLABS
Shares == kind # "stub"

\* No object was allocated since the last free.
NoLast == [slab |-> Null, start |-> 0, size |-> 0]

Bytes(start, size) == start..(start + size - 1)

\* The allocators as one value, so that operations can be composed.
Memory == [slabs |-> slabs, alloc |-> alloc, global |-> global, live |-> live]

Become(m) ==
    /\ slabs' = m.slabs
    /\ alloc' = m.alloc
    /\ global' = m.global
    /\ live' = m.live

NextOf(m, s) == IF s = Null THEN Null ELSE m.slabs[s].next

\* The slabs on the list that starts at p, in order.  A list that runs into a
\* cycle shows a slab twice.
Chain(m, p) ==
    LET hop[n \in 1..(Len(m.slabs) + 1)] ==
            IF n = 1 THEN p ELSE NextOf(m, hop[n - 1])
    IN  SelectSeq([n \in DOMAIN hop |-> hop[n]], LAMBDA s : s # Null)

-----------------------------------------------------------------------------
(* Slabs.                                                                  *)

\* The position on list of the slab to use, 0 if there is none: the first of
\* the exact size, else the first among the smallest of the bigger ones.
SlabSearch(m, list, size) ==
    LET sizeAt(i) == m.slabs[list[i]].size
        exact == {i \in DOMAIN list : sizeAt(i) = size}
        bigger == {i \in DOMAIN list : sizeAt(i) > size}
        best == {i \in bigger : \A j \in bigger : sizeAt(i) <= sizeAt(j)}
    IN  IF exact # {} THEN Min(exact)
        ELSE IF bigger # {} THEN Min(best)
        ELSE 0

\* The links after the i-th slab of a list is unlinked.
UnlinkFrom(m, list, i) ==
    IF i = 1 THEN m.slabs
    ELSE [m.slabs EXCEPT ![list[i - 1]].next = m.slabs[list[i]].next]

\* The head of the list after that.
HeadAfter(m, list, i) ==
    IF i = 1 THEN m.slabs[list[1]].next ELSE list[1]

\* The end of allocate_slab.
InitialiseSlab(m, s) ==
    [m EXCEPT !.slabs[s] = [@ EXCEPT !.index = 0,
                                     !.remaining = m.slabs[s].size,
                                     !.next = Null]]

\* The new slab becomes the current one of CPU c.
Pushed(m, c, s) ==
    [m EXCEPT !.slabs[s].next = m.alloc[c].curr,
              !.alloc[c].curr = s,
              !.alloc[c].first = IF @ = Null THEN s ELSE @]

\* The slab stays on the global list.
FromGlobal_NotUnlinked(m, c, size) ==
    LET list == Chain(m, m.global)
        i == SlabSearch(m, list, size)
    IN  IF Shares /\ i # 0
        THEN {Pushed(InitialiseSlab(m, list[i]), c, list[i])}
        ELSE {}

\* A slab from the global free list, under the try-lock.
FromGlobal(m, c, size) ==
    LET list == Chain(m, m.global)
        i == SlabSearch(m, list, size)
        unlinked == [m EXCEPT !.slabs = UnlinkFrom(m, list, i),
                              !.global = HeadAfter(m, list, i)]
    IN  IF Shares /\ i # 0
        THEN {Pushed(InitialiseSlab(unlinked, list[i]), c, list[i])}
        ELSE {}

\* A new slab: global_allocate_executable or allocate_memory.
FromHeap(m, c, size) ==
    LET s == Len(m.slabs) + 1
        slab(offset) == [base |-> offset, size |-> size, index |-> 0,
                         remaining |-> size, next |-> Null]
    IN  IF s <= MaxSlabs
        THEN {Pushed([m EXCEPT !.slabs = Append(@, slab(offset))], c, s) :
                 offset \in Offsets[kind]}
        ELSE {}

\* allocate_slab, and what allocate_bare does with the slab.
AllocateSlab(m, c, size) ==
    LET list == Chain(m, m.alloc[c].free)
        i == SlabSearch(m, list, size)
        unlinked == [m EXCEPT !.slabs = UnlinkFrom(m, list, i),
                              !.alloc[c].free = HeadAfter(m, list, i)]
    IN  IF m.alloc[c].free # Null /\ i # 0
        THEN {Pushed(InitialiseSlab(unlinked, list[i]), c, list[i])}
        ELSE FromGlobal(m, c, size) \cup FromHeap(m, c, size)

-----------------------------------------------------------------------------
(* Objects.                                                                *)

\* size + ALIGN_TO(size, SLAB_SIZE), or SLAB_SIZE if that is zero.
SlabSizeFor(size) ==
    IF size = 0 THEN SlabSize
    ELSE SlabSize * ((size + SlabSize - 1) \div SlabSize)

\* A current slab that has room for size bytes, if they need no alignment.
WithSlab(m, c, size) ==
    LET s == m.alloc[c].curr
    IN  IF s = Null \/ m.slabs[s].remaining < size
        THEN AllocateSlab(m, c, SlabSizeFor(size))
        ELSE {m}

\* ALIGN_TO of the next address of slab s.
AlignOffset(m, s, align) == (-(m.slabs[s].base + m.slabs[s].index)) % align

Fits(m, c, align, size) ==
    LET s == m.alloc[c].curr
    IN  m.slabs[s].remaining >= size + AlignOffset(m, s, align)

\* The current slab is made unusable.
Exhausted(m, c) ==
    LET s == m.alloc[c].curr
    IN  [m EXCEPT !.slabs[s].remaining = 0,
                  !.slabs[s].index = m.slabs[s].size]

\* The bump: the object is in use from now on.
Bumped(m, c, align, size) ==
    LET s == m.alloc[c].curr
        offset == AlignOffset(m, s, align)
        start == m.slabs[s].index + offset
    IN  [m EXCEPT !.slabs[s].index = start + size,
                  !.slabs[s].remaining = @ - offset - size,
                  !.alloc[c].last = [slab |-> s, start |-> start, size |-> size],
                  !.live = @ \cup ({c} \X {s} \X Bytes(start, size))]

\* allocate_bare with a size: every memory that it may leave behind.
AllocateBare(m, c, align, size) ==
    LET reset == [m EXCEPT !.alloc[c].last = NoLast]
        tried == WithSlab(reset, c, size)
        again == UNION {WithSlab(Exhausted(n, c), c, size) :
                           n \in {n \in tried : ~Fits(n, c, align, size)}}
    IN  {Bumped(n, c, align, size) :
            n \in {n \in tried : Fits(n, c, align, size)} \cup again}

\* The successful part of try_free_curr.
CurrFreed(m, c) ==
    LET s == m.alloc[c].curr
    IN  [m EXCEPT !.alloc[c].curr = m.slabs[s].next,
                  !.slabs[s].next = m.alloc[c].free,
                  !.alloc[c].free = s]

\* try_share_free: the whole free list goes in front of the global one, unless
\* the lock is taken.
TryShareFree(m, c) ==
    LET list == Chain(m, m.alloc[c].free)
    IN  IF list = <<>> THEN {m}
        ELSE {m, [m EXCEPT !.slabs[list[Len(list)]].next = m.global,
                           !.global = m.alloc[c].free,
                           !.alloc[c].free = Null]}

\* allocate_staged: a slab that is unused, or that was
\* fetched for this call, is given away at once.
AllocateStaged(m, c) ==
    LET hadSlab == m.alloc[c].curr # Null
        unused(n) == ~hadSlab \/ n.slabs[n.alloc[c].curr].index = 0
        staged == WithSlab([m EXCEPT !.alloc[c].last = NoLast], c, 0)
    IN  UNION {IF Shares /\ unused(n) THEN TryShareFree(CurrFreed(n, c), c)
               ELSE {n} : n \in staged}

\* What allocate_staged returns, for the memory before and after its slab is
\* given away: the next byte of the slab that is current in between.
StagedAddress(m, c, n) ==
    LET s == IF m.alloc[c].curr # Null THEN m.alloc[c].curr
             ELSE IF n.alloc[c].curr # Null THEN n.alloc[c].curr
             ELSE IF n.alloc[c].free # Null THEN n.alloc[c].free
             ELSE n.global
    IN  [slab |-> s, at |-> n.slabs[s].index]

\* The last object is given back.
Backed(m, c) ==
    LET last == m.alloc[c].last
        bytes == Bytes(last.start, last.size)
    IN  [m EXCEPT !.slabs[last.slab].index = @ - last.size,
                  !.slabs[last.slab].remaining = @ + last.size,
                  !.live = @ \ ({c} \X {last.slab} \X bytes)]

\* The slab is given away whether it is empty or not.
FreeLast_AlwaysFree(m, c, keep) ==
    LET last == m.alloc[c].last
        backed == Backed(m, c)
        freed == IF last.size = 0 \/ last.slab # m.alloc[c].curr THEN {m}
                 ELSE IF ~keep /\ Shares
                 THEN TryShareFree(CurrFreed(backed, c), c)
                 ELSE {backed}
    IN  {[n EXCEPT !.alloc[c].last = NoLast] : n \in freed}

\* free_last; keep is FREE_HINT_KEEP_SLAB.
FreeLast(m, c, keep) ==
    LET last == m.alloc[c].last
        backed == Backed(m, c)
        freed == IF last.size = 0 \/ last.slab # m.alloc[c].curr THEN {m}
                 ELSE IF /\ ~keep /\ Shares
                         /\ backed.slabs[last.slab].index = 0
                 THEN TryShareFree(CurrFreed(backed, c), c)
                 ELSE {backed}
    IN  {[n EXCEPT !.alloc[c].last = NoLast] : n \in freed}

\* free_all: the free list is hung behind the first slab, and the whole list
\* becomes the free list.
FreeAll(m, c) ==
    LET a == m.alloc[c]
        hung == IF a.first = Null THEN m
                ELSE [m EXCEPT !.slabs[a.first].next = a.free]
        gone == [hung EXCEPT
                   !.alloc[c] = [a EXCEPT !.last = NoLast, !.first = Null,
                                          !.curr = Null,
                                          !.free = IF a.curr # Null THEN a.curr
                                                   ELSE a.free],
                   !.live = {b \in @ : b[1] # c}]
    IN  IF Shares THEN TryShareFree(gone, c) ELSE {gone}

-----------------------------------------------------------------------------
(* What Granary does with the allocators.                                  *)

NoEstimate == [slab |-> Null, at |-> 0, max |-> 0]

Init ==
    /\ kind \in Kinds
    /\ slabs = <<>>
    /\ alloc = [c \in Cpus |-> [curr |-> Null, first |-> Null, free |-> Null,
                                last |-> NoLast]]
    /\ global = Null
    /\ live = {}
    /\ kept = {}
    /\ phase = [c \in Cpus |-> "idle"]
    /\ estimate = [c \in Cpus |-> NoEstimate]

Step(c, from, to) ==
    /\ phase[c] = from
    /\ phase' = [phase EXCEPT ![c] = to]

\* The fake allocation at the start of basic_block::translate.
Stage(c) ==
    /\ Step(c, "idle", "translating")
    /\ \E m \in AllocateStaged(Memory, c) : Become(m)
    /\ UNCHANGED <<kept, estimate>>

\* Room for the largest size that the trace may have.
Measure(c, max) ==
    /\ Step(c, "translating", "measured")
    /\ \E m \in AllocateBare(Memory, c, MinAlign, max) : Become(m)
    /\ estimate' = [estimate EXCEPT ![c].max = max]
    /\ UNCHANGED kept

\* free_last(FREE_HINT_KEEP_SLAB)
BackOut(c) ==
    /\ Step(c, "measured", "backed")
    /\ \E m \in FreeLast(Memory, c, TRUE) : Become(m)
    /\ UNCHANGED <<kept, estimate>>

\* The address that the trace is laid out for: estimator_addr.
Estimate(c) ==
    /\ Step(c, "backed", "aligned")
    /\ \E m \in AllocateStaged(Memory, c) :
          LET e == StagedAddress(Memory, c, m)
          IN  /\ Become(m)
              /\ estimate' = [estimate EXCEPT ![c].slab = e.slab, ![c].at = e.at]
    /\ UNCHANGED kept

\* trace.start_pc: the room that the trace does need.
Emit(c, size) ==
    /\ Step(c, "aligned", "emitted")
    /\ size <= estimate[c].max
    /\ \E m \in AllocateBare(Memory, c, MinAlign, size) : Become(m)
    /\ UNCHANGED <<kept, estimate>>

\* The stubs of the trace, from an allocator that is not measured first.
EmitStubs(c, size) ==
    /\ Step(c, "translating", "emitted")
    /\ \E m \in AllocateBare(Memory, c, MinAlign, size) : Become(m)
    /\ UNCHANGED <<kept, estimate>>

\* A trace that needs no stubs.
EmitNoStubs(c) ==
    /\ Step(c, "translating", "emitted")
    /\ UNCHANGED <<slabs, alloc, global, live, kept, estimate>>

\* The trace stays in the code cache.
Keep(c) ==
    /\ Step(c, "emitted", "idle")
    /\ kept' = kept \cup {b \in live : b[1] = c}
    /\ estimate' = [estimate EXCEPT ![c] = NoEstimate]
    /\ UNCHANGED <<slabs, alloc, global, live>>

\* Another CPU was faster: code_cache::find gives the block back.
Discard(c) ==
    /\ Step(c, "emitted", "idle")
    /\ \E m \in FreeLast(Memory, c, FALSE) : Become(m)
    /\ estimate' = [estimate EXCEPT ![c] = NoEstimate]
    /\ UNCHANGED kept

\* An object from a transient allocator.
Allocate(c, align, size) ==
    /\ \E m \in AllocateBare(Memory, c, align, size) : Become(m)
    /\ UNCHANGED <<kept, phase, estimate>>

\* enter: the objects of the previous entry are gone.
Enter(c) ==
    /\ \E m \in FreeAll(Memory, c) : Become(m)
    /\ UNCHANGED <<kept, phase, estimate>>

\* The fragment allocator.
NextFragment ==
    /\ kind = "fragment"
    /\ \E c \in Cpus :
          \/ Stage(c)
          \/ \E max \in Sizes[kind] : Measure(c, max)
          \/ BackOut(c)
          \/ Estimate(c)
          \/ \E size \in Sizes[kind] : Emit(c, size)
          \/ Keep(c)
          \/ Discard(c)

\* The stub allocator.
NextStub ==
    /\ kind = "stub"
    /\ \E c \in Cpus :
          \/ Stage(c)
          \/ \E size \in Sizes[kind] : EmitStubs(c, size)
          \/ EmitNoStubs(c)
          \/ Keep(c)
          \/ Discard(c)

\* The transient allocators.
NextTransient ==
    /\ kind = "transient"
    /\ \E c \in Cpus :
          \/ \E align \in {1, MinAlign}, size \in Sizes[kind] :
                Allocate(c, align, size)
          \/ Enter(c)

Next ==
    /\ NextFragment \/ NextStub \/ NextTransient
    /\ UNCHANGED kind

Spec == Init /\ [][Next]_vars

-----------------------------------------------------------------------------
(* Properties.                                                             *)

Ids == 1..Len(slabs)

InUse(c) == Chain(Memory, alloc[c].curr)

\* All the lists that slabs may be on, one after the other.
AllLists ==
    FoldSet(LAMBDA c, lists : lists \o InUse(c) \o Chain(Memory, alloc[c].free),
            Chain(Memory, global), Cpus)

\* Every slab's index and remaining bytes stay within it, and the links of the
\* slab lists and of the allocators lead to slabs.
TypeOK ==
    /\ \A s \in Ids : /\ slabs[s].index \in 0..slabs[s].size
                      /\ slabs[s].remaining \in 0..slabs[s].size
                      /\ slabs[s].next \in Ids \cup {Null}
    /\ \A c \in Cpus : {alloc[c].curr, alloc[c].free, alloc[c].first} \subseteq
                          Ids \cup {Null}
    /\ global \in Ids \cup {Null}
    /\ live \subseteq Cpus \X Ids \X Nat

\* Every slab is on exactly one list, and on it once: giving slabs away to the
\* global list and taking them back never makes two CPUs allocate from the same
\* slab and loses none, and the lists stay free of cycles.
SlabOnOneList == LET lists == AllLists IN IsInjective(lists) /\ Ids \subseteq Range(lists)

\* An object in use lies below the bump pointer of a slab that its own CPU
\* allocates from, and in no object of another CPU: reusing a slab, which
\* overwrites all of it, does not touch an object that is in use.
LiveIsOwned ==
    /\ \A c \in Cpus :
          LET mine == Range(InUse(c))
          IN  \A b \in live :
                 b[1] = c => b[2] \in mine /\ b[3] < slabs[b[2]].index
    /\ Cardinality({<<b[2], b[3]>> : b \in live}) = Cardinality(live)

\* What belongs to a finished translation is never given back: the fake
\* allocation at the start of basic_block::translate makes sure that the next
\* block that is discarded does not take a part of an earlier one with it.
KeptStayLive == kept \subseteq live

Address(slab, at) == slabs[slab].base + at

\* The trace starts at the same position in a cache line as the address it was
\* laid out for, although that address may belong to a slab that was given
\* away in between: align has placed the patchable branches by it.
EstimateIsAligned ==
    \A c \in Cpus : kind = "fragment" /\ phase[c] = "emitted" =>
        Address(estimate[c].slab, estimate[c].at) % MinAlign
          = Address(alloc[c].last.slab, alloc[c].last.start) % MinAlign

=============================================================================
