-------------------------- MODULE FragmentLocator ---------------------------
(***************************************************************************)
(* From an address in the code cache to the meta-information of the basic  *)
(* block that is there (granary/basic_block_info.cc).  A table has one     *)
(* entry for every page of the code cache: its fragment locator, a bounded *)
(* array of what was translated into the page, searched by bisection.  A   *)
(* fragment that runs over the end of a page shares the locator of its     *)
(* first page with the following ones.                                     *)
(*                                                                         *)
(* The CPUs store what they translate, and take it back if another CPU     *)
(* translated the same block first (code_cache::find); meanwhile an        *)
(* interrupt handler on a further CPU looks up an address.  The module     *)
(* also has as much of the fragment allocators as decides where fragments  *)
(* go; BumpAllocator has the rest.  A failed ASSERT stops its CPU.         *)
(***************************************************************************)
EXTENDS Integers, Sequences, SequencesExt, FiniteSets

CONSTANTS
    Cpus,
    SlabSize,   \* SLAB_SIZE, in units of BB_ALIGN: fragments in a page.
    Estimates,  \* What a fragment may be estimated at, in that unit.
    MaxPages,   \* Bound: the pages of the code cache.
    MaxStored   \* Bound: how many traces are translated.

\* What is assumed of the constants.
ConstantsOK ==
    /\ SlabSize \in Nat \ {0}
    /\ Estimates \subseteq Nat \ {0}
    /\ MaxPages \in Nat
    /\ MaxStored \in Nat

VARIABLES
    curr,      \* curr[c]: the slabs of c's fragment allocator, current first.
    free,      \* The dead slabs.
    fresh,     \* The first page of the code cache that was never allocated.
    estimate,  \* estimate[c]: the largest size of what c translates.
    slabs,     \* FRAGMENT_SLABS: the locator of each page, 0 if none.
    locators,  \* The fragments of each locator; next_index is their number.
    pc,        \* pc[c]: where c is.
    trace,     \* trace[c]: what c has translated.
    kept,      \* The traces that are there to stay (history).
    stored,    \* How many traces were translated.
    look       \* The lookup of the interrupt handler.

\* The fragment allocators.
allocators == <<curr, free, fresh, estimate>>

vars == <<curr, free, fresh, estimate, slabs, locators, pc, trace, kept,
          stored, look>>

Null == 0

MAX_BBS_PER_SLAB == SlabSize + 1

\* An element of fragments that holds no pointer.
NoInfo == [start |-> 0, blocks |-> <<>>]

NoLook ==
    [state |-> "idle", at |-> 0, locator |-> Null, first |-> 0, last |-> 0]

\* How much memory the blocks of a trace take.
NumBytes(t) == SumFunction(t.blocks)

Bytes(t) == t.start..(t.start + NumBytes(t) - 1)

Page(address) == address \div SlabSize

SlabEnd(s) == (s.page + s.pages) * SlabSize

-----------------------------------------------------------------------------
(* Lookup.                                                                 *)

\* generic_info_ptr::get_block: the block of trace t that has the address.
get_block(t, address) ==
    LET start(i) == t.start + SumFunctionOnSet(t.blocks, 1..(i - 1))
        i == CHOOSE i \in DOMAIN t.blocks :
                /\ start(i) <= address
                /\ address < start(i) + t.blocks[i]
    IN  [start |-> start(i), size |-> t.blocks[i]]

\* The element that a round of the search looks at.
Middle(l) == (l.first + l.last) \div 2

\* One round of search_basic_block_info that does not find the address in t.
Bisect(t, address, l) ==
    IF t.start <= address
    THEN [l EXCEPT !.first = Middle(l) + 1]
    ELSE [l EXCEPT !.last = Middle(l) - 1]

\* The fragment that search_basic_block_info finds, NoInfo if none: the loop
\* makes at most one round per fragment.
search_basic_block_info(fragments, address) ==
    LET max == Len(fragments)
        at(l) == fragments[Middle(l) + 1]
        ended(l) == l.first > l.last
        found(l) == address \in Bytes(at(l))
        round[n \in 0..max] ==
            IF n = 0 THEN [first |-> 0, last |-> max - 1]
            ELSE LET l == round[n - 1]
                 IN  IF ended(l) \/ found(l) THEN l
                     ELSE Bisect(at(l), address, l)
        l == round[max]
    IN  IF max = 0 \/ ended(l) \/ ~found(l) THEN NoInfo ELSE at(l)

-----------------------------------------------------------------------------
Init ==
    /\ curr = [c \in Cpus |-> <<>>]
    /\ free = {}
    /\ fresh = 0
    /\ estimate = [c \in Cpus |-> 0]
    /\ slabs = [p \in 0..(MaxPages - 1) |-> Null]
    /\ locators = <<>>
    /\ pc = [c \in Cpus |-> "idle"]
    /\ trace = [c \in Cpus |-> NoInfo]
    /\ kept = {}
    /\ stored = 0
    /\ look = NoLook

Goto(c, to) == pc' = [pc EXCEPT ![c] = to]

\* allocate_slab: a dead slab that is large enough, or a new one.  Which dead
\* slabs a CPU sees depends on the global list's try-lock.
NewSlabs(size) ==
    LET pages == (size + SlabSize - 1) \div SlabSize
    IN  {s \in free : s.pages >= pages}
            \union {[page |-> fresh, pages |-> n] :
                       n \in {pages} \intersect 1..(MaxPages - fresh)}

\* The blocks of a trace of the given size: one block, or two.
Blocks(size) == {<<size>>} \union {<<n, size - n>> : n \in 1..(size - 1)}

\* The current slab of c has room for the given size.
HasRoom(c, size) ==
    /\ curr[c] # <<>>
    /\ SlabEnd(Head(curr[c])) - Head(curr[c]).next >= size

Taken(s) == fresh' = IF s \in free THEN fresh ELSE fresh + s.pages

\* basic_block::translate: make room for what the trace is estimated at.  A
\* slab that is fetched for that is backed out of, and is then given away by
\* allocate_staged because it is unused.
Measure(c) ==
    /\ pc[c] = "idle"
    /\ stored < MaxStored
    /\ \E max \in Estimates :
          /\ estimate' = [estimate EXCEPT ![c] = max]
          /\ \/ HasRoom(c, max) /\ UNCHANGED <<free, fresh>>
             \/ /\ ~HasRoom(c, max)
                /\ \E s \in NewSlabs(max) : free' = free \union {s} /\ Taken(s)
    /\ stored' = stored + 1
    /\ Goto(c, "measured")
    /\ UNCHANGED <<curr, slabs, locators, trace, kept, look>>

\* The allocation of the trace itself.
Emit(c) ==
    /\ pc[c] = "measured"
    /\ \E size \in 1..estimate[c] : \E blocks \in Blocks(size) :
          LET use(list, start) ==
                 /\ curr' = [curr EXCEPT ![c] =
                                [list EXCEPT ![1].next = start + size]]
                 /\ trace' = [trace EXCEPT ![c] =
                                 [start |-> start, blocks |-> blocks]]
          IN  \/ /\ HasRoom(c, size)
                 /\ use(curr[c], Head(curr[c]).next)
                 /\ UNCHANGED <<free, fresh>>
              \/ /\ ~HasRoom(c, size)
                 /\ \E s \in NewSlabs(size) :
                       /\ use(<<s @@ [next |-> 0]>> \o curr[c], s.page * SlabSize)
                       /\ free' = free \ {s}
                       /\ Taken(s)
    /\ estimate' = [estimate EXCEPT ![c] = 0]
    /\ Goto(c, "store")
    /\ UNCHANGED <<slabs, locators, kept, stored, look>>

\* The other pages of the trace keep their entries.
StoreSlab_FirstOnly(c) ==
    /\ pc[c] = "store"
    /\ LET t == trace[c]
           first == Page(t.start)
           end == Page(t.start + NumBytes(t) - 1)
           missing == slabs[first] = Null
           l == IF missing THEN Len(locators) + 1 ELSE slabs[first]
       IN  /\ slabs' = [slabs EXCEPT ![first] = l]
           /\ locators' = IF missing THEN Append(locators, <<>>) ELSE locators
           /\ Goto(c, IF \E p \in (first + 1)..end : slabs[p] # Null
                      THEN "next_slab_fault" ELSE "claim")
    /\ UNCHANGED <<allocators, trace, kept, stored, look>>

\* store_trace_meta_info, until it appends: the locator of the first page is
\* made if needed, and shared with the other pages of the trace.
StoreSlab(c) ==
    /\ pc[c] = "store"
    /\ LET t == trace[c]
           first == Page(t.start)
           end == Page(t.start + NumBytes(t) - 1)
           missing == slabs[first] = Null
           l == IF missing THEN Len(locators) + 1 ELSE slabs[first]
           fragments == IF missing THEN <<>> ELSE locators[l]
       IN  /\ slabs' = [p \in DOMAIN slabs |->
                           IF p \in first..end THEN l ELSE slabs[p]]
           /\ locators' = IF missing THEN Append(locators, <<>>) ELSE locators
           /\ Goto(c, IF \E p \in (first + 1)..end : slabs[p] # Null
                      THEN "next_slab_fault"
                      ELSE IF Len(fragments) >= MAX_BBS_PER_SLAB
                      THEN "max_bbs_fault"
                      ELSE "claim")
    /\ UNCHANGED <<allocators, trace, kept, stored, look>>

LocatorOf(t) == slabs[Page(t.start)]

\* The element is claimed ...
Claim(c) ==
    /\ pc[c] = "claim"
    /\ locators' = [locators EXCEPT ![LocatorOf(trace[c])] = Append(@, NoInfo)]
    /\ Goto(c, "fill")
    /\ UNCHANGED <<allocators, slabs, trace, kept, stored, look>>

\* ... and then filled.
Fill(c) ==
    /\ pc[c] = "fill"
    /\ LET l == LocatorOf(trace[c])
       IN  locators' = [locators EXCEPT ![l][Len(locators[l])] = trace[c]]
    /\ Goto(c, "stored")
    /\ UNCHANGED <<allocators, slabs, trace, kept, stored, look>>

\* code_cache::find: the trace goes into the code cache.
Keep(c) ==
    /\ pc[c] = "stored"
    /\ kept' = kept \union {trace[c]}
    /\ trace' = [trace EXCEPT ![c] = NoInfo]
    /\ Goto(c, "idle")
    /\ UNCHANGED <<allocators, slabs, locators, stored, look>>

\* code_cache::find: another CPU was first, and the trace is one block.
\* remove_basic_block_info clears the last element ...
Clear(c) ==
    /\ pc[c] = "stored"
    /\ Len(trace[c].blocks) = 1
    /\ LET l == LocatorOf(trace[c])
       IN  locators' = [locators EXCEPT ![l][Len(locators[l])] = NoInfo]
    /\ Goto(c, "drop")
    /\ UNCHANGED <<allocators, slabs, trace, kept, stored, look>>

\* ... and gives it up ...
Drop(c) ==
    /\ pc[c] = "drop"
    /\ locators' = [locators EXCEPT ![LocatorOf(trace[c])] = Front(@)]
    /\ Goto(c, "free")
    /\ UNCHANGED <<allocators, slabs, trace, kept, stored, look>>

\* A slab of an allocator, as a dead slab.
Dead(slab) == [page |-> slab.page, pages |-> slab.pages]

\* ... before free_last frees the fragment, and its slab if it is empty then.
FreeLast(c) ==
    /\ pc[c] = "free"
    /\ LET slab == Head(curr[c])
           rest == Tail(curr[c])
           dead == trace[c].start = slab.page * SlabSize
       IN  /\ free' = IF dead THEN free \union {Dead(slab)}
                      ELSE free
           /\ curr' = [curr EXCEPT ![c] =
                          IF dead THEN rest
                          ELSE <<[slab EXCEPT !.next = trace[c].start]>> \o rest]
    /\ trace' = [trace EXCEPT ![c] = NoInfo]
    /\ Goto(c, "idle")
    /\ UNCHANGED <<estimate, fresh, slabs, locators, kept, stored, look>>

-----------------------------------------------------------------------------
(* An interrupt handler (or a fault handler of a client) looks up where it *)
(* interrupted, without a lock, one element at a time.                     *)

\* find_basic_block_info, and search_basic_block_info up to its loop.
FindBegin ==
    /\ look.state = "idle"
    /\ \E t \in kept : \E address \in Bytes(t) :
          LET l == slabs[Page(address)]
          IN  look' = [state |-> "search", at |-> address, locator |-> l,
                       first |-> 0, last |-> Len(locators[l]) - 1]
    /\ UNCHANGED <<allocators, slabs, locators, pc, trace, kept, stored>>

\* One round of the loop: the element in the middle is read and followed.
FindStep ==
    /\ look.state = "search"
    /\ LET fragments == locators[look.locator]
           t == IF Middle(look) < Len(fragments) THEN fragments[Middle(look) + 1]
                ELSE NoInfo
           next == Bisect(t, look.at, look)
       IN  look' = IF t = NoInfo THEN [look EXCEPT !.state = "fault"]
                   ELSE IF look.at \in Bytes(t)
                   THEN [look EXCEPT !.state = "found"]
                   ELSE IF next.first > next.last
                   THEN [next EXCEPT !.state = "missing"]
                   ELSE next
    /\ UNCHANGED <<allocators, slabs, locators, pc, trace, kept, stored>>

\* The handler is done with what it found.
FindEnd ==
    /\ look.state = "found"
    /\ look' = NoLook
    /\ UNCHANGED <<allocators, slabs, locators, pc, trace, kept, stored>>

-----------------------------------------------------------------------------
Next ==
    \/ \E c \in Cpus :
          \/ Measure(c) \/ Emit(c) \/ StoreSlab(c) \/ Claim(c) \/ Fill(c)
          \/ Keep(c) \/ Clear(c) \/ Drop(c) \/ FreeLast(c)
    \/ FindBegin
    \/ FindStep
    \/ FindEnd

Spec == Init /\ [][Next]_vars

-----------------------------------------------------------------------------
(* Properties.                                                             *)

Infos == [start : Nat, blocks : Seq(Nat)]

\* The state has the shape that the code's variables have; the allocators'
\* slabs lie in the pages that were handed out.
TypeOK ==
    /\ \A c \in Cpus : \A i \in DOMAIN curr[c] :
          /\ curr[c][i].page + curr[c][i].pages <= fresh
          /\ curr[c][i].next >= curr[c][i].page * SlabSize
          /\ curr[c][i].next <= SlabEnd(curr[c][i])
    /\ \A s \in free : s.page + s.pages <= fresh
    /\ fresh \in 0..MaxPages
    /\ estimate \in [Cpus -> {0} \union Estimates]
    /\ slabs \in [0..(MaxPages - 1) -> 0..Len(locators)]
    /\ locators \in Seq(Seq(Infos))
    /\ pc \in [Cpus -> {"idle", "measured", "store", "claim", "fill", "stored",
                        "drop", "free", "next_slab_fault", "max_bbs_fault"}]
    /\ trace \in [Cpus -> Infos]
    /\ kept \subseteq Infos
    /\ stored \in 0..MaxStored
    /\ look.state \in {"idle", "search", "found", "missing", "fault"}

\* No CPU is between two writes to an element of a locator.
Quiet == \A c \in Cpus : pc[c] \notin {"fill", "drop"}

\* find_basic_block_info: while no locator is being changed, every address in
\* a block that is in the code cache leads to that block, on whichever pages
\* of its trace the address is, whatever was stored, taken back and stored
\* over it on other CPUs.
FindIsRight ==
    Quiet =>
        \A t \in kept : \A address \in Bytes(t) :
            LET l == slabs[Page(address)]
                found == search_basic_block_info(locators[l], address)
            IN  /\ l # Null
                /\ found = t
                /\ LET b == get_block(found, address)
                   IN  address \in b.start..(b.start + b.size - 1)

\* ASSERT(nullptr != info) in find_basic_block_info: a lookup that runs while
\* CPUs add and take back fragments does not miss the block that it looks for,
\* and does not find another one.
LookupFinds ==
    /\ look.state # "missing"
    /\ look.state = "found" =>
          LET fragments == locators[look.locator]
          IN  /\ Middle(look) < Len(fragments)
              /\ fragments[Middle(look) + 1] \in kept
              /\ look.at \in Bytes(fragments[Middle(look) + 1])

\* The element that a CPU has claimed and not filled, or cleared and not given
\* up, is the last one: a lookup that runs at that moment, without the lock
\* that the comment on remove_basic_block_info assumes, never follows it.
LookupReadsInfo == look.state # "fault"

\* remove_basic_block_info: what a CPU clears is the element that it stored
\* itself, so that a block is never taken out of its locator by a CPU that
\* discards another one.
TakesBackItsOwn ==
    \A c \in Cpus :
        pc[c] \in {"stored", "drop"} =>
            LET fragments == locators[LocatorOf(trace[c])]
            IN  Last(fragments) = IF pc[c] = "stored" THEN trace[c] ELSE NoInfo

-----------------------------------------------------------------------------
(* What the code's assertions and comments say.                            *)

\* ASSERT(nullptr == *next_slab_) in store_trace_meta_info.
NextSlabIsEmpty == \A c \in Cpus : pc[c] # "next_slab_fault"

=============================================================================
