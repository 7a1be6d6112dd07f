-------------------------------- MODULE Heap --------------------------------
(***************************************************************************)
(* The heap of Granary (allocator.cc): global_allocate and global_free, on *)
(* several CPUs.  An object comes from the free list of its size class or, *)
(* if that is empty, from a bump pointer.  Whether the list is empty is    *)
(* read without its lock, and the link to the next free object is stored   *)
(* in the object itself, which its owner overwrites.                       *)
(***************************************************************************)
EXTENDS Integers, FiniteSets

CONSTANTS
    Cpus,
    Requests,   \* The sizes that callers ask for.
    HeapSize,   \* HEAP_SIZE
    MinScale,   \* MIN_SCALE
    MaxCalls    \* Bound on the number of calls.

Null == -1
Data == -2   \* What an owner writes to the first word of its object.

-----------------------------------------------------------------------------
(* Size classes.                                                           *)

\* The number of bits of x: UNSIGNED_LONG_NUM_BITS - __builtin_clzl(x).
NumBits[x \in Nat] == IF x = 0 THEN 0 ELSE 1 + NumBits[x \div 2]

log_base_2(x) == NumBits[x] - 1

next_power_of_2(x) == 2^NumBits[x - 1]

MinObjectSize == 2^MinScale

allocation_size(size) ==
    LET high == next_power_of_2(size)
    IN  IF MinObjectSize > size THEN MinObjectSize
        ELSE IF high \div 2 >= size THEN high \div 2 ELSE high

ScaleOf(size) == log_base_2(allocation_size(size)) - MinScale

\* What is assumed of the constants.
ConstantsOK ==
    /\ Requests \subseteq Nat \ {0}
    /\ HeapSize \in Nat /\ MinScale \in Nat /\ MaxCalls \in Nat

\* A request is given an object of the size of its class, which is enough for it.
SizeClassesOK(sizes) ==
    \A n \in sizes :
        /\ allocation_size(n) \in Nat /\ n <= allocation_size(n)
        /\ allocation_size(n) = 2^(ScaleOf(n) + MinScale)

Scales == {ScaleOf(n) : n \in Requests}

VARIABLES
    heapIndex, \* HEAP_INDEX
    head,      \* FREE_LISTS[scale].head
    lock,      \* FREE_LISTS[scale].lock
    cell,      \* The first word of the object at an address.
    held,      \* The objects that callers own: [addr, size].
    pc,        \* What each CPU does next.
    size,      \* size_, the argument.
    object,    \* object and new_free.
    next,      \* next_free
    calls      \* Number of calls so far.

vars == <<heapIndex, head, lock, cell, held, pc, size, object, next, calls>>

Addresses == 0 .. HeapSize - 1

Scale(c) == ScaleOf(size[c])

Init ==
    /\ heapIndex = 0
    /\ head = [s \in Scales |-> Null]
    /\ lock = [s \in Scales |-> FALSE]
    /\ cell = [a \in Addresses |-> Null]
    /\ held = {}
    /\ pc = [c \in Cpus |-> "idle"]
    /\ size = [c \in Cpus |-> 0]
    /\ object = [c \in Cpus |-> Null]
    /\ next = [c \in Cpus |-> Null]
    /\ calls = 0

Step(c, from, to) ==
    /\ pc[c] = from
    /\ pc' = [pc EXCEPT ![c] = to]

\* The caller has its object, and fills it (memory_allocator::allocate and
\* new_trailing_vla do so at once).
Return(c, from, o) ==
    /\ Step(c, from, "idle")
    /\ held' = held \cup {[addr |-> o, size |-> size[c]]}
    /\ cell' = [cell EXCEPT ![o] = Data]
    /\ object' = [object EXCEPT ![c] = Null]
    /\ size' = [size EXCEPT ![c] = 0]

-----------------------------------------------------------------------------
(* global_allocate.                                                        *)

Allocate(c, n) ==
    /\ calls < MaxCalls
    /\ Step(c, "idle", "check")
    /\ size' = [size EXCEPT ![c] = n]
    /\ calls' = calls + 1
    /\ UNCHANGED <<heapIndex, head, lock, cell, held, object, next>>

\* The head is read without the lock.
CheckHead(c) ==
    /\ Step(c, "check", IF head[Scale(c)] = Null THEN "bump" ELSE "pop_lock")
    /\ UNCHANGED <<heapIndex, head, lock, cell, held, size, object, next, calls>>

\* The last bytes of the heap are not noticed to be exceeded.
Fits_Start(c) == heapIndex < HeapSize

\* FAULT_IF(next_heap_index >= HEAP_SIZE)
Fits(c) == heapIndex + allocation_size(size[c]) < HeapSize

Bump(c) ==
    /\ pc[c] = "bump" /\ Fits(c)
    /\ Return(c, "bump", heapIndex)
    /\ heapIndex' = heapIndex + allocation_size(size[c])
    /\ UNCHANGED <<head, lock, next, calls>>

\* The heap is exhausted: Granary faults.
Fault(c) ==
    /\ pc[c] = "bump" /\ ~Fits(c)
    /\ Step(c, "bump", "fault")
    /\ heapIndex' = heapIndex + allocation_size(size[c])
    /\ UNCHANGED <<head, lock, cell, held, size, object, next, calls>>

\* atomic_spin_lock::acquire and release of the free list.
Acquire(c, from, to) ==
    /\ pc[c] = from /\ ~lock[Scale(c)]
    /\ Step(c, from, to)
    /\ lock' = [lock EXCEPT ![Scale(c)] = TRUE]

\* A CPU that found the list empty forgets to unlock it.
PopNothing_StillLocked(c) ==
    /\ pc[c] = "pop" /\ head[Scale(c)] = Null
    /\ Step(c, "pop", "check")
    /\ UNCHANGED <<heapIndex, head, lock, cell, held, size, object, next, calls>>

PopLock(c) ==
    /\ Acquire(c, "pop_lock", "pop")
    /\ UNCHANGED <<heapIndex, head, cell, held, size, object, next, calls>>

\* Another CPU took the last object in the meantime: start again.
PopNothing(c) ==
    /\ pc[c] = "pop" /\ head[Scale(c)] = Null
    /\ Step(c, "pop", "check")
    /\ lock' = [lock EXCEPT ![Scale(c)] = FALSE]
    /\ UNCHANGED <<heapIndex, head, cell, held, size, object, next, calls>>

\* The head is read again, under the lock.
Pop(c) ==
    /\ pc[c] = "pop" /\ head[Scale(c)] # Null
    /\ Step(c, "pop", "unlink")
    /\ object' = [object EXCEPT ![c] = head[Scale(c)]]
    /\ UNCHANGED <<heapIndex, head, lock, cell, held, size, next, calls>>

\* The list loses the objects behind the one that is taken.
Unlink_Rest(c) ==
    /\ Step(c, "unlink", "pop_unlock")
    /\ head' = [head EXCEPT ![Scale(c)] = Null]
    /\ UNCHANGED <<heapIndex, lock, cell, held, size, object, next, calls>>

Unlink(c) ==
    /\ pc[c] = "unlink"
    /\ Step(c, "unlink", "pop_unlock")
    /\ head' = [head EXCEPT ![Scale(c)] = cell[object[c]]]
    /\ UNCHANGED <<heapIndex, lock, cell, held, size, object, next, calls>>

PopUnlock(c) ==
    /\ pc[c] = "pop_unlock"
    /\ Return(c, "pop_unlock", object[c])
    /\ lock' = [lock EXCEPT ![Scale(c)] = FALSE]
    /\ UNCHANGED <<heapIndex, head, next, calls>>

-----------------------------------------------------------------------------
(* global_free.                                                            *)

\* The caller gives an object back, with the size that it asked for.
Free(c, o) ==
    /\ calls < MaxCalls
    /\ Step(c, "idle", "push_lock")
    /\ held' = held \ {o}
    /\ size' = [size EXCEPT ![c] = o.size]
    /\ object' = [object EXCEPT ![c] = o.addr]
    /\ calls' = calls + 1
    /\ UNCHANGED <<heapIndex, head, lock, cell, next>>

PushLock(c) ==
    /\ Acquire(c, "push_lock", "push")
    /\ UNCHANGED <<heapIndex, head, cell, held, size, object, next, calls>>

LoadNext(c) ==
    /\ Step(c, "push", "link")
    /\ next' = [next EXCEPT ![c] = head[Scale(c)]]
    /\ UNCHANGED <<heapIndex, head, lock, cell, held, size, object, calls>>

Link(c) ==
    /\ Step(c, "link", "store")
    /\ cell' = [cell EXCEPT ![object[c]] = next[c]]
    /\ next' = [next EXCEPT ![c] = Null]
    /\ UNCHANGED <<heapIndex, head, lock, held, size, object, calls>>

StoreHead(c) ==
    /\ Step(c, "store", "push_unlock")
    /\ head' = [head EXCEPT ![Scale(c)] = object[c]]
    /\ object' = [object EXCEPT ![c] = Null]
    /\ UNCHANGED <<heapIndex, lock, cell, held, size, next, calls>>

PushUnlock(c) ==
    /\ Step(c, "push_unlock", "idle")
    /\ lock' = [lock EXCEPT ![Scale(c)] = FALSE]
    /\ size' = [size EXCEPT ![c] = 0]
    /\ UNCHANGED <<heapIndex, head, cell, held, object, next, calls>>

-----------------------------------------------------------------------------
Call(c) ==
    \/ \E n \in Requests : Allocate(c, n)
    \/ \E o \in held : Free(c, o)

Work(c) ==
    \/ CheckHead(c) \/ Bump(c) \/ Fault(c)
    \/ PopLock(c) \/ PopNothing(c) \/ Pop(c) \/ Unlink(c) \/ PopUnlock(c)
    \/ PushLock(c) \/ LoadNext(c) \/ Link(c) \/ StoreHead(c) \/ PushUnlock(c)

Next == \E c \in Cpus : Call(c) \/ Work(c)

Spec == Init /\ [][Next]_vars

\* A CPU that is in the allocator keeps running.
FairSpec == Spec /\ \A c \in Cpus : WF_vars(Work(c))

-----------------------------------------------------------------------------
(* Properties.                                                             *)

Places == Addresses \cup {Null}

\* The free lists and the links in freed objects hold addresses of the heap; a
\* link that a CPU has read in global_allocate is one, and not an owner's data.
TypeOK ==
    /\ heapIndex \in Nat
    /\ head \in [Scales -> Places]
    /\ lock \in [Scales -> BOOLEAN]
    /\ cell \in [Addresses -> Places \cup {Data}]
    /\ held \subseteq [addr : Addresses, size : Requests]
    /\ size \in [Cpus -> Requests \cup {0}]
    /\ object \in [Cpus -> Places]
    /\ next \in [Cpus -> Places]
    /\ calls \in 0 .. MaxCalls

\* All bytes that belong to an object, the ones added by rounding included.
Extent(o) == o.addr .. o.addr + allocation_size(o.size) - 1

\* The first n objects of a list from a on.
ListFrom[n \in Nat] ==
    [a \in Places \cup {Data} |->
        IF n = 0 \/ a \notin Addresses THEN {a}
        ELSE {a} \cup ListFrom[n - 1][cell[a]]]

\* A list has no more objects than the heap has bytes.
Listed(s) == ListFrom[HeapSize][head[s]]

\* Bytes of the objects that CPUs are moving to or from a free list.
InTransit ==
    UNION {object[c] .. object[c] + allocation_size(size[c]) - 1 :
             c \in {d \in Cpus : object[d] # Null}}

FreeBytes ==
    UNION {UNION {a .. a + 2^(s + MinScale) - 1 : a \in Listed(s) \ {Null}} :
             s \in Scales}

\* No memory is lost: each byte below the bump pointer is in an object that is
\* handed out, free or on its way.
NothingLost ==
    /\ TypeOK
    /\ (\A c \in Cpus : pc[c] # "fault") =>
          0 .. heapIndex - 1 =
              (UNION {Extent(o) : o \in held}) \cup InTransit \cup FreeBytes

M == INSTANCE Malloc WITH Size <- HeapSize

\* The heap implements an allocator, with an object handed out when
\* global_allocate returns and given back when global_free is called.
ImplementsMalloc == M!Spec

\* Every call returns or faults, also one that found the list non-empty and
\* then empty.
CallsReturn == \A c \in Cpus : pc[c] # "idle" ~> pc[c] \in {"idle", "fault"}

=============================================================================
