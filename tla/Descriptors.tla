----------------------------- MODULE Descriptors -----------------------------
(***************************************************************************)
(* The descriptors of the bounds checker: how the wrappers of the program's *)
(* allocators hand them out, put them in pointers and take them back, with  *)
(* a list of free ones on each CPU, and what the bounds checkers then say   *)
(* of an access. The allocators themselves are external.                    *)
(***************************************************************************)
EXTENDS Integers, Sequences, FiniteSets

CONSTANTS Cpus,
          MAX_NUM_WATCHPOINTS,
          Half,                \* half of the values of a bound; 2^31 in the code
          Bases, Sizes,        \* of objects
          OperandSizes,        \* 1, 2, 4, 8 and 16 in the code
          KreallocSucceeds,    \* the outcomes of krealloc, a set of BOOLEANs
          MaxObjects           \* bound: how many objects there are at a time

\* What is assumed of the constants.
ConstantsOK ==
    /\ MAX_NUM_WATCHPOINTS \in Nat \ {0} /\ Half \in Nat \ {0}
    /\ Bases \subseteq Nat /\ Sizes \subseteq Nat \ {0} /\ OperandSizes \subseteq 1 .. Half
    /\ KreallocSucceeds \subseteq BOOLEAN

VARIABLES env,                 \* "kernel" or "user"
          live,                \* the objects that the allocator has handed out
          pointers,            \* the program's pointers to objects
          DESCRIPTORS, NEXT_COUNTER_INDEX, free_list,
          cpu                  \* the wrapper that each CPU is in

vars == <<env, live, pointers, DESCRIPTORS, NEXT_COUNTER_INDEX, free_list, cpu>>

Low(n) == n % (2 * Half)
Addresses == 0 .. 2 * Half - 1

Object(base, size) == [base |-> base, size |-> size]
Bytes(o) == o.base .. o.base + o.size - 1

\* A pointer is unwatched, or watched with an index.
Pointer(o, watched, index) == [obj |-> o, watched |-> watched, index |-> index]
Idle == [pc |-> "idle", ptr |-> Pointer(Object(0, 0), FALSE, 0), obj |-> Object(0, 0)]

Init ==
    /\ env \in {"kernel", "user"}
    /\ live = {} /\ pointers = {}
    /\ DESCRIPTORS = [i \in 0 .. MAX_NUM_WATCHPOINTS |-> [lower |-> 0, upper |-> 0]]
    /\ NEXT_COUNTER_INDEX = 0
    /\ free_list = [c \in Cpus |-> <<>>]
    /\ cpu = [c \in Cpus |-> Idle]

\* The allocator: an object that no other one overlaps, and that does not
\* reach the next 4GB.
Fresh(others) ==
    {o \in {Object(b, s) : b \in Bases, s \in Sizes} :
        o.base + o.size < 2 * Half /\ \A p \in others : Bytes(o) \cap Bytes(p) = {}}

-----------------------------------------------------------------------------

\* As bound_descriptor::allocate would be if a descriptor stayed on the list.
allocate_KeepFree(c) ==
    IF free_list[c] # <<>>
    THEN [ok |-> TRUE, counter_index |-> Head(free_list[c]), free |-> free_list[c], next |-> NEXT_COUNTER_INDEX]
    ELSE [ok |-> NEXT_COUNTER_INDEX <= MAX_NUM_WATCHPOINTS, counter_index |-> NEXT_COUNTER_INDEX,
          free |-> <<>>, next |-> NEXT_COUNTER_INDEX + 1]

\* bound_descriptor::allocate: from the list, else the next in the array.
allocate(c) ==
    IF free_list[c] # <<>>
    THEN [ok |-> TRUE, counter_index |-> Head(free_list[c]), free |-> Tail(free_list[c]),
          next |-> NEXT_COUNTER_INDEX]
    ELSE [ok |-> NEXT_COUNTER_INDEX <= MAX_NUM_WATCHPOINTS, counter_index |-> NEXT_COUNTER_INDEX,
          free |-> <<>>, next |-> NEXT_COUNTER_INDEX + 1]

\* bound_descriptor::allocate_and_init.
init(o) == [lower |-> Low(o.base), upper |-> Low(o.base + o.size)]

\* add_watchpoint, with bound_descriptor::allocate_and_init: the pointer to an
\* object becomes watched if there is a descriptor for it.
add_watchpoint(c, o) ==
    LET a == allocate(c)
    IN  /\ free_list' = [free_list EXCEPT ![c] = a.free]
        /\ NEXT_COUNTER_INDEX' = a.next
        /\ DESCRIPTORS' = IF ~a.ok THEN DESCRIPTORS
                          ELSE [DESCRIPTORS EXCEPT ![a.counter_index] = init(o)]
        /\ pointers' = pointers \cup {Pointer(o, a.ok, IF a.ok THEN a.counter_index % MAX_NUM_WATCHPOINTS ELSE 0)}

\* free_descriptor_of, with bound_descriptor::free.
free_descriptor_of(c, ptr) ==
    free_list' = IF ptr.watched THEN [free_list EXCEPT ![c] = <<ptr.index>> \o @] ELSE free_list

\* Bound: a wrapper is entered as long as there may be another descriptor.
Enters(c, e) == env = e /\ cpu[c] = Idle /\ NEXT_COUNTER_INDEX <= MAX_NUM_WATCHPOINTS
Goes(c, pc, ptr, o) == cpu' = [cpu EXCEPT ![c] = [pc |-> pc, ptr |-> ptr, obj |-> o]]
Returns(c) == cpu' = [cpu EXCEPT ![c] = Idle]

-----------------------------------------------------------------------------
(* The wrappers of allocators. The object is there before it is watched.    *)

Allocates(c, e) ==
    /\ Enters(c, e) /\ Cardinality(live) < MaxObjects
    /\ \E o \in Fresh(live) : live' = live \cup {o} /\ Goes(c, "watch", Idle.ptr, o)
    /\ UNCHANGED <<env, pointers, DESCRIPTORS, NEXT_COUNTER_INDEX, free_list>>

malloc(c) == Allocates(c, "user")
__kmalloc(c) == Allocates(c, "kernel")
kmem_cache_alloc(c) == Allocates(c, "kernel")
__get_free_pages(c) == Allocates(c, "kernel")

Watch(c) ==
    /\ cpu[c].pc = "watch"
    /\ add_watchpoint(c, cpu[c].obj)
    /\ Returns(c)
    /\ UNCHANGED <<env, live>>

\* The wrappers that free: first the descriptor, and then the object.
Frees(c, e) ==
    /\ Enters(c, e)
    /\ \E ptr \in pointers :
        /\ free_descriptor_of(c, ptr)
        /\ pointers' = pointers \ {ptr}
        /\ Goes(c, "free", ptr, ptr.obj)
    /\ UNCHANGED <<env, live, DESCRIPTORS, NEXT_COUNTER_INDEX>>

free(c) == Frees(c, "user")
kfree(c) == Frees(c, "kernel")
kmem_cache_free(c) == Frees(c, "kernel")
free_pages(c) == Frees(c, "kernel")

FreeObject(c) ==
    /\ cpu[c].pc = "free"
    /\ live' = live \ {cpu[c].obj}
    /\ Returns(c)
    /\ UNCHANGED <<env, pointers, DESCRIPTORS, NEXT_COUNTER_INDEX, free_list>>

\* The program's call of realloc moves the object, leaves it where it is, or
\* fails, and the descriptor is freed if it was moved.
Reallocated(old) == Fresh(live) \cup {o \in Fresh(live \ {old}) : o.base = old.base}

realloc(c) ==
    /\ Enters(c, "user")
    /\ \E ptr \in pointers : \E o \in Reallocated(ptr.obj) :
        /\ live' = (live \ {ptr.obj}) \cup {o}
        /\ pointers' = pointers \ {ptr}
        /\ Goes(c, IF o.base = ptr.obj.base THEN "watch" ELSE "moved", ptr, o)
    /\ UNCHANGED <<env, DESCRIPTORS, NEXT_COUNTER_INDEX, free_list>>

FreeMoved(c) ==
    /\ cpu[c].pc = "moved"
    /\ free_descriptor_of(c, cpu[c].ptr)
    /\ Goes(c, "watch", cpu[c].ptr, cpu[c].obj)
    /\ UNCHANGED <<env, live, pointers, DESCRIPTORS, NEXT_COUNTER_INDEX>>

\* krealloc: the descriptor is freed before it is known whether it succeeds.
krealloc(c) ==
    /\ Enters(c, "kernel")
    /\ \E ptr \in pointers :
        /\ free_descriptor_of(c, ptr)
        /\ Goes(c, "krealloc", ptr, ptr.obj)
        /\ pointers' = pointers \ {ptr}
    /\ UNCHANGED <<env, live, DESCRIPTORS, NEXT_COUNTER_INDEX>>

Krealloc(c) ==
    /\ cpu[c].pc = "krealloc"
    /\ \E ok \in KreallocSucceeds :
        IF ok THEN \E o \in Reallocated(cpu[c].obj) :
                        /\ live' = (live \ {cpu[c].obj}) \cup {o}
                        /\ Goes(c, "watch", Idle.ptr, o)
                        /\ UNCHANGED pointers
        ELSE /\ pointers' = pointers \cup {cpu[c].ptr}
             /\ Returns(c)
             /\ UNCHANGED live
    /\ UNCHANGED <<env, DESCRIPTORS, NEXT_COUNTER_INDEX, free_list>>

Next == \E c \in Cpus :
    \/ malloc(c) \/ __kmalloc(c) \/ kmem_cache_alloc(c) \/ __get_free_pages(c) \/ Watch(c)
    \/ free(c) \/ kfree(c) \/ kmem_cache_free(c) \/ free_pages(c) \/ FreeObject(c)
    \/ realloc(c) \/ FreeMoved(c) \/ krealloc(c) \/ Krealloc(c)

Spec == Init /\ [][Next]_vars

-----------------------------------------------------------------------------
(* granary_bounds_check_<size>                                             *)

Signed(n) == IF n < Half THEN n ELSE n - 2 * Half

\* The comparisons are signed.
granary_bounds_check(d, addr, size) ==
    /\ Signed(addr) >= Signed(d.lower)
    /\ Signed(Low(d.upper - size)) >= Signed(addr)

\* What is said of an access that the check does not let pass, and the
\* assertion about it.
visit_overflow(d, addr, size) ==
    [kind |-> IF addr < d.lower THEN "underflow" ELSE "overflow",
     assertion |-> addr >= d.lower => Low(addr + size) > d.upper]

InBounds(o, addr, size) == addr \in Bytes(o) /\ addr + size - 1 \in Bytes(o)

\* The access passes if it is within the object; if it does not pass, it is said
\* to be below the object exactly if it is, and the assertion holds.
Checked(d, o, addr, size) ==
    LET said == visit_overflow(d, addr, size)
    IN  IF InBounds(o, addr, size) THEN granary_bounds_check(d, addr, size)
        ELSE /\ ~granary_bounds_check(d, addr, size)
             /\ said.assertion
             /\ said.kind = "underflow" <=> addr < o.base

\* The object is below the middle of the 4GB, or the operand fits between the
\* middle and the object.
ClearOfMiddle(o, size) == o.base + o.size < Half \/ o.base >= Half + size

-----------------------------------------------------------------------------

\* The descriptor that p leads to has the bounds of the object of p.
Leads(p) == DESCRIPTORS[p.index] = [lower |-> p.obj.base, upper |-> p.obj.base + p.obj.size]

\* Whatever order CPUs allocate, reallocate and free in, and on whichever CPU
\* a descriptor is freed, the descriptor that a watched pointer leads to has
\* the bounds of its object, up to the last descriptor. An access through the
\* pointer is reported exactly if it is not within the object, and for what it is.
DescriptorsAreRight ==
    NEXT_COUNTER_INDEX <= MAX_NUM_WATCHPOINTS =>
        \A p \in pointers : p.watched =>
            /\ Leads(p)
            /\ \A addr \in Addresses, size \in OperandSizes :
                    addr + size < 2 * Half /\ ClearOfMiddle(p.obj, size) =>
                        Checked(DESCRIPTORS[p.index], p.obj, addr, size)

\* The first half, and beyond: the counter goes no further than there are
\* descriptors.
IndexFits == \A p \in pointers : p.watched => Leads(p)

\* The second half of every object, wherever it is.
EveryAccessIsChecked ==
    NEXT_COUNTER_INDEX <= MAX_NUM_WATCHPOINTS =>
        \A p \in pointers : p.watched =>
            \A addr \in Addresses, size \in OperandSizes :
                addr + size < 2 * Half => Checked(DESCRIPTORS[p.index], p.obj, addr, size)
=============================================================================
