---------------------------- MODULE ClientProofs ----------------------------
(***************************************************************************)
(* Proofs about the modules that Granary instruments, as they come and go, *)
(* and about the pointers that a client watches in them: the descriptors   *)
(* of the bounds checker.                                                  *)
(***************************************************************************)
EXTENDS Descriptors, Modules, Induction, FiniteSetTheorems, TLAPS

-----------------------------------------------------------------------------
(* Descriptors.  A descriptor is free on one CPU, or in use by one pointer *)
(* (the program's, or one that realloc still holds), or neither.           *)

\* Objects that do not reach the next 4GB.
OkObjects == {o \in [base : Nat, size : Nat] : o.base + o.size < 2 * Half}

\* The remainder of a number that is smaller than what it is divided by.
LEMMA SmallMod ==
  ASSUME NEW k \in Nat \ {0}, NEW n \in 0 .. k - 1
  PROVE  n % k = n
  OBVIOUS

\* What the low half of a register holds of a sum or a difference of addresses that
\* overflows at most once.
LEMMA LowIsSame ==
  ASSUME ConstantsOK, NEW n \in Int, - 2 * Half <= n, n < 2 * Half
  PROVE  Low(n) = IF n < 0 THEN n + 2 * Half ELSE n
  <1>1. 2 * Half \in Nat \ {0}
    BY DEF ConstantsOK
  <1> DEFINE k == 2 * Half
  <1>2. k \in Nat \ {0} /\ -k <= n /\ n < k
    BY Zenon, <1>1 DEF ConstantsOK
  <1> HIDE DEF k
  <1>3. n % k = IF n < 0 THEN n + k ELSE n
    BY <1>2
  <1> QED BY Zenon, <1>3 DEF k, Low

\* granary_bounds_check, with its signed comparisons, and visit_overflow tell the
\* accesses within an object from those below and above it.
LEMMA CheckIsRight ==
  ASSUME ConstantsOK, NEW o \in OkObjects, NEW addr \in Addresses, NEW size \in OperandSizes,
         addr + size < 2 * Half, ClearOfMiddle(o, size)
  PROVE  Checked([lower |-> o.base, upper |-> o.base + o.size], o, addr, size)
  <1> DEFINE l == o.base
             u == o.base + o.size
             d == [lower |-> l, upper |-> u]
  <1>1. /\ l \in Nat /\ u \in Nat /\ l <= u /\ u < 2 * Half /\ Half \in Nat \ {0}
        /\ addr \in Nat /\ size \in 1 .. Half /\ (u < Half \/ l >= Half + size)
        /\ addr + size < 2 * Half
    BY DEF OkObjects, ConstantsOK, Addresses, ClearOfMiddle
  <1>2. d.lower = l /\ d.upper = u
    OBVIOUS
  <1>3. InBounds(o, addr, size) <=> l <= addr /\ addr + size <= u
    BY <1>1 DEF InBounds, Bytes, OkObjects
  <1> HIDE DEF l, u, d
  <1>4. Low(addr + size) = addr + size
    BY <1>1, LowIsSame
  <1>5. Low(u - size) = IF u - size < 0 THEN u - size + 2 * Half ELSE u - size
    BY <1>1, LowIsSame
  <1>6. granary_bounds_check(d, addr, size) <=> l <= addr /\ addr + size <= u
    BY <1>1, <1>2, <1>5 DEF granary_bounds_check, Signed
  <1>7. visit_overflow(d, addr, size).kind = "underflow" <=> addr < l
    BY Zenon, <1>2 DEF visit_overflow
  <1>8. visit_overflow(d, addr, size).assertion <=> (addr >= l => addr + size > u)
    BY Zenon, <1>2, <1>4 DEF visit_overflow
  <1>9. Checked(d, o, addr, size)
    BY <1>1, <1>3, <1>6, <1>7, <1>8 DEF Checked, l
  <1> QED BY Zenon, <1>9 DEF d, l, u

-----------------------------------------------------------------------------
\* The last descriptor of the array has no index: the counter is taken modulo
\* MAX_NUM_WATCHPOINTS.
Indices == 0 .. MAX_NUM_WATCHPOINTS - 1
PtrType == [obj : OkObjects, watched : BOOLEAN, index : Indices]
CpuType == [pc : {"idle", "watch", "free", "moved", "krealloc"}, ptr : PtrType, obj : OkObjects]

Types ==
    /\ live \subseteq OkObjects
    /\ pointers \subseteq PtrType
    /\ DESCRIPTORS \in [0 .. MAX_NUM_WATCHPOINTS -> [lower : Nat, upper : Nat]]
    /\ NEXT_COUNTER_INDEX \in Nat
    /\ free_list \in [Cpus -> Seq(Indices)]
    /\ cpu \in [Cpus -> CpuType]

\* A descriptor that is free, on some CPU.
Listed(i) == \E c \in Cpus : \E k \in 1 .. Len(free_list[c]) : free_list[c][k] = i

\* In realloc, a CPU still has the pointer that it is about to free the descriptor of.
Holds(c) == cpu[c].pc = "moved" /\ cpu[c].ptr.watched

\* A descriptor that is in use.
Used(i) == \/ \E p \in pointers : p.watched /\ p.index = i
           \/ \E c \in Cpus : Holds(c) /\ cpu[c].ptr.index = i

\* What is free is not in use, was handed out before, and is free once.
ListsInv ==
    /\ \A i \in Indices : Listed(i) => i < NEXT_COUNTER_INDEX /\ ~Used(i)
    /\ \A c, d \in Cpus : \A k \in 1 .. Len(free_list[c]), l \in 1 .. Len(free_list[d]) :
            free_list[c][k] = free_list[d][l] => c = d /\ k = l

\* What is in use was handed out, to one pointer.
UsedInv ==
    /\ \A i \in Indices : Used(i) => i < NEXT_COUNTER_INDEX
    /\ \A p, q \in pointers : p.watched /\ q.watched /\ p.index = q.index => p = q
    /\ \A p \in pointers, c \in Cpus : p.watched /\ Holds(c) => p.index # cpu[c].ptr.index
    /\ \A c, d \in Cpus : Holds(c) /\ Holds(d) /\ cpu[c].ptr.index = cpu[d].ptr.index => c = d

IndexInv == ListsInv /\ UsedInv /\ \A p \in pointers : p.watched => Leads(p)

\* The inductive invariant: it ends where the counter passes the last descriptor.
DInv ==
    /\ Types
    /\ NEXT_COUNTER_INDEX <= MAX_NUM_WATCHPOINTS => IndexInv

\* What the program's allocator hands out has an upper bound that fits.
LEMMA FreshType ==
  ASSUME ConstantsOK, NEW L, NEW o \in Fresh(L)
  PROVE  o \in OkObjects
  BY DEF ConstantsOK, Fresh, Object, OkObjects

\* A CPU that is in no wrapper holds no watched pointer.
LEMMA IdleType ==
  ASSUME ConstantsOK
  PROVE  Idle \in CpuType /\ Idle.ptr \in PtrType /\ ~Idle.ptr.watched /\ Idle.pc = "idle"
  <1>1. Object(0, 0) \in OkObjects
    BY DEF ConstantsOK, Object, OkObjects
  <1>2. Pointer(Object(0, 0), FALSE, 0) \in PtrType /\ ~Pointer(Object(0, 0), FALSE, 0).watched
    BY <1>1 DEF ConstantsOK, Pointer, PtrType, Indices
  <1> QED BY Zenon, <1>1, <1>2 DEF Idle, CpuType

\* What bound_descriptor::allocate hands out: the head of the free list, else the next
\* descriptor of the array.
LEMMA Allocated ==
  ASSUME ConstantsOK, Types, NEW c \in Cpus
  PROVE  LET a == allocate(c)
             f == free_list[c]
         IN  /\ a.ok \in BOOLEAN /\ a.free \in Seq(Indices)
             /\ \/ /\ f # <<>> /\ a.ok /\ a.counter_index = f[1] /\ a.free = Tail(f)
                   /\ a.next = NEXT_COUNTER_INDEX /\ f[1] \in Indices
                \/ /\ f = <<>> /\ (a.ok <=> NEXT_COUNTER_INDEX <= MAX_NUM_WATCHPOINTS)
                   /\ a.counter_index = NEXT_COUNTER_INDEX /\ a.free = <<>>
                   /\ a.next = NEXT_COUNTER_INDEX + 1
  <1>1. free_list[c] \in Seq(Indices)
    BY Zenon DEF Types
  <1>2. CASE free_list[c] # <<>>
    <2>1. Head(free_list[c]) = free_list[c][1] /\ free_list[c][1] \in Indices /\ Tail(free_list[c]) \in Seq(Indices)
      BY <1>1, <1>2, TailIs
    <2> QED BY Zenon, <1>2, <2>1 DEF allocate
  <1>3. CASE free_list[c] = <<>>
    <2> DEFINE ok == NEXT_COUNTER_INDEX <= MAX_NUM_WATCHPOINTS
    <2>1. ok \in BOOLEAN
      BY DEF Types, ConstantsOK
    <2>2. allocate(c) = [ok |-> ok, counter_index |-> NEXT_COUNTER_INDEX, free |-> <<>>, next |-> NEXT_COUNTER_INDEX + 1]
      BY Zenon, <1>3 DEF allocate
    <2> HIDE DEF ok
    <2>3. /\ allocate(c).ok = ok /\ allocate(c).counter_index = NEXT_COUNTER_INDEX /\ allocate(c).free = <<>>
          /\ allocate(c).next = NEXT_COUNTER_INDEX + 1
      BY <2>2
    <2> QED BY Zenon, <1>3, <2>1, <2>3, EmptyIs DEF ok
  <1> QED BY Zenon, <1>2, <1>3

\* A wrapper that goes on keeps what it holds well-typed.
LEMMA GoesType ==
  ASSUME Types, NEW c \in Cpus, NEW pc \in {"watch", "free", "moved", "krealloc"}, NEW ptr \in PtrType,
         NEW o \in OkObjects, Goes(c, pc, ptr, o)
  PROVE  cpu' \in [Cpus -> CpuType]
  <1>1. [pc |-> pc, ptr |-> ptr, obj |-> o] \in CpuType
    BY Zenon DEF CpuType
  <1> QED BY Zenon, <1>1 DEF Goes, Types

\* So does one that returns.
LEMMA ReturnsType ==
  ASSUME ConstantsOK, Types, NEW c \in Cpus, Returns(c)
  PROVE  cpu' \in [Cpus -> CpuType]
  BY Zenon, IdleType DEF Returns, Types

\* bound_descriptor::free puts an index on the list.
LEMMA FreedType ==
  ASSUME Types, NEW c \in Cpus, NEW ptr \in PtrType, free_descriptor_of(c, ptr)
  PROVE  free_list' \in [Cpus -> Seq(Indices)]
  <1>1. <<ptr.index>> \o free_list[c] \in Seq(Indices)
    <2>1. free_list[c] \in Seq(Indices) /\ ptr.index \in Indices
      BY Zenon DEF Types, PtrType
    <2> QED BY <2>1
  <1> QED BY Zenon, <1>1 DEF free_descriptor_of, Types

\* Steps of the wrappers keep the types: the index in a pointer is one of the array.
LEMMA TypesStep ==
  ASSUME ConstantsOK, Types, [Next]_vars
  PROVE  Types'
  <1>0. Idle.ptr \in PtrType
    BY Zenon, IdleType
  <1>c. \A c \in Cpus : cpu[c].ptr \in PtrType /\ cpu[c].obj \in OkObjects
    BY Zenon DEF Types, CpuType
  <1>p. \A p \in pointers : p \in PtrType /\ p.obj \in OkObjects
    BY Zenon DEF Types, PtrType
  <1>1. ASSUME NEW c \in Cpus, NEW e, Allocates(c, e) PROVE Types'
    <2>1. PICK o \in Fresh(live) : live' = live \cup {o} /\ Goes(c, "watch", Idle.ptr, o)
      BY Zenon, <1>1 DEF Allocates
    <2>2. o \in OkObjects
      BY Zenon, FreshType
    <2>3. cpu' \in [Cpus -> CpuType]
      BY Zenon, <1>0, <2>1, <2>2, GoesType
    <2> QED BY Zenon, <1>1, <2>1, <2>2, <2>3 DEF Allocates, Types
  <1>2. ASSUME NEW c \in Cpus, Watch(c) PROVE Types'
    <2> DEFINE a == allocate(c)
               o == cpu[c].obj
               x == IF a.ok THEN a.counter_index % MAX_NUM_WATCHPOINTS ELSE 0
    <2>1. /\ a.free \in Seq(Indices) /\ a.next \in Nat /\ a.ok \in BOOLEAN
          /\ a.ok => a.counter_index \in 0 .. MAX_NUM_WATCHPOINTS
      <3>1. free_list[c] \in Seq(Indices) /\ NEXT_COUNTER_INDEX \in Nat
        BY Zenon DEF Types
      <3>3. /\ a.ok \in BOOLEAN /\ a.free \in Seq(Indices)
            /\ \/ a.ok /\ a.counter_index \in Indices /\ a.next = NEXT_COUNTER_INDEX
               \/ /\ a.ok <=> NEXT_COUNTER_INDEX <= MAX_NUM_WATCHPOINTS
                  /\ a.counter_index = NEXT_COUNTER_INDEX /\ a.next = NEXT_COUNTER_INDEX + 1
        BY Zenon, Allocated
      <3> HIDE DEF a
      <3> QED BY <3>1, <3>3 DEF Indices, ConstantsOK
    <2>2. /\ free_list' = [free_list EXCEPT ![c] = a.free]
          /\ NEXT_COUNTER_INDEX' = a.next
          /\ DESCRIPTORS' = IF ~a.ok THEN DESCRIPTORS ELSE [DESCRIPTORS EXCEPT ![a.counter_index] = init(o)]
          /\ pointers' = pointers \cup {Pointer(o, a.ok, x)}
      BY Zenon, <1>2 DEF Watch, add_watchpoint
    <2> HIDE DEF a
    <2>3. x \in Indices
      BY <2>1 DEF Indices, ConstantsOK
    <2>4. o \in OkObjects
      BY Zenon, <1>c
    <2>5. init(o) \in [lower : Nat, upper : Nat]
      <3>1. o.base \in Nat /\ o.size \in Nat /\ o.base + o.size < 2 * Half /\ Half \in Nat \ {0}
        BY Zenon, <2>4 DEF OkObjects, ConstantsOK
      <3>2. Low(o.base) = o.base /\ Low(o.base + o.size) = o.base + o.size
        BY <3>1, LowIsSame
      <3> QED BY <3>1, <3>2 DEF init
    <2> HIDE DEF x, o
    <2>6. Pointer(o, a.ok, x) \in PtrType
      BY Zenon, <2>1, <2>3, <2>4 DEF Pointer, PtrType
    <2>7. cpu' \in [Cpus -> CpuType]
      BY Zenon, <1>2, ReturnsType DEF Watch
    <2> QED BY Zenon, <1>2, <2>1, <2>2, <2>5, <2>6, <2>7 DEF Watch, Types
  <1>3. ASSUME NEW c \in Cpus, NEW e, Frees(c, e) PROVE Types'
    <2>1. PICK ptr \in pointers : free_descriptor_of(c, ptr) /\ pointers' = pointers \ {ptr} /\ Goes(c, "free", ptr, ptr.obj)
      BY Zenon, <1>3 DEF Frees
    <2>2. cpu' \in [Cpus -> CpuType] /\ free_list' \in [Cpus -> Seq(Indices)]
      BY Zenon, <1>p, <2>1, GoesType, FreedType
    <2> QED BY Zenon, <1>3, <2>1, <2>2 DEF Frees, Types
  <1>4. ASSUME NEW c \in Cpus, FreeObject(c) PROVE Types'
    BY Zenon, <1>4, ReturnsType DEF FreeObject, Types
  <1>5. ASSUME NEW c \in Cpus, realloc(c) PROVE Types'
    <2>0. PICK ptr \in pointers : \E o \in Reallocated(ptr.obj) :
             /\ live' = (live \ {ptr.obj}) \cup {o}
             /\ pointers' = pointers \ {ptr}
             /\ Goes(c, IF o.base = ptr.obj.base THEN "watch" ELSE "moved", ptr, o)
      BY Zenon, <1>5 DEF realloc
    <2>1. PICK o \in Reallocated(ptr.obj) :
             /\ live' = (live \ {ptr.obj}) \cup {o}
             /\ pointers' = pointers \ {ptr}
             /\ Goes(c, IF o.base = ptr.obj.base THEN "watch" ELSE "moved", ptr, o)
      BY Zenon, <2>0
    <2>2. o \in OkObjects
      BY Zenon, FreshType DEF Reallocated
    <2>3. cpu' \in [Cpus -> CpuType]
      BY Zenon, <1>p, <2>1, <2>2, GoesType
    <2> QED BY Zenon, <1>5, <2>1, <2>2, <2>3 DEF realloc, Types
  <1>6. ASSUME NEW c \in Cpus, FreeMoved(c) PROVE Types'
    <2>1. cpu' \in [Cpus -> CpuType] /\ free_list' \in [Cpus -> Seq(Indices)]
      BY Zenon, <1>6, <1>c, GoesType, FreedType DEF FreeMoved
    <2> QED BY Zenon, <1>6, <2>1 DEF FreeMoved, Types
  <1>7. ASSUME NEW c \in Cpus, krealloc(c) PROVE Types'
    <2>1. PICK ptr \in pointers : free_descriptor_of(c, ptr) /\ pointers' = pointers \ {ptr} /\ Goes(c, "krealloc", ptr, ptr.obj)
      BY Zenon, <1>7 DEF krealloc
    <2>2. cpu' \in [Cpus -> CpuType] /\ free_list' \in [Cpus -> Seq(Indices)]
      BY Zenon, <1>p, <2>1, GoesType, FreedType
    <2> QED BY Zenon, <1>7, <2>1, <2>2 DEF krealloc, Types
  <1>8. ASSUME NEW c \in Cpus, Krealloc(c) PROVE Types'
    <2>1. CASE \E o \in Reallocated(cpu[c].obj) :
                        /\ live' = (live \ {cpu[c].obj}) \cup {o}
                        /\ Goes(c, "watch", Idle.ptr, o)
                        /\ UNCHANGED pointers
      <3>1. PICK o \in Reallocated(cpu[c].obj) :
                        /\ live' = (live \ {cpu[c].obj}) \cup {o}
                        /\ Goes(c, "watch", Idle.ptr, o)
                        /\ UNCHANGED pointers
        BY Zenon, <2>1
      <3>2. o \in OkObjects
        BY Zenon, FreshType DEF Reallocated
      <3>3. cpu' \in [Cpus -> CpuType]
        BY Zenon, <1>0, <3>1, <3>2, GoesType
      <3> QED BY Zenon, <1>8, <3>1, <3>2, <3>3 DEF Krealloc, Types
    <2>2. CASE pointers' = pointers \cup {cpu[c].ptr} /\ Returns(c) /\ UNCHANGED live
      BY Zenon, <1>8, <1>c, <2>2, ReturnsType DEF Krealloc, Types
    <2> QED BY Zenon, <1>8, <2>1, <2>2 DEF Krealloc
  <1>9. CASE UNCHANGED vars
    BY Zenon, <1>9 DEF vars, Types
  <1> QED BY Zenon, <1>1, <1>2, <1>3, <1>4, <1>5, <1>6, <1>7, <1>8, <1>9
          DEF Next, malloc, __kmalloc, kmem_cache_alloc, __get_free_pages, free, kfree, kmem_cache_free, free_pages

\* A step after which no other descriptors are in use than before.
Releases ==
    /\ pointers' \subseteq pointers
    /\ \A c \in Cpus : Holds(c)' => Holds(c) /\ cpu'[c].ptr = cpu[c].ptr
    /\ UNCHANGED <<NEXT_COUNTER_INDEX, DESCRIPTORS>>

\* Such a step keeps what is said of the descriptors in use.
LEMMA Released ==
  ASSUME IndexInv, Releases
  PROVE  UsedInv' /\ (\A i : Used(i)' => Used(i)) /\ \A p \in pointers' : p.watched => Leads(p)'
  <1>1. \A i : Used(i)' => Used(i)
    BY Zenon DEF Releases, Used
  <1>2. UsedInv'
    BY <1>1 DEF IndexInv, UsedInv, Releases
  <1>3. \A p \in pointers' : p.watched => Leads(p)'
    BY Zenon DEF IndexInv, Releases, Leads
  <1> QED BY Zenon, <1>1, <1>2, <1>3

\* It keeps the invariant if the free lists stay.
LEMMA Dropped ==
  ASSUME IndexInv, Releases, free_list' = free_list
  PROVE  IndexInv'
  <1>1. UsedInv' /\ (\A i : Used(i)' => Used(i)) /\ \A p \in pointers' : p.watched => Leads(p)'
    BY Zenon, Released
  <1>2. ListsInv'
    BY <1>1 DEF IndexInv, ListsInv, Listed, Releases
  <1> QED BY Zenon, <1>1, <1>2 DEF IndexInv

\* free_descriptor_of: an index that is no longer in use is put on the list of a CPU.
LEMMA Given ==
  ASSUME Types, IndexInv, Releases, NEW c \in Cpus, NEW i \in Indices, i < NEXT_COUNTER_INDEX, ~Listed(i), ~Used(i)',
         free_list' = [free_list EXCEPT ![c] = <<i>> \o @]
  PROVE  IndexInv'
  <1>1. UsedInv' /\ (\A j : Used(j)' => Used(j)) /\ \A p \in pointers' : p.watched => Leads(p)'
    BY Zenon, Released
  <1>2. free_list[c] \in Seq(Indices) /\ free_list'[c] = <<i>> \o free_list[c]
    BY Zenon DEF Types
  <1>3. /\ Len(free_list'[c]) = Len(free_list[c]) + 1 /\ Len(free_list[c]) \in Nat
        /\ free_list'[c][1] = i
        /\ \A k \in 1 .. Len(free_list'[c]) : k # 1 => k - 1 \in 1 .. Len(free_list[c]) /\ free_list'[c][k] = free_list[c][k - 1]
    BY <1>2
  <1>4. \A d \in Cpus \ {c} : free_list'[d] = free_list[d]
    BY Zenon DEF Types
  <1>5. \A j : Listed(j)' => j = i \/ Listed(j)
    BY <1>3, <1>4 DEF Listed
  <1>6. \A j \in Indices : Listed(j)' => j < NEXT_COUNTER_INDEX' /\ ~Used(j)'
    BY Zenon, <1>1, <1>5 DEF IndexInv, ListsInv, Releases
  <1>7. ASSUME NEW a \in Cpus, NEW b \in Cpus, NEW k \in 1 .. Len(free_list'[a]), NEW l \in 1 .. Len(free_list'[b]),
               free_list'[a][k] = free_list'[b][l]
        PROVE  a = b /\ k = l
    <2>1. \A x \in Cpus : \A y \in 1 .. Len(free_list'[x]) :
            \/ x = c /\ y = 1 /\ free_list'[x][y] = i
            \/ x = c /\ y # 1 /\ y - 1 \in 1 .. Len(free_list[c]) /\ free_list'[x][y] = free_list[c][y - 1]
            \/ x # c /\ y \in 1 .. Len(free_list[x]) /\ free_list'[x][y] = free_list[x][y]
      BY <1>3, <1>4
    <2>2. \A x \in Cpus : \A y \in 1 .. Len(free_list[x]) : free_list[x][y] # i
      BY Zenon DEF Listed
    <2>3. \A x, z \in Cpus : \A y \in 1 .. Len(free_list[x]), w \in 1 .. Len(free_list[z]) :
            free_list[x][y] = free_list[z][w] => x = z /\ y = w
      BY Zenon DEF IndexInv, ListsInv
    <2> QED BY <1>7, <2>1, <2>2, <2>3
  <1> QED BY Zenon, <1>1, <1>6, <1>7 DEF IndexInv, ListsInv

\* realloc takes a pointer from the program and frees its descriptor later, or not
\* at all if the object stays where it is.
LEMMA Taken ==
  ASSUME IndexInv, NEW c \in Cpus, ~Holds(c), NEW ptr \in pointers, pointers' = pointers \ {ptr},
         Holds(c)' => cpu'[c].ptr = ptr, \A d \in Cpus \ {c} : cpu'[d] = cpu[d],
         UNCHANGED <<NEXT_COUNTER_INDEX, DESCRIPTORS, free_list>>
  PROVE  IndexInv'
  <1>1. Holds(c)' => ptr.watched /\ cpu'[c].ptr = ptr
    BY Zenon DEF Holds
  <1>2. \A d \in Cpus \ {c} : (Holds(d)' <=> Holds(d)) /\ cpu'[d] = cpu[d]
    BY Zenon DEF Holds
  <1>3. \A i : Used(i)' => Used(i)
    BY Zenon, <1>1, <1>2 DEF Used
  <1>4. UsedInv'
    <2>1. \A i \in Indices : Used(i)' => i < NEXT_COUNTER_INDEX'
      BY Zenon, <1>3 DEF IndexInv, UsedInv
    <2>2. \A p, q \in pointers' : p.watched /\ q.watched /\ p.index = q.index => p = q
      BY Zenon DEF IndexInv, UsedInv
    <2>3. \A p \in pointers', d \in Cpus : p.watched /\ Holds(d)' => p.index # cpu'[d].ptr.index
      BY <1>1, <1>2 DEF IndexInv, UsedInv
    <2>4. \A d, e \in Cpus : Holds(d)' /\ Holds(e)' /\ cpu'[d].ptr.index = cpu'[e].ptr.index => d = e
      BY <1>1, <1>2 DEF IndexInv, UsedInv
    <2> QED BY Zenon, <2>1, <2>2, <2>3, <2>4 DEF UsedInv
  <1>5. \A p \in pointers' : p.watched => Leads(p)'
    BY Zenon DEF IndexInv, Leads
  <1>6. ListsInv'
    BY <1>3 DEF IndexInv, ListsInv, Listed
  <1> QED BY Zenon, <1>4, <1>5, <1>6 DEF IndexInv

\* add_watchpoint: the descriptor that is handed out is in use by nobody else, and
\* has the bounds of the object.
LEMMA Watching ==
  ASSUME ConstantsOK, Types, IndexInv, NEW c \in Cpus, Watch(c),
         NEXT_COUNTER_INDEX <= MAX_NUM_WATCHPOINTS, NEXT_COUNTER_INDEX' <= MAX_NUM_WATCHPOINTS
  PROVE  IndexInv'
  <1> DEFINE a == allocate(c)
             o == cpu[c].obj
             i == a.counter_index
             f == free_list[c]
  <1>1. /\ f \in Seq(Indices) /\ NEXT_COUNTER_INDEX \in Nat /\ MAX_NUM_WATCHPOINTS \in Nat \ {0}
        /\ o \in OkObjects
    BY Zenon DEF Types, ConstantsOK, CpuType
  <1>2. /\ free_list' = [free_list EXCEPT ![c] = a.free]
        /\ NEXT_COUNTER_INDEX' = a.next
        /\ DESCRIPTORS' = IF ~a.ok THEN DESCRIPTORS ELSE [DESCRIPTORS EXCEPT ![i] = init(o)]
        /\ pointers' = pointers \cup {Pointer(o, a.ok, IF a.ok THEN i % MAX_NUM_WATCHPOINTS ELSE 0)}
    BY Zenon DEF Watch, add_watchpoint
  <1>3. \/ /\ f # <<>> /\ a.ok = TRUE /\ i = f[1] /\ a.free = Tail(f)
           /\ a.next = NEXT_COUNTER_INDEX /\ f[1] \in Indices
        \/ /\ f = <<>> /\ a.ok = TRUE /\ i = NEXT_COUNTER_INDEX /\ a.free = <<>>
           /\ a.next = NEXT_COUNTER_INDEX + 1
    BY Zenon, Allocated
  <1> HIDE DEF a, i
  <1>4. /\ i \in Indices /\ i < NEXT_COUNTER_INDEX' /\ ~Used(i)
        /\ NEXT_COUNTER_INDEX <= NEXT_COUNTER_INDEX'
    <2>1. CASE f # <<>>
      <3>1. 1 \in 1 .. Len(f)
        BY <1>1, <2>1, EmptyIs
      <3>2. Listed(i)
        BY Zenon, <1>3, <2>1, <3>1 DEF Listed
      <3> QED BY <1>1, <1>2, <1>3, <2>1, <3>2 DEF IndexInv, ListsInv
    <2>2. CASE f = <<>>
      <3>1. i = NEXT_COUNTER_INDEX /\ NEXT_COUNTER_INDEX' = NEXT_COUNTER_INDEX + 1
        BY Zenon, <1>2, <1>3, <2>2
      <3>2. i \in Indices
        BY <1>1, <3>1 DEF Indices
      <3> QED BY <1>1, <3>1, <3>2 DEF IndexInv, UsedInv
    <2> QED BY Zenon, <2>1, <2>2
  <1>5. i % MAX_NUM_WATCHPOINTS = i
    BY Zenon, <1>1, <1>4, SmallMod DEF Indices
  <1> DEFINE q == Pointer(o, TRUE, i)
  <1>6. /\ pointers' = pointers \cup {q} /\ DESCRIPTORS' = [DESCRIPTORS EXCEPT ![i] = init(o)]
        /\ q.watched /\ q.index = i /\ q.obj = o
    BY Zenon, <1>2, <1>3, <1>5 DEF Pointer
  <1> HIDE DEF q
  <1>7. /\ \A d \in Cpus \ {c} : free_list'[d] = free_list[d]
        /\ \A k \in 1 .. Len(free_list'[c]) :
              k + 1 \in 1 .. Len(f) /\ f # <<>> /\ free_list'[c][k] = f[k + 1]
    <2>1. free_list'[c] = a.free /\ \A d \in Cpus \ {c} : free_list'[d] = free_list[d]
      BY Zenon, <1>2 DEF Types
    <2>2. CASE f # <<>>
      <3>1. /\ Len(Tail(f)) = Len(f) - 1 /\ Len(f) \in Nat
            /\ \A k \in 1 .. Len(Tail(f)) : Tail(f)[k] = f[k + 1]
        BY <1>1, <2>2, TailIs
      <3> HIDE DEF f
      <3> QED BY <1>3, <2>1, <2>2, <3>1
    <2>3. CASE f = <<>>
      <3>1. Len(free_list'[c]) = 0
        BY <1>3, <2>1, <2>3
      <3> QED BY <2>1, <3>1
    <2> QED BY Zenon, <2>2, <2>3
  <1>8. \A j : Listed(j)' => Listed(j) /\ j # i
    <2>1. ASSUME NEW d \in Cpus, NEW k \in 1 .. Len(free_list'[d])
          PROVE  Listed(free_list'[d][k]) /\ free_list'[d][k] # i
      <3>1. CASE f = <<>>
        <4>1. d # c /\ Listed(free_list'[d][k]) /\ i = NEXT_COUNTER_INDEX
          BY Zenon, <1>3, <1>7, <2>1, <3>1 DEF Listed
        <4>2. free_list'[d][k] \in Indices
          BY <1>7, <2>1, <4>1 DEF Types
        <4> QED BY <1>1, <4>1, <4>2 DEF IndexInv, ListsInv
      <3>2. CASE f # <<>>
        <4>1. 1 \in 1 .. Len(f) /\ i = free_list[c][1]
          BY <1>1, <1>3, <3>2, EmptyIs
        <4>2. PICK l \in 1 .. Len(free_list[d]) : free_list'[d][k] = free_list[d][l] /\ (d = c => l # 1)
          <5>1. CASE d = c
            <6>1. k + 1 \in 1 .. Len(free_list[d]) /\ free_list'[d][k] = free_list[d][k + 1] /\ k + 1 # 1
              BY <1>7, <2>1, <5>1
            <6> QED BY Zenon, <6>1
          <5>2. CASE d # c
            BY Zenon, <1>7, <2>1, <5>2
          <5> QED BY Zenon, <5>1, <5>2
        <4>3. free_list[d][l] # i
          BY <4>1, <4>2 DEF IndexInv, ListsInv
        <4> QED BY Zenon, <4>2, <4>3 DEF Listed
      <3> QED BY Zenon, <3>1, <3>2
    <2> QED BY <2>1 DEF Listed
  <1>9. \A d \in Cpus : Holds(d)' => Holds(d) /\ cpu'[d].ptr = cpu[d].ptr
    BY Zenon DEF Watch, Returns, Holds, Types, Idle, Pointer
  <1>10. \A j : Used(j)' => Used(j) \/ j = i
    BY Zenon, <1>6, <1>9 DEF Used
  <1>11. UsedInv'
    <2>1. \A j \in Indices : Used(j)' => j < NEXT_COUNTER_INDEX'
      BY <1>1, <1>2, <1>3, <1>4, <1>10 DEF IndexInv, UsedInv, Indices
    <2>2. \A p \in pointers : p.watched => p.index # i
      BY Zenon, <1>4 DEF Used
    <2>3. \A d \in Cpus : Holds(d)' => cpu'[d].ptr.index # i
      BY Zenon, <1>4, <1>9 DEF Used
    <2>4. \A p, r \in pointers' : p.watched /\ r.watched /\ p.index = r.index => p = r
      BY Zenon, <1>6, <2>2 DEF IndexInv, UsedInv
    <2>5. \A p \in pointers', d \in Cpus : p.watched /\ Holds(d)' => p.index # cpu'[d].ptr.index
      BY <1>6, <1>9, <2>3 DEF IndexInv, UsedInv
    <2>6. \A d, e \in Cpus : Holds(d)' /\ Holds(e)' /\ cpu'[d].ptr.index = cpu'[e].ptr.index => d = e
      BY Zenon, <1>9 DEF IndexInv, UsedInv
    <2> QED BY Zenon, <2>1, <2>4, <2>5, <2>6 DEF UsedInv
  <1>12. ListsInv'
    <2>1. \A j \in Indices : Listed(j)' => j < NEXT_COUNTER_INDEX' /\ ~Used(j)'
      BY <1>1, <1>2, <1>3, <1>4, <1>8, <1>10 DEF IndexInv, ListsInv, Indices
    <2>2. ASSUME NEW d \in Cpus, NEW e \in Cpus, NEW k \in 1 .. Len(free_list'[d]), NEW l \in 1 .. Len(free_list'[e]),
                 free_list'[d][k] = free_list'[e][l]
          PROVE  d = e /\ k = l
      <3>1. \A x, z \in Cpus : \A y \in 1 .. Len(free_list[x]), w \in 1 .. Len(free_list[z]) :
              free_list[x][y] = free_list[z][w] => x = z /\ y = w
        BY Zenon DEF IndexInv, ListsInv
      <3> QED BY SMTT(60), <1>7, <2>2, <3>1
    <2> QED BY Zenon, <2>1, <2>2 DEF ListsInv
  <1>13. \A p \in pointers' : p.watched => Leads(p)'
    <2>1. init(o) = [lower |-> o.base, upper |-> o.base + o.size]
      <3>1. o.base \in Nat /\ o.size \in Nat /\ o.base + o.size < 2 * Half /\ Half \in Nat \ {0}
        BY Zenon, <1>1 DEF OkObjects, ConstantsOK
      <3>2. Low(o.base) = o.base /\ Low(o.base + o.size) = o.base + o.size
        BY <3>1, LowIsSame
      <3> QED BY Zenon, <3>2 DEF init
    <2>2. \A p \in pointers : p.watched => p.index # i /\ p.index \in Indices
      BY Zenon, <1>4 DEF Used, Types, PtrType
    <2>3. \A j \in Indices : DESCRIPTORS'[j] = IF j = i THEN init(o) ELSE DESCRIPTORS[j]
      BY <1>1, <1>6 DEF Types, Indices
    <2> QED BY <1>4, <1>6, <2>1, <2>2, <2>3 DEF IndexInv, Leads
  <1> QED BY Zenon, <1>11, <1>12, <1>13 DEF IndexInv

\* Every step of a wrapper keeps the invariant, if krealloc does not fail.
LEMMA DInvStep ==
  ASSUME ConstantsOK, KreallocSucceeds = {TRUE}, DInv, [Next]_vars
  PROVE  DInv'
  <1>1. Types /\ Types'
    BY Zenon, TypesStep DEF DInv
  <1>2. SUFFICES ASSUME NEXT_COUNTER_INDEX' <= MAX_NUM_WATCHPOINTS PROVE IndexInv'
    BY Zenon, <1>1 DEF DInv
  <1>g. ASSUME NEW c \in Cpus, NEW pc, NEW ptr, NEW o, Goes(c, pc, ptr, o)
        PROVE  /\ cpu'[c].pc = pc /\ cpu'[c].ptr = ptr
               /\ \A d \in Cpus \ {c} : cpu'[d] = cpu[d]
    BY Zenon, <1>1, <1>g DEF Goes, Types
  <1>r. ASSUME NEW c \in Cpus, Returns(c)
        PROVE  ~Holds(c)' /\ \A d \in Cpus \ {c} : cpu'[d] = cpu[d]
    BY Zenon, <1>1, <1>r DEF Returns, Types, Holds, Idle
  <1>3. ASSUME NEW c \in Cpus, Watch(c) PROVE IndexInv'
    <2>1. NEXT_COUNTER_INDEX <= NEXT_COUNTER_INDEX'
      BY <1>1, <1>3, Allocated DEF Watch, add_watchpoint, Types
    <2>2. NEXT_COUNTER_INDEX <= MAX_NUM_WATCHPOINTS
      BY <1>1, <1>2, <2>1 DEF Types, ConstantsOK
    <2> QED BY Zenon, <1>1, <1>2, <1>3, <2>2, Watching DEF DInv
  <1>4. ASSUME NEXT_COUNTER_INDEX' = NEXT_COUNTER_INDEX PROVE IndexInv
    BY Zenon, <1>2, <1>4 DEF DInv
  <1>f. ASSUME NEW c \in Cpus, IndexInv, NEW ptr \in pointers, free_descriptor_of(c, ptr), pointers' = pointers \ {ptr},
               NEW pc, pc # "moved", Goes(c, pc, ptr, ptr.obj), UNCHANGED <<NEXT_COUNTER_INDEX, DESCRIPTORS>>
        PROVE  IndexInv'
    <2>1. Releases
      BY Zenon, <1>f, <1>g DEF Releases, Holds
    <2>2. CASE ~ptr.watched
      BY Zenon, <1>f, <2>1, <2>2, Dropped DEF free_descriptor_of
    <2>3. CASE ptr.watched
      <3>1. ptr.index \in Indices /\ Used(ptr.index)
        BY Zenon, <1>1, <2>3 DEF Types, PtrType, Used
      <3>2. ptr.index < NEXT_COUNTER_INDEX /\ ~Listed(ptr.index)
        BY Zenon, <1>f, <3>1 DEF IndexInv, UsedInv, ListsInv
      <3>3. ~Used(ptr.index)'
        BY Zenon, <1>f, <2>1, <2>3 DEF Releases, Used, IndexInv, UsedInv
      <3> QED BY Zenon, <1>1, <1>f, <2>1, <2>3, <3>1, <3>2, <3>3, Given DEF free_descriptor_of
    <2> QED BY Zenon, <2>2, <2>3
  <1>5. ASSUME NEW c \in Cpus, NEW e, Allocates(c, e) PROVE IndexInv'
    <2>1. PICK o : Goes(c, "watch", Idle.ptr, o)
      BY Zenon, <1>5 DEF Allocates
    <2>2. Releases
      BY <1>5, <1>g, <2>1 DEF Allocates, Releases, Holds
    <2> QED BY Zenon, <1>4, <1>5, <2>2, Dropped DEF Allocates
  <1>6. ASSUME NEW c \in Cpus, NEW e, Frees(c, e) PROVE IndexInv'
    BY Zenon, <1>4, <1>6, <1>f DEF Frees
  <1>7. ASSUME NEW c \in Cpus, FreeObject(c) PROVE IndexInv'
    <2>1. Releases
      BY Zenon, <1>7, <1>r DEF FreeObject, Releases, Holds
    <2> QED BY Zenon, <1>4, <1>7, <2>1, Dropped DEF FreeObject
  <1>8. ASSUME NEW c \in Cpus, realloc(c) PROVE IndexInv'
    <2>1. PICK ptr \in pointers : \E o : /\ pointers' = pointers \ {ptr}
                                         /\ \E pc : Goes(c, pc, ptr, o)
      BY Zenon, <1>8 DEF realloc
    <2>2. ~Holds(c)
      BY <1>8 DEF realloc, Enters, Holds, Idle
    <2>3. cpu'[c].ptr = ptr /\ \A d \in Cpus \ {c} : cpu'[d] = cpu[d]
      BY Zenon, <1>g, <2>1
    <2> QED BY Zenon, <1>4, <1>8, <2>1, <2>2, <2>3, Taken DEF realloc
  <1>9. ASSUME NEW c \in Cpus, FreeMoved(c) PROVE IndexInv'
    <2> DEFINE ptr == cpu[c].ptr
    <2>1. /\ cpu[c].pc = "moved" /\ free_descriptor_of(c, ptr) /\ Goes(c, "watch", ptr, cpu[c].obj)
          /\ pointers' = pointers /\ UNCHANGED <<NEXT_COUNTER_INDEX, DESCRIPTORS>>
      BY Zenon, <1>9 DEF FreeMoved
    <2>2. IndexInv
      BY Zenon, <1>4, <2>1
    <2>3. Releases /\ ~Holds(c)'
      BY <1>g, <2>1 DEF Releases, Holds
    <2>4. CASE ~ptr.watched
      BY Zenon, <2>1, <2>2, <2>3, <2>4, Dropped DEF free_descriptor_of
    <2>5. CASE ptr.watched
      <3>0. PICK i : i = ptr.index
        OBVIOUS
      <3>1. i \in Indices /\ Holds(c) /\ Used(i)
        BY Zenon, <1>1, <2>1, <2>5, <3>0 DEF Types, CpuType, PtrType, Used, Holds
      <3>2. i < NEXT_COUNTER_INDEX /\ ~Listed(i)
        BY Zenon, <2>2, <3>1 DEF IndexInv, UsedInv, ListsInv
      <3>3. ~Used(i)'
        BY Zenon, <2>1, <2>2, <2>3, <3>0, <3>1 DEF Releases, Used, IndexInv, UsedInv
      <3> QED BY Zenon, <1>1, <2>1, <2>2, <2>3, <2>5, <3>0, <3>1, <3>2, <3>3, Given DEF free_descriptor_of
    <2> QED BY Zenon, <2>4, <2>5
  <1>10. ASSUME NEW c \in Cpus, krealloc(c) PROVE IndexInv'
    BY Zenon, <1>4, <1>10, <1>f DEF krealloc
  <1>11. ASSUME NEW c \in Cpus, Krealloc(c) PROVE IndexInv'
    <2>1. PICK o : Goes(c, "watch", Idle.ptr, o) /\ pointers' = pointers
      BY Zenon, <1>11 DEF Krealloc
    <2>2. Releases
      BY <1>11, <1>g, <2>1 DEF Krealloc, Releases, Holds
    <2> QED BY Zenon, <1>4, <1>11, <2>2, Dropped DEF Krealloc
  <1>12. CASE UNCHANGED vars
    BY Zenon, <1>4, <1>12, Dropped DEF vars, Releases, Holds
  <1> QED BY Zenon, <1>3, <1>5, <1>6, <1>7, <1>8, <1>9, <1>10, <1>11, <1>12
          DEF Next, malloc, __kmalloc, kmem_cache_alloc, __get_free_pages, free, kfree, kmem_cache_free, free_pages

\* As long as the counter of descriptors has not passed the last one and krealloc does
\* not fail, each watched pointer leads to a descriptor with the bounds of its object, and
\* the bounds checkers report an access through it exactly if it is not within the
\* object: for any number of CPUs, objects and descriptors, and any width of bounds.
THEOREM WatchedPointersAreChecked ==
  ASSUME ConstantsOK, KreallocSucceeds = {TRUE}
  PROVE  Spec => []DescriptorsAreRight
  <1>1. Init => DInv
    <2> SUFFICES ASSUME Init PROVE DInv
      OBVIOUS
    <2>1. Types
      BY Zenon, IdleType, EmptyIs DEF Init, Types, ConstantsOK
    <2>2. \A i : ~Used(i) /\ ~Listed(i)
      BY DEF Init, Used, Listed, Holds, Idle
    <2>3. ListsInv /\ UsedInv /\ \A p \in pointers : p.watched => Leads(p)
      BY <2>2 DEF ListsInv, UsedInv, Init, Holds, Idle
    <2> QED BY Zenon, <2>1, <2>3 DEF DInv, IndexInv
  <1>2. DInv /\ [Next]_vars => DInv'
    BY Zenon, DInvStep
  <1>3. DInv => DescriptorsAreRight
    <2>1. SUFFICES ASSUME DInv, NEXT_COUNTER_INDEX <= MAX_NUM_WATCHPOINTS, NEW p \in pointers, p.watched
                   PROVE  /\ Leads(p)
                          /\ \A addr \in Addresses, size \in OperandSizes :
                                  addr + size < 2 * Half /\ ClearOfMiddle(p.obj, size) =>
                                      Checked(DESCRIPTORS[p.index], p.obj, addr, size)
      BY Zenon DEF DescriptorsAreRight
    <2>2. p.obj \in OkObjects
      BY Zenon, <2>1 DEF DInv, Types, PtrType
    <2>3. Leads(p)
      BY Zenon, <2>1 DEF DInv, IndexInv
    <2> QED BY Zenon, <2>2, <2>3, CheckIsRight DEF Leads
  <1> QED BY <1>1, <1>2, <1>3, PTL DEF Spec
-----------------------------------------------------------------------------
(* Modules that come and go.                                               *)

EntryType == [base : Slots, is_granary : BOOLEAN, state : {"none", "coming", "live", "going"},
              is_instrumented : BOOLEAN]

ModuleTypes ==
    /\ loaded \in [Slots -> {"none", "live", "coming"}]
    /\ list \in Seq(EntryType)
    /\ device \in [open : Nat, initialised : BOOLEAN]

\* Granary's own entry is the first of the list; before it there is nothing.
GranaryFirst ==
    /\ list = <<>> => /\ loaded[Granary] = "coming" /\ ~ device.initialised /\ nx = {}
                      /\ \A b \in Slots : loaded[b] = "coming" => b = Granary
    /\ list # <<>> => /\ loaded[Granary] = "live"
                      /\ list[1].base = Granary /\ list[1].is_granary /\ ~ list[1].is_instrumented

\* Every other module in the list came after Granary was initialised.
OthersInstrumented ==
    \A j \in 2 .. Len(list) : /\ list[j].base # Granary /\ device.initialised
                              /\ ~ list[j].is_granary /\ list[j].is_instrumented

ListedOnce ==
    \A j, k \in 1 .. Len(list) : list[j].base = list[k].base => j = k

\* Every module that comes is in the list.
ComingListed ==
    \A b \in Slots : loaded[b] = "coming" /\ b # Granary => \E j \in 1 .. Len(list) : list[j].base = b

\* Only text of modules in the list is not executable, and all of the text of
\* those that are loaded.
NxListed ==
    \A p \in nx : \E j \in 2 .. Len(list) : p \in PagesOf(list[j].base)
ListedNx ==
    \A j \in 2 .. Len(list) :
        loaded[list[j].base] # "none" => PagesOf(list[j].base) \subseteq nx /\ list[j].base \in wrapped

ModuleInv ==
    /\ ModuleTypes /\ GranaryFirst /\ OthersInstrumented /\ ListedOnce /\ ComingListed
    /\ NxListed /\ ListedNx

\* set_page_perms changes the permission of the pages of a text, and the texts of
\* two modules have no page in common.
LEMMA PagesAre ==
    ASSUME ModulesOK, NEW b \in Slots
    PROVE  /\ set_page_perms(Text(b)) = PagesOf(b)
           /\ \A c \in Slots : PagesOf(c) \cap PagesOf(b) # {} => b = c
  <1>1. \A x \in Slots : x \in Nat /\ TextPages[x] \in {0, 2, 4, 6, 8}
    BY Zenon DEF ModulesOK
  <1>2. ASSUME NEW x \in Slots
        PROVE  PagesOf(x) = 4 * x .. 4 * x + (TextPages[x] \div 2) - 1
    <2>0. PICK n \in Nat : n = TextPages[x]
      BY <1>1
    <2>1. \A p : p \in PagesOf(x) <=> \E a \in 8 * x .. 8 * x + n - 1 : p = a \div 2
      <3>1. Text(x).begin = 8 * x /\ Text(x).end = 8 * x + n
        BY <2>0 DEF Text, SlotSize
      <3>2. \A p : p \in PagesOf(x) <=> \E a \in Text(x).begin .. Text(x).end - 1 : p = a \div 2
        BY Zenon DEF PagesOf, PFN_DOWN
      <3>3. Text(x).begin .. Text(x).end - 1 = 8 * x .. 8 * x + n - 1
        <4>1. Text(x).end - 1 = 8 * x + n - 1
          BY <1>1, <3>1
        <4> QED BY Zenon, <3>1, <4>1
      <3> QED BY Zenon, <3>2, <3>3
    <2>2. ASSUME NEW a \in 8 * x .. 8 * x + n - 1
          PROVE  a \div 2 \in 4 * x .. 4 * x + (n \div 2) - 1
      BY <1>1, <2>0
    <2>3. ASSUME NEW p \in 4 * x .. 4 * x + (n \div 2) - 1
          PROVE  2 * p \in 8 * x .. 8 * x + n - 1 /\ (2 * p) \div 2 = p
      BY <1>1, <2>0
    <2>4. \A p : p \in PagesOf(x) => p \in 4 * x .. 4 * x + (n \div 2) - 1
      BY Zenon, <2>1, <2>2
    <2>5. \A p : p \in 4 * x .. 4 * x + (n \div 2) - 1 => p \in PagesOf(x)
      BY Zenon, <2>1, <2>3
    <2> QED BY Zenon, <2>0, <2>4, <2>5
  <1>3. set_page_perms(Text(b)) = 4 * b .. 4 * b + (TextPages[b] \div 2) - 1
    BY <1>1 DEF set_page_perms, Text, SlotSize, PFN_DOWN
  <1>4. ASSUME NEW c \in Slots, NEW p \in PagesOf(c), p \in PagesOf(b) PROVE b = c
    <2>1. p \in 4 * c .. 4 * c + (TextPages[c] \div 2) - 1 /\ p \in 4 * b .. 4 * b + (TextPages[b] \div 2) - 1
      BY Zenon, <1>2, <1>4
    <2>2. PICK m \in {0, 2, 4, 6, 8} : m = TextPages[c]
      BY Zenon, <1>1
    <2>3. PICK n \in {0, 2, 4, 6, 8} : n = TextPages[b]
      BY Zenon, <1>1
    <2>4. c \in Nat /\ b \in Nat
      BY Zenon, <1>1
    <2>5. m \div 2 <= 4 /\ n \div 2 <= 4 /\ m \div 2 \in Nat /\ n \div 2 \in Nat
      OBVIOUS
    <2>6. p \in Int /\ 4 * c <= p /\ p < 4 * c + 4 /\ 4 * b <= p /\ p < 4 * b + 4
      BY <2>1, <2>2, <2>3, <2>4, <2>5
    <2> QED BY <2>4, <2>6
  <1> QED BY Zenon, <1>2, <1>3, <1>4

\* Where a module is in the list.
LEMMA KnownIs ==
    ASSUME ModuleTypes, ListedOnce, NEW b
    PROVE  /\ Known(b) \in Nat /\ Known(b) <= Len(list)
           /\ \A j \in 1 .. Len(list) : list[j].base = b => Known(b) = j
           /\ Known(b) # 0 => Known(b) \in 1 .. Len(list) /\ list[Known(b)].base = b
  <1> DEFINE here == {i \in DOMAIN list : list[i].base = b}
  <1>1. Known(b) = IF here = {} THEN 0 ELSE CHOOSE x \in here : \A y \in here : x <= y
    BY Zenon DEF Known
  <1>2. Len(list) \in Nat /\ DOMAIN list = 1 .. Len(list)
    BY DEF ModuleTypes
  <1>3. here \in SUBSET Nat
    BY <1>2
  <1>4. CASE here = {}
    <2>1. Known(b) = 0
      BY Zenon, <1>1, <1>4
    <2> QED BY <1>2, <1>4, <2>1
  <1>5. CASE here # {}
    <2>1. \E x \in here : \A y \in here : x <= y
      <3> HIDE DEF here
      <3> QED BY Zenon, <1>3, <1>5, Smallest
    <2>2. Known(b) \in here
      <3> HIDE DEF here
      <3> QED BY Zenon, <1>1, <1>5, <2>1
    <2>3. \A j \in 1 .. Len(list) : list[j].base = b => Known(b) = j
      BY Zenon, <1>2, <2>2 DEF ListedOnce
    <2> QED BY <1>2, <2>2, <2>3
  <1> QED BY Zenon, <1>4, <1>5

LEMMA InitModuleInv ==
    ASSUME ModulesOK, ModuleInit
    PROVE  ModuleInv
  <1>1. ModuleTypes
    BY DEF ModuleInit, ModuleTypes
  <1>2. Len(list) = 0 /\ list = <<>> /\ nx = {}
    BY DEF ModuleInit
  <1>3. GranaryFirst /\ ComingListed
    BY <1>2 DEF ModuleInit, GranaryFirst, ComingListed
  <1>4. OthersInstrumented /\ ListedOnce /\ NxListed /\ ListedNx
    BY <1>2 DEF OthersInstrumented, ListedOnce, NxListed, ListedNx
  <1> QED BY Zenon, <1>1, <1>3, <1>4 DEF ModuleInv

\* A module that comes is entered as the last of the list.
LEMMA ComingEntry ==
    ASSUME ModuleInv, NEW b \in Slots, list # <<>>, Known(b) \in {0, Len(list)}
    PROVE  LET f == find_internal_module(b, "coming")
           IN  /\ f.i \in Nat \ {0} /\ f.i = IF Known(b) = 0 THEN Len(list) + 1 ELSE Len(list)
               /\ f.list = Append(SubSeq(list, 1, f.i - 1), Entry(b)) /\ f.nx = set_page_perms(Text(b))
               /\ f.list \in Seq(EntryType) /\ Len(f.list) = f.i /\ f.list[f.i] = Entry(b)
               /\ \A j \in 1 .. f.i - 1 : f.list[j] = list[j]
  <1> DEFINE f == find_internal_module(b, "coming")
             at == IF Known(b) = 0 THEN Len(list) + 1 ELSE Len(list)
             rest == SubSeq(list, 1, at - 1)
  <1>1. list \in Seq(EntryType) /\ Len(list) \in Nat \ {0} /\ device.initialised \in BOOLEAN
    BY DEF ModuleInv, ModuleTypes
  <1>2. Entry(b) \in EntryType
    BY <1>1 DEF Entry, EntryType
  <1>3. f = [i |-> at, list |-> Append(rest, Entry(b)), nx |-> set_page_perms(Text(b))]
    BY Zenon DEF find_internal_module
  <1>4. at \in Nat \ {0} /\ at <= Len(list) + 1
    BY <1>1
  <1> HIDE DEF at
  <1>5. rest \in Seq(EntryType) /\ Len(rest) = at - 1 /\ \A j \in 1 .. at - 1 : rest[j] = list[j]
    BY <1>1, <1>4
  <1> HIDE DEF rest
  <1>6. /\ Append(rest, Entry(b)) \in Seq(EntryType) /\ Len(Append(rest, Entry(b))) = at
        /\ Append(rest, Entry(b))[at] = Entry(b)
        /\ \A j \in 1 .. at - 1 : Append(rest, Entry(b))[j] = list[j]
    BY <1>2, <1>4, <1>5
  <1> HIDE DEF f
  <1>7. f.i = at /\ f.list = Append(rest, Entry(b)) /\ f.nx = set_page_perms(Text(b))
    BY Zenon, <1>3
  <1>8. f.list = Append(SubSeq(list, 1, f.i - 1), Entry(b))
    BY Zenon, <1>7 DEF rest
  <1>9. f.i = IF Known(b) = 0 THEN Len(list) + 1 ELSE Len(list)
    BY Zenon, <1>7 DEF at
  <1>10. /\ f.i \in Nat \ {0} /\ f.list \in Seq(EntryType) /\ Len(f.list) = f.i /\ f.list[f.i] = Entry(b)
         /\ \A j \in 1 .. f.i - 1 : f.list[j] = list[j]
    BY Zenon, <1>4, <1>6, <1>7
  <1> QED BY Zenon, <1>7, <1>8, <1>9, <1>10 DEF f

LEMMA ComingStep ==
    ASSUME ModulesOK, KernelDoes = {}, ModuleInv, NEW b \in Slots, Coming(b)
    PROVE  ModuleInv'
  <1>0. /\ loaded[b] = "none" /\ list # <<>> /\ device.initialised = TRUE
        /\ Known(b) \in {0, Len(list)}
        /\ loaded' = [loaded EXCEPT ![b] = "coming"] /\ device' = device
    BY DEF Coming, ModuleInv, ModuleTypes
  <1>1. b # Granary /\ Granary \in Slots
    BY <1>0 DEF ModuleInv, GranaryFirst, ModulesOK
  <1> DEFINE f == find_internal_module(b, "coming")
  <1>2. PICK n \in Nat \ {0} : n = f.i
    BY Zenon, <1>0, ComingEntry
  <1>3. PICK s \in Seq(EntryType) : s = f.list
    BY Zenon, <1>0, ComingEntry
  <1>4. /\ n = IF Known(b) = 0 THEN Len(list) + 1 ELSE Len(list)
        /\ Len(s) = n /\ s[n] = Entry(b)
        /\ \A j \in 1 .. n - 1 : s[j] = list[j]
    BY Zenon, <1>0, <1>2, <1>3, ComingEntry
  <1>5. Entry(b) = [base |-> b, is_granary |-> FALSE, state |-> "none", is_instrumented |-> TRUE]
    BY Zenon, <1>0 DEF Entry
  <1>6. /\ list' = [s EXCEPT ![n].state = "coming"]
        /\ nx' = (nx \ PagesOf(b)) \cup PagesOf(b)
        /\ wrapped' = wrapped \cup {b}
    <2>1. f.nx = PagesOf(b) /\ set_page_perms(Text(b)) = PagesOf(b)
      BY Zenon, <1>0, ComingEntry, PagesAre
    <2>2. f.list[f.i] = Entry(b)
      BY Zenon, <1>2, <1>3, <1>4
    <2>3. module_load_notifier(b, "coming", nx \ PagesOf(b))
      BY Zenon DEF Coming
    <2>4. n # 0 /\ Entry(b).is_instrumented /\ ~ Entry(b).is_granary /\ Entry(b).base = b
      BY <1>5
    <2>5. /\ list' = [f.list EXCEPT ![f.i].state = "coming"]
          /\ nx' = (nx \ PagesOf(b)) \cup f.nx \cup set_page_perms(Text(b))
          /\ notify_module_state_change(f.list[f.i], "coming")
      BY Zenon, <1>2, <2>2, <2>3, <2>4 DEF module_load_notifier
    <2>6. wrapped' = wrapped \cup {b}
      BY Zenon, <2>2, <2>4, <2>5 DEF notify_module_state_change
    <2>7. nx' = (nx \ PagesOf(b)) \cup PagesOf(b)
      BY Zenon, <2>1, <2>5
    <2> QED BY Zenon, <1>2, <1>3, <2>5, <2>6, <2>7
  <1>7. /\ list' \in Seq(EntryType) /\ Len(list') = n /\ Len(list) \in Nat \ {0}
        /\ list'[n].base = b /\ ~ list'[n].is_granary /\ list'[n].is_instrumented
        /\ \A j \in 1 .. n - 1 : list'[j] = list[j]
    <2>1. Len(list) \in Nat \ {0}
      BY <1>0 DEF ModuleInv, ModuleTypes
    <2>2. PICK r \in EntryType : r = s[n]
      BY <1>4
    <2>3. PICK q : q = [r EXCEPT !.state = "coming"]
      BY Zenon
    <2>4. q \in EntryType
      BY <2>3 DEF EntryType
    <2>5. q.base = b /\ ~ q.is_granary /\ q.is_instrumented
      BY <1>4, <1>5, <2>2, <2>3 DEF EntryType
    <2>6. list' = [s EXCEPT ![n] = q]
      BY Zenon, <1>6, <2>2, <2>3
    <2>7. /\ list' \in Seq(EntryType) /\ Len(list') = n /\ list'[n] = q
          /\ \A j \in 1 .. n - 1 : list'[j] = s[j]
      BY <1>4, <2>4, <2>6
    <2> QED BY Zenon, <1>4, <2>1, <2>5, <2>7
  \* The entry of b is not the first, and the others are not of b.
  <1>8. /\ n \in 2 .. Len(list) + 1 /\ n - 1 <= Len(list)
        /\ \A j \in 1 .. n - 1 : list[j].base # b
        /\ \A j \in 1 .. Len(list) : j \in 1 .. n - 1 \/ list[j].base = b
    <2>1. /\ ModuleTypes /\ ListedOnce /\ list[1].base = Granary
      BY Zenon, <1>0 DEF ModuleInv, GranaryFirst
    <2>2. /\ \A j \in 1 .. Len(list) : list[j].base = b => Known(b) = j
          /\ Known(b) # 0 => Known(b) \in 1 .. Len(list) /\ list[Known(b)].base = b
      BY Zenon, <2>1, KnownIs
    <2> QED BY <1>0, <1>1, <1>4, <1>7, <2>1, <2>2
  <1>9. ModuleTypes'
    BY <1>0, <1>7 DEF ModuleInv, ModuleTypes
  <1>10. GranaryFirst'
    BY <1>0, <1>1, <1>7, <1>8 DEF ModuleInv, ModuleTypes, GranaryFirst
  <1>11. OthersInstrumented'
    BY SMTT(60), <1>0, <1>1, <1>7, <1>8 DEF ModuleInv, OthersInstrumented
  <1>12. ListedOnce'
    <2>1. SUFFICES ASSUME NEW j \in 1 .. Len(list'), NEW k \in 1 .. Len(list'), list'[j].base = list'[k].base
                   PROVE  j = k
      BY Zenon DEF ListedOnce
    <2>2. ASSUME NEW i \in 1 .. Len(list')
          PROVE  i = n \/ (i \in 1 .. n - 1 /\ i \in 1 .. Len(list) /\ list'[i] = list[i] /\ list[i].base # b)
      BY <1>7, <1>8
    <2>3. list'[n].base = b
      BY Zenon, <1>7
    <2> QED BY Zenon, <2>1, <2>2, <2>3 DEF ModuleInv, ListedOnce
  <1>13. ComingListed'
    BY <1>0, <1>7, <1>8 DEF ModuleInv, ModuleTypes, ComingListed
  <1>14. \A p : p \in nx' <=> p \in nx \/ p \in PagesOf(b)
    BY Zenon, <1>6
  <1>15. NxListed'
    <2>1. SUFFICES ASSUME NEW p \in nx'
                   PROVE  \E j \in 2 .. Len(list') : p \in PagesOf(list'[j].base)
      BY Zenon DEF NxListed, PagesOf, Text
    <2>2. CASE p \in PagesOf(b)
      <3>1. n \in 2 .. Len(list') /\ list'[n].base = b
        BY <1>7, <1>8
      <3> QED BY Zenon, <2>2, <3>1
    <2>3. CASE p \in nx /\ p \notin PagesOf(b)
      <3>1. PICK j \in 2 .. Len(list) : p \in PagesOf(list[j].base)
        BY Zenon, <2>3 DEF ModuleInv, NxListed
      <3>2. list[j].base # b
        BY Zenon, <2>3, <3>1
      <3>3. j \in 2 .. n - 1 /\ j \in 1 .. n - 1 /\ n - 1 <= n
        BY <1>7, <1>8, <3>2
      <3>4. list'[j] = list[j] /\ j \in 2 .. Len(list')
        BY <1>7, <3>3
      <3> QED BY Zenon, <3>1, <3>4
    <2> QED BY Zenon, <1>14, <2>1, <2>2, <2>3
  <1>16. ListedNx'
    <2>1. SUFFICES ASSUME NEW j \in 2 .. Len(list'), loaded'[list'[j].base] # "none"
                   PROVE  PagesOf(list'[j].base) \subseteq nx' /\ list'[j].base \in wrapped'
      BY Zenon DEF ListedNx, PagesOf, Text
    <2>2. CASE j = n
      <3>1. list'[j].base = b
        BY <1>7, <2>2
      <3>2. PagesOf(b) \subseteq nx' /\ b \in wrapped'
        BY Zenon, <1>6, <1>14
      <3> QED BY Zenon, <3>1, <3>2
    <2>3. CASE j # n
      <3>0. j \in 1 .. n - 1 /\ j \in 2 .. Len(list) /\ j \in 1 .. Len(list)
        BY <1>7, <1>8, <2>3
      <3>a. list[j] \in EntryType
        BY <3>0 DEF ModuleInv, ModuleTypes
      <3>1. list'[j] = list[j] /\ j \in 2 .. Len(list) /\ list[j].base # b /\ list[j].base \in Slots
        BY <1>7, <1>8, <3>0, <3>a DEF EntryType
      <3>2. loaded[list[j].base] # "none"
        BY <1>0, <2>1, <3>1 DEF ModuleInv, ModuleTypes
      <3>3. PagesOf(list[j].base) \subseteq nx /\ list[j].base \in wrapped
        BY Zenon, <3>1, <3>2 DEF ModuleInv, ListedNx
      <3>4. PagesOf(list[j].base) \subseteq nx' /\ list[j].base \in wrapped'
        BY Zenon, <1>6, <1>14, <3>3
      <3> QED BY Zenon, <3>1, <3>4
    <2> QED BY Zenon, <2>2, <2>3
  <1> QED BY Zenon, <1>9, <1>10, <1>11, <1>12, <1>13, <1>15, <1>16 DEF ModuleInv

\* Granary's own module: its entry is the first, and is not instrumented.
LEMMA GranaryLiveStep ==
    ASSUME ModulesOK, ModuleInv, list = <<>>, NEW b \in Slots, Live(b)
    PROVE  ModuleInv'
  <1>1. /\ b = Granary /\ device.initialised = FALSE /\ nx = {} /\ Len(list) = 0
        /\ loaded' = [loaded EXCEPT ![b] = "live"] /\ device' = device
    BY DEF Live, ModuleInv, GranaryFirst, ModuleTypes
  <1>2. Known(b) = 0
    BY <1>1, KnownIs DEF ModuleInv
  <1> DEFINE f == find_internal_module(b, "live")
             first == [base |-> b, is_granary |-> TRUE, state |-> "none", is_instrumented |-> FALSE]
  <1>3. Entry(b) = first
    BY Zenon, <1>1 DEF Entry
  <1>4. f = [i |-> 1, list |-> Append(SubSeq(list, 1, 0), Entry(b)), nx |-> {}]
    BY <1>1, <1>2 DEF find_internal_module
  <1>a. first \in EntryType
    BY DEF EntryType
  <1> HIDE DEF f, first
  <1>5. PICK q \in Seq(EntryType) : q = Append(SubSeq(list, 1, 0), Entry(b))
    <2>1. SubSeq(list, 1, 0) \in Seq(EntryType)
      BY DEF ModuleInv, ModuleTypes
    <2>2. Entry(b) \in EntryType
      BY Zenon, <1>3, <1>a
    <2>3. Append(SubSeq(list, 1, 0), Entry(b)) \in Seq(EntryType)
      BY <2>1, <2>2
    <2> QED BY Zenon, <2>3
  <1>b. Len(q) = 1 /\ q[1] = first
    <2>1. Len(SubSeq(list, 1, 0)) = 0 /\ SubSeq(list, 1, 0) \in Seq(EntryType)
      BY DEF ModuleInv, ModuleTypes
    <2> QED BY <1>3, <1>a, <1>5, <2>1
  <1>6. f.i = 1 /\ f.list = q /\ f.nx = {}
    BY <1>4, <1>5
  <1>7. list' = q /\ nx' = {}
    <2>1. f.list[f.i] = first
      BY <1>b, <1>6
    <2>2. ~ first.is_instrumented
      BY DEF first
    <2>3. module_load_notifier(b, "live", nx)
      BY Zenon DEF Live
    <2>4. list' = f.list /\ nx' = nx \cup f.nx
      BY Zenon, <2>1, <2>2, <2>3 DEF module_load_notifier, f
    <2> QED BY <1>1, <1>6, <2>4
  <1>8. Len(list') = 1 /\ list'[1] = first /\ list' # <<>> /\ list' \in Seq(EntryType)
    BY <1>b, <1>7
  <1>9. ModuleTypes'
    BY <1>1, <1>8 DEF ModuleInv, ModuleTypes
  <1>10. GranaryFirst'
    BY <1>1, <1>8 DEF ModuleInv, ModuleTypes, GranaryFirst, first
  <1>11. OthersInstrumented' /\ ListedOnce' /\ ListedNx'
    BY <1>8 DEF OthersInstrumented, ListedOnce, ListedNx
  <1>12. ComingListed'
    BY <1>1 DEF ModuleInv, ModuleTypes, GranaryFirst, ComingListed
  <1>13. NxListed'
    BY <1>7 DEF NxListed
  <1> QED BY Zenon, <1>9, <1>10, <1>11, <1>12, <1>13 DEF ModuleInv

\* What a change of an entry's state, of other modules' text and of what is loaded
\* keeps.
LEMMA EntryKept ==
    ASSUME ModuleInv, ModuleTypes', list # <<>>, device' = device,
           Len(list') = Len(list),
           \A j \in 1 .. Len(list) :
              /\ list'[j].base = list[j].base /\ list'[j].is_granary = list[j].is_granary
              /\ list'[j].is_instrumented = list[j].is_instrumented,
           loaded'[Granary] = loaded[Granary],
           \A b \in Slots : loaded'[b] = "coming" => loaded[b] = "coming",
           \A b \in Slots : loaded'[b] # "none" => loaded[b] # "none",
           nx \subseteq nx', wrapped' = wrapped,
           \A p \in nx' : p \in nx \/ \E j \in 2 .. Len(list) : p \in PagesOf(list[j].base)
    PROVE  ModuleInv'
  <1>0. Len(list) \in Nat \ {0} /\ list' # <<>>
    BY DEF ModuleInv, ModuleTypes
  <1>1. GranaryFirst'
    <2>1. 1 \in 1 .. Len(list)
      BY <1>0
    <2> QED BY Zenon, <1>0, <2>1 DEF ModuleInv, GranaryFirst
  <1>2. \A j \in 2 .. Len(list) : j \in 1 .. Len(list)
    BY <1>0
  <1>3. OthersInstrumented'
    BY Zenon, <1>2 DEF ModuleInv, OthersInstrumented
  <1>4. ListedOnce'
    BY Zenon DEF ModuleInv, ListedOnce
  <1>5. ComingListed'
    <2>1. SUFFICES ASSUME NEW b \in Slots, loaded'[b] = "coming", b # Granary
                   PROVE  \E j \in 1 .. Len(list') : list'[j].base = b
      BY Zenon DEF ComingListed
    <2>3. loaded[b] = "coming"
      BY Zenon, <2>1
    <2>4. PICK j \in 1 .. Len(list) : list[j].base = b
      BY Zenon, <2>1, <2>3 DEF ModuleInv, ComingListed
    <2>5. list'[j].base = b /\ j \in 1 .. Len(list')
      BY Zenon, <2>4
    <2> QED BY Zenon, <2>5
  <1>6. NxListed'
    <2>1. SUFFICES ASSUME NEW p \in nx'
                   PROVE  \E j \in 2 .. Len(list') : p \in PagesOf(list'[j].base)
      BY Zenon DEF NxListed, PagesOf, Text
    <2>2. PICK j \in 2 .. Len(list) : p \in PagesOf(list[j].base)
      BY Zenon DEF ModuleInv, NxListed
    <2>3. list'[j].base = list[j].base
      BY Zenon, <1>2
    <2> QED BY Zenon, <2>2, <2>3
  <1>7. ListedNx'
    <2>1. SUFFICES ASSUME NEW j \in 2 .. Len(list'), loaded'[list'[j].base] # "none"
                   PROVE  PagesOf(list'[j].base) \subseteq nx' /\ list'[j].base \in wrapped'
      BY Zenon DEF ListedNx, PagesOf, Text
    <2>2. j \in 2 .. Len(list) /\ list'[j].base = list[j].base
      BY Zenon, <1>2
    <2>3. list[j] \in EntryType
      BY <1>2, <2>2 DEF ModuleInv, ModuleTypes
    <2>4. list[j].base \in Slots
      BY <2>3 DEF EntryType
    <2>5. loaded[list[j].base] # "none"
      BY Zenon, <2>1, <2>2, <2>4
    <2>6. PagesOf(list[j].base) \subseteq nx /\ list[j].base \in wrapped
      BY Zenon, <2>2, <2>5 DEF ModuleInv, ListedNx
    <2>7. PagesOf(list[j].base) \subseteq nx'
      BY Zenon, <2>6
    <2> QED BY Zenon, <2>2, <2>6, <2>7
  <1> QED BY Zenon, <1>1, <1>3, <1>4, <1>5, <1>6, <1>7 DEF ModuleInv

\* A notification of a module in the list changes the state of its entry, that of
\* another module nothing.
LEMMA Notified ==
    ASSUME ModulesOK, ModuleInv, list # <<>>, NEW b \in Slots, b # Granary,
           NEW to \in {"live", "going"}, to = "live" => Known(b) # 0,
           module_load_notifier(b, to, nx)
    PROVE  /\ Known(b) # 0 => /\ list' \in Seq(EntryType) /\ Len(list') = Len(list) /\ wrapped' = wrapped
                              /\ \A j \in 1 .. Len(list) :
                                   /\ list'[j].base = list[j].base
                                   /\ list'[j].is_granary = list[j].is_granary
                                   /\ list'[j].is_instrumented = list[j].is_instrumented
                              /\ nx' = nx \/ nx' = nx \cup PagesOf(b)
                              /\ Known(b) \in 2 .. Len(list) /\ list[Known(b)].base = b
           /\ Known(b) = 0 => list' = list /\ nx' = nx /\ wrapped' = wrapped
  <1> DEFINE f == find_internal_module(b, to)
  <1>1. CASE Known(b) = 0
    <2>1. f = [i |-> 0, list |-> list, nx |-> {}]
      BY <1>1 DEF find_internal_module
    <2> HIDE DEF f
    <2>2. f.i = 0 /\ f.list = list /\ f.nx = {}
      BY <2>1
    <2>3. list' = f.list /\ nx' = nx \cup f.nx /\ wrapped' = wrapped
      BY Zenon, <2>2 DEF module_load_notifier, f
    <2>4. nx' = nx
      BY <2>2, <2>3
    <2> QED BY Zenon, <1>1, <2>2, <2>3, <2>4
  <1>2. CASE Known(b) # 0
    <2>0. PICK i \in 1 .. Len(list) : i = Known(b) /\ list[i].base = b
      BY Zenon, <1>2, KnownIs DEF ModuleInv
    <2>1. f = [i |-> i, list |-> list, nx |-> {}]
      BY <1>2, <2>0 DEF find_internal_module
    <2> HIDE DEF f
    <2>2. f.i = i /\ f.list = list /\ f.nx = {}
      BY <2>1
    <2>3. i \in 2 .. Len(list) /\ list \in Seq(EntryType) /\ Len(list) \in Nat
      BY <2>0 DEF ModuleInv, GranaryFirst, ModuleTypes
    <2>4. i # 0 /\ list[i].is_instrumented
      BY <2>3 DEF ModuleInv, OthersInstrumented
    <2>5. /\ list' = [f.list EXCEPT ![f.i].state = to]
          /\ nx' = nx \cup f.nx \cup (IF to = "live" THEN {} ELSE set_page_perms(Text(b)))
          /\ notify_module_state_change(f.list[f.i], to)
      BY Zenon, <2>2, <2>4 DEF module_load_notifier, f
    <2>6. wrapped' = wrapped
      BY <2>5 DEF notify_module_state_change
    <2>7. nx' = nx \/ nx' = nx \cup PagesOf(b)
      <3>1. set_page_perms(Text(b)) = PagesOf(b)
        BY Zenon, PagesAre
      <3> QED BY <2>2, <2>5, <3>1
    <2>8. PICK r \in EntryType : r = list[i]
      BY <2>3
    <2>9. PICK q : q = [r EXCEPT !.state = to]
      BY Zenon
    <2>10. /\ q \in EntryType /\ q.base = r.base /\ q.is_granary = r.is_granary
           /\ q.is_instrumented = r.is_instrumented
      BY <2>9 DEF EntryType
    <2>11. list' = [list EXCEPT ![i] = q]
      BY Zenon, <2>2, <2>5, <2>8, <2>9
    <2>12. /\ list' \in Seq(EntryType) /\ Len(list') = Len(list) /\ list'[i] = q
           /\ \A j \in 1 .. Len(list) : j # i => list'[j] = list[j]
      BY <2>3, <2>10, <2>11
    <2>13. \A j \in 1 .. Len(list) : /\ list'[j].base = list[j].base
                                     /\ list'[j].is_granary = list[j].is_granary
                                     /\ list'[j].is_instrumented = list[j].is_instrumented
      BY Zenon, <2>8, <2>10, <2>12
    <2> QED BY Zenon, <1>2, <2>0, <2>3, <2>6, <2>7, <2>12, <2>13
  <1> QED BY Zenon, <1>1, <1>2

LEMMA LiveStep ==
    ASSUME ModulesOK, ModuleInv, list # <<>>, NEW b \in Slots, Live(b)
    PROVE  ModuleInv'
  <1>1. /\ loaded[b] = "coming" /\ loaded' = [loaded EXCEPT ![b] = "live"] /\ device' = device
        /\ module_load_notifier(b, "live", nx) /\ b # Granary
        /\ loaded \in [Slots -> {"none", "live", "coming"}] /\ Granary \in Slots
    BY DEF Live, ModuleInv, ModuleTypes, GranaryFirst, ModulesOK
  <1>2. Known(b) # 0
    <2>1. PICK j \in 1 .. Len(list) : list[j].base = b
      BY Zenon, <1>1 DEF ModuleInv, ComingListed
    <2>2. Known(b) = j
      BY Zenon, <2>1, KnownIs DEF ModuleInv
    <2> QED BY <2>2
  <1>3. /\ list' \in Seq(EntryType) /\ Len(list') = Len(list) /\ wrapped' = wrapped
        /\ nx' = nx \/ nx' = nx \cup PagesOf(b)
        /\ Known(b) \in 2 .. Len(list) /\ list[Known(b)].base = b
    BY Zenon, <1>1, <1>2, Notified
  <1>4. \A j \in 1 .. Len(list) : /\ list'[j].base = list[j].base
                                  /\ list'[j].is_granary = list[j].is_granary
                                  /\ list'[j].is_instrumented = list[j].is_instrumented
    BY Zenon, <1>1, <1>2, Notified
  <1>5. \A p \in nx' : p \in nx \/ \E j \in 2 .. Len(list) : p \in PagesOf(list[j].base)
    BY Zenon, <1>3
  <1>6. /\ loaded'[Granary] = loaded[Granary]
        /\ \A c \in Slots : loaded'[c] = "coming" => loaded[c] = "coming"
        /\ \A c \in Slots : loaded'[c] # "none" => loaded[c] # "none"
    BY <1>1
  <1>7. ModuleTypes'
    BY <1>1, <1>3 DEF ModuleInv, ModuleTypes
  <1>8. nx \subseteq nx'
    BY Zenon, <1>3
  <1> QED BY Zenon, <1>1, <1>3, <1>4, <1>5, <1>6, <1>7, <1>8, EntryKept

LEMMA GoingStep ==
    ASSUME ModulesOK, ModuleInv, NEW b \in Slots, Going(b)
    PROVE  ModuleInv'
  <1>1. /\ loaded' = [loaded EXCEPT ![b] = "none"] /\ device' = device /\ list # <<>>
        /\ module_load_notifier(b, "going", nx) /\ b # Granary
        /\ loaded \in [Slots -> {"none", "live", "coming"}] /\ Granary \in Slots
    BY DEF Going, ModuleInv, ModuleTypes, ModulesOK
  <1>2. /\ loaded'[Granary] = loaded[Granary]
        /\ \A c \in Slots : loaded'[c] = "coming" => loaded[c] = "coming"
        /\ \A c \in Slots : loaded'[c] # "none" => loaded[c] # "none"
        /\ loaded' \in [Slots -> {"none", "live", "coming"}]
    BY <1>1
  <1>3. CASE Known(b) = 0
    <2>1. list' = list /\ nx' = nx /\ wrapped' = wrapped
      BY Zenon, <1>1, <1>3, Notified
    <2>2. ModuleTypes'
      BY Zenon, <1>1, <1>2, <2>1 DEF ModuleInv, ModuleTypes
    <2> QED BY Zenon, <1>1, <1>2, <2>1, <2>2, EntryKept
  <1>4. CASE Known(b) # 0
    <2>1. /\ list' \in Seq(EntryType) /\ Len(list') = Len(list) /\ wrapped' = wrapped
          /\ nx' = nx \/ nx' = nx \cup PagesOf(b)
          /\ Known(b) \in 2 .. Len(list) /\ list[Known(b)].base = b
      BY Zenon, <1>1, <1>4, Notified
    <2>2. \A j \in 1 .. Len(list) : /\ list'[j].base = list[j].base
                                    /\ list'[j].is_granary = list[j].is_granary
                                    /\ list'[j].is_instrumented = list[j].is_instrumented
      BY Zenon, <1>1, <1>4, Notified
    <2>3. \A p \in nx' : p \in nx \/ \E j \in 2 .. Len(list) : p \in PagesOf(list[j].base)
      BY Zenon, <2>1
    <2>4. ModuleTypes'
      BY Zenon, <1>1, <1>2, <2>1 DEF ModuleInv, ModuleTypes
    <2>5. nx \subseteq nx'
      BY Zenon, <2>1
    <2> QED BY Zenon, <1>1, <1>2, <2>1, <2>2, <2>3, <2>4, <2>5, EntryKept
  <1> QED BY Zenon, <1>3, <1>4

LEMMA DeviceStep ==
    ASSUME ModuleInv, device_open \/ device_close
    PROVE  ModuleInv'
  <1>1. UNCHANGED <<loaded, list, nx, wrapped>>
    BY Zenon DEF device_open, device_close
  <1>2. /\ device' \in [open : Nat, initialised : BOOLEAN]
        /\ device.initialised => device'.initialised
        /\ list = <<>> /\ ~ device.initialised => ~ device'.initialised
    <2>1. device \in [open : Nat, initialised : BOOLEAN]
      BY Zenon DEF ModuleInv, ModuleTypes
    <2>2. CASE device_open
      BY <2>1, <2>2 DEF device_open
    <2>3. CASE device_close
      BY <2>1, <2>3 DEF device_close
    <2> QED BY Zenon, <2>2, <2>3
  <1>3. ModuleTypes' /\ GranaryFirst'
    BY Zenon, <1>1, <1>2 DEF ModuleInv, ModuleTypes, GranaryFirst
  <1>4. OthersInstrumented'
    BY Zenon, <1>1, <1>2 DEF ModuleInv, OthersInstrumented
  <1>5. ListedOnce' /\ ComingListed' /\ NxListed' /\ ListedNx'
    BY Zenon, <1>1 DEF ModuleInv, ListedOnce, ComingListed, NxListed, ListedNx, PagesOf, Text
  <1> QED BY Zenon, <1>3, <1>4, <1>5 DEF ModuleInv

LEMMA ModuleInvariant ==
    ASSUME ModulesOK, KernelDoes = {}
    PROVE  ModuleSpec => []ModuleInv
  <1>1. ModuleInit => ModuleInv
    BY Zenon, InitModuleInv
  <1>2. ModuleInv /\ [ModuleNext]_moduleVars => ModuleInv'
    <2> SUFFICES ASSUME ModuleInv, [ModuleNext]_moduleVars PROVE ModuleInv'
      OBVIOUS
    <2>1. CASE UNCHANGED moduleVars
      <3>1. UNCHANGED <<loaded, list, nx, device, wrapped>>
        BY Zenon, <2>1 DEF moduleVars
      <3> QED BY Zenon, <3>1 DEF ModuleInv, ModuleTypes, GranaryFirst, OthersInstrumented,
                 ListedOnce, ComingListed, NxListed, ListedNx, PagesOf, Text
    <2>2. ASSUME NEW b \in Slots, Coming(b) \/ Live(b) \/ Going(b) PROVE ModuleInv'
      BY Zenon, <2>2, ComingStep, GranaryLiveStep, LiveStep, GoingStep
    <2>3. CASE device_open \/ device_close
      BY Zenon, <2>3, DeviceStep
    <2> QED BY Zenon, <2>1, <2>2, <2>3 DEF ModuleNext
  <1> QED BY <1>1, <1>2, PTL DEF ModuleSpec

\* Every module that is loaded once Granary is initialised runs in the code cache
\* until it is gone, and no fault of another module's text is mistaken for one of
\* its own: set_page_perms, find_internal_module and is_app_address, for any
\* modules, as long as the kernel does not load a module where one was unloaded
\* that is not the last of the list, nor one before Granary is initialised.
THEOREM ModulesStayInstrumented ==
    ASSUME ModulesOK, KernelDoes = {}
    PROVE  ModuleSpec => []ModulesAreInstrumented
  <1>1. ModuleInv => ModulesAreInstrumented
    <2> SUFFICES ASSUME ModuleInv PROVE ModulesAreInstrumented
      OBVIOUS
    <2>1. ASSUME NEW j \in 2 .. Len(list)
          PROVE  j \in 1 .. Len(list) /\ j # 0 /\ list[j].base \in Slots
      <3>1. j \in 1 .. Len(list) /\ j # 0 /\ list[j] \in EntryType
        BY DEF ModuleInv, ModuleTypes
      <3> QED BY <3>1 DEF EntryType
    <2>2. ASSUME NEW b \in Slots, PagesOf(b) \cap nx # {}
          PROVE  device.initialised /\ is_app_address(b)
      <3>1. PICK p \in nx : p \in PagesOf(b)
        BY Zenon, <2>2
      <3>2. PICK j \in 2 .. Len(list) : p \in PagesOf(list[j].base)
        BY Zenon DEF ModuleInv, NxListed
      <3>3. list[j].base = b
        BY Zenon, <2>1, <3>1, <3>2, PagesAre
      <3>4. Known(b) = j
        BY Zenon, <2>1, <3>3, KnownIs DEF ModuleInv
      <3> QED BY Zenon, <2>1, <3>4 DEF ModuleInv, OthersInstrumented, is_app_address
    <2>3. ASSUME loaded[Granary] = "live" PROVE is_host_module(Granary)
      <3>1. list # <<>> /\ list[1].base = Granary /\ list[1].is_granary
        BY <2>3 DEF ModuleInv, GranaryFirst
      <3>2. 1 \in 1 .. Len(list)
        BY <3>1 DEF ModuleInv, ModuleTypes
      <3>3. Known(Granary) = 1
        <4>1. \A j \in 1 .. Len(list) : list[j].base = Granary => Known(Granary) = j
          BY Zenon, KnownIs DEF ModuleInv
        <4> QED BY Zenon, <3>1, <3>2, <4>1
      <3> QED BY <3>1, <3>3 DEF is_host_module
    <2>4. FaultsAreTakenOver
      BY Zenon, <2>2, <2>3 DEF FaultsAreTakenOver
    <2>5. NoneRunsNatively
      <3> SUFFICES ASSUME NEW b \in Slots, b # Granary, loaded[b] \in {"coming", "live"}, Known(b) # 0
                   PROVE  PagesOf(b) \subseteq nx /\ b \in wrapped
        BY Zenon DEF NoneRunsNatively
      <3>1. Known(b) \in 1 .. Len(list) /\ list[Known(b)].base = b
        BY Zenon, KnownIs DEF ModuleInv
      <3>2. PICK j \in 1 .. Len(list) : j = Known(b)
        BY Zenon, <3>1
      <3>3. j \in 2 .. Len(list) /\ list[j].base = b
        BY <3>1, <3>2 DEF ModuleInv, ModuleTypes, GranaryFirst
      <3>4. loaded[list[j].base] # "none"
        BY <3>3
      <3> QED BY Zenon, <3>3, <3>4 DEF ModuleInv, ListedNx
    <2> QED BY Zenon, <2>4, <2>5 DEF ModulesAreInstrumented
  <1> QED BY <1>1, ModuleInvariant, PTL
=============================================================================
