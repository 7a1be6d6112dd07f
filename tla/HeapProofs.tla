----------------------------- MODULE HeapProofs -----------------------------
(***************************************************************************)
(* Proofs about Heap: for any number of CPUs, any sizes of requests and a  *)
(* heap of any size, global_allocate and global_free implement an          *)
(* allocator.  The free lists are links that are stored in the objects     *)
(* themselves; what the proof follows instead is the set of the blocks     *)
(* that the bump pointer has ever cut off, and who owns each of them.      *)
(***************************************************************************)
EXTENDS Heap, Induction, FiniteSetTheorems, TLAPS

\* What is assumed of the constants.
HeapOK == ConstantsOK /\ SizeClassesOK(Requests)

\* The size of the objects of a class.
SizeOf(s) == 2^(s + MinScale)

Pcs == {"idle", "check", "bump", "fault", "pop_lock", "pop", "unlink", "pop_unlock", "push_lock", "push", "link",
        "store", "push_unlock"}

\* c has taken an object from a list, or is about to put one there.
Carries(c) == pc[c] \in {"pop_unlock", "push_lock", "push", "link", "store"}

\* c holds the lock of the list of its class.
Locks(c) == pc[c] \in {"pop", "unlink", "pop_unlock", "push", "link", "store", "push_unlock"}

Types ==
    /\ heapIndex \in Nat
    /\ head \in [Scales -> Places]
    /\ lock \in [Scales -> BOOLEAN]
    /\ cell \in [Addresses -> Places \cup {Data}]
    /\ held \subseteq [addr : Addresses, size : Requests]
    /\ pc \in [Cpus -> Pcs]
    /\ size \in [Cpus -> Requests \cup {0}]
    /\ object \in [Cpus -> Places]
    /\ next \in [Cpus -> Places]
    /\ \A c \in Cpus : pc[c] # "idle" => size[c] \in Requests

\* An object of a class, at an address.
Block(a, s) == [addr |-> a, scale |-> s]

\* The object at a is with a caller, or with a CPU in the allocator.
Owned(a) == \/ \E o \in held : o.addr = a
            \/ \E c \in Cpus : Carries(c) /\ object[c] = a

\* The blocks of a class that nobody owns: they are on its list.
FreeOf(B, s) == {a \in Addresses : Block(a, s) \in B /\ ~Owned(a)}

BlocksType == SUBSET [addr : Addresses, scale : Scales]

\* The blocks are below the bump pointer, in the heap, and apart.
BlocksOK(B) ==
    /\ \A b \in B : b.addr + SizeOf(b.scale) <= heapIndex /\ b.addr + SizeOf(b.scale) <= HeapSize
    /\ \A b, d \in B : b = d \/ b.addr + SizeOf(b.scale) <= d.addr \/ d.addr + SizeOf(d.scale) <= b.addr

\* What is owned is a block of the class that its owner believes, and has one owner.
OwnersOK(B) ==
    /\ \A o \in held : Block(o.addr, ScaleOf(o.size)) \in B
    /\ \A c \in Cpus : Carries(c) => Block(object[c], Scale(c)) \in B
    /\ \A o, p \in held : o.addr = p.addr => o = p
    /\ \A o \in held, c \in Cpus : Carries(c) => o.addr # object[c]
    /\ \A c, d \in Cpus : Carries(c) /\ Carries(d) /\ object[c] = object[d] => c = d

\* A list is used by one CPU at a time.
LocksOK ==
    /\ \A c \in Cpus : Locks(c) => lock[Scale(c)]
    /\ \A c, d \in Cpus : Locks(c) /\ Locks(d) /\ Scale(c) = Scale(d) => c = d

\* The list of a class links free blocks of it, no two to the same one and none to
\* the head; a CPU that is about to change the list knows its head.
ListsOK(B) ==
    /\ \A s \in Scales :
        /\ head[s] # Null => head[s] \in FreeOf(B, s)
        /\ \A a \in FreeOf(B, s) : cell[a] # Null => cell[a] \in FreeOf(B, s) /\ cell[a] # head[s]
        /\ \A a, b \in FreeOf(B, s) : cell[a] = cell[b] /\ cell[a] # Null => a = b
    /\ \A c \in Cpus :
        /\ pc[c] = "unlink" => object[c] = head[Scale(c)] /\ object[c] # Null
        /\ pc[c] = "link" => next[c] = head[Scale(c)]
        /\ pc[c] = "store" => cell[object[c]] = head[Scale(c)]

ShapeOK(B) == BlocksOK(B) /\ OwnersOK(B) /\ ListsOK(B)

Depths == [Addresses -> Nat]

\* d counts the links from a free block to the end of its list, and the links come
\* from the head: a block that is not the head has one before it.
Chained(B, d) ==
    \A s \in Scales : \A a \in FreeOf(B, s) :
        /\ cell[a] = Null => d[a] = 1
        /\ cell[a] # Null => d[a] = d[cell[a]] + 1
        /\ a # head[s] => \E b \in FreeOf(B, s) : cell[b] = a

ChainsKept(B, D) == \A d \in Depths : Chained(B, d) => Chained(D, d)'

\* The bump pointer passed nothing but blocks, as long as the heap is not exhausted.
Covered(B) ==
    (\A c \in Cpus : pc[c] # "fault") =>
        \A x \in 0 .. heapIndex - 1 : \E b \in B : x \in b.addr .. b.addr + SizeOf(b.scale) - 1

\* A CPU has an object in hand only while it moves it from or to a list.
HandsOK ==
    /\ calls \in 0 .. MaxCalls
    /\ \A c \in Cpus : object[c] # Null => Carries(c) \/ pc[c] = "unlink"

WholeOK(B) == ShapeOK(B) /\ Covered(B) /\ \E d \in Depths : Chained(B, d)

\* The inductive invariant.
HeapInv == Types /\ LocksOK /\ HandsOK /\ \E B \in BlocksType : WholeOK(B)

\* The steps of c leave the other CPUs alone.
OthersSame(c) ==
  \A d \in Cpus \ {c} : pc'[d] = pc[d] /\ object'[d] = object[d] /\ size'[d] = size[d] /\ next'[d] = next[d]

-----------------------------------------------------------------------------
\* Requests of a class get objects of one size, that of the class, which holds them.
LEMMA SizeClass ==
  ASSUME HeapOK
  PROVE  /\ \A n \in Requests : /\ n \in Nat \ {0} /\ ScaleOf(n) \in Scales /\ n <= SizeOf(ScaleOf(n))
                                /\ SizeOf(ScaleOf(n)) = allocation_size(n)
         /\ \A s \in Scales : SizeOf(s) \in Nat \ {0}
  <1>1. ASSUME NEW n \in Requests
        PROVE  /\ n \in Nat \ {0} /\ ScaleOf(n) \in Scales /\ n <= SizeOf(ScaleOf(n))
               /\ SizeOf(ScaleOf(n)) = allocation_size(n) /\ allocation_size(n) \in Nat \ {0}
    <2>1. SizeOf(ScaleOf(n)) = allocation_size(n) /\ n \in Nat \ {0} /\ allocation_size(n) \in Nat /\ n <= allocation_size(n)
      BY Zenon DEF HeapOK, ConstantsOK, SizeClassesOK, SizeOf
    <2> QED BY <2>1 DEF Scales
  <1>2. ASSUME NEW s \in Scales PROVE SizeOf(s) \in Nat \ {0}
    <2>1. PICK n \in Requests : s = ScaleOf(n)
      BY Zenon DEF Scales
    <2> QED BY Zenon, <1>1, <2>1
  <1> QED BY Zenon, <1>1, <1>2

\* What global_allocate leaves behind when it returns an object has the right type.
LEMMA ReturnTypes ==
  ASSUME HeapOK, Types, NEW c \in Cpus, pc[c] # "idle", NEW from, NEW o \in Addresses, Return(c, from, o)
  PROVE  /\ cell' \in [Addresses -> Places \cup {Data}]
         /\ held' \subseteq [addr : Addresses, size : Requests]
         /\ pc' = [pc EXCEPT ![c] = "idle"] /\ size' = [size EXCEPT ![c] = 0]
         /\ object' = [object EXCEPT ![c] = Null]
  BY DEF Types, Return, Step

\* Steps keep the types; the link that Unlink loads from an object is one, and not
\* what an owner wrote there.
LEMMA TypesStep ==
  ASSUME HeapOK, HeapInv, [Next]_vars
  PROVE  Types'
  <1> USE DEF Step, Places, Pcs
  <1>0. Types /\ HeapSize \in Nat /\ Requests \subseteq Nat \ {0} /\ \A n \in Requests : allocation_size(n) \in Nat /\ ScaleOf(n) \in Scales
    BY Zenon DEF HeapInv, HeapOK, ConstantsOK, SizeClassesOK, Scales
  <1>s. \A c \in Cpus : pc[c] # "idle" => Scale(c) \in Scales /\ allocation_size(size[c]) \in Nat
    BY Zenon, <1>0 DEF Types, Scale
  <1>b. \A c \in Cpus : Carries(c) => object[c] \in Addresses
    BY Zenon DEF HeapInv, WholeOK, ShapeOK, OwnersOK, Block, BlocksType
  <1>u. \A c \in Cpus : pc[c] = "unlink" => object[c] \in Addresses /\ (cell[object[c]] \in Places)
    <2>1. PICK B \in BlocksType : ListsOK(B)
      BY Zenon DEF HeapInv, WholeOK, ShapeOK
    <2> QED BY <1>0, <1>s, <2>1 DEF ListsOK, FreeOf
  <1>1. ASSUME NEW c \in Cpus, NEW n \in Requests, Allocate(c, n) PROVE Types'
    BY Zenon, <1>0, <1>1 DEF Allocate, Types
  <1>2. ASSUME NEW c \in Cpus, NEW o \in held, Free(c, o) PROVE Types'
    BY Zenon, <1>0, <1>2 DEF Free, Types
  <1>3. ASSUME NEW c \in Cpus, CheckHead(c) PROVE Types'
    BY Zenon, <1>0, <1>3 DEF CheckHead, Types
  <1>4. ASSUME NEW c \in Cpus, Bump(c) PROVE Types'
    <2>1. heapIndex \in Addresses
      BY <1>0, <1>s, <1>4 DEF Bump, Fits, Types, Addresses, SizeClassesOK
    <2>2. pc[c] # "idle" /\ Return(c, "bump", heapIndex)
      BY Zenon, <1>4 DEF Bump
    <2> QED BY <1>0, <1>s, <1>4, <2>1, <2>2, ReturnTypes DEF Bump, Types
  <1>5. ASSUME NEW c \in Cpus, Fault(c) PROVE Types'
    BY <1>0, <1>s, <1>5 DEF Fault, Types
  <1>6. ASSUME NEW c \in Cpus, PopLock(c) \/ PushLock(c) PROVE Types'
    <2>1. CASE PopLock(c)
      BY Zenon, <1>0, <1>s, <2>1 DEF PopLock, Acquire, Types
    <2>2. CASE PushLock(c)
      BY Zenon, <1>0, <1>s, <2>2 DEF PushLock, Acquire, Types
    <2> QED BY Zenon, <1>6, <2>1, <2>2
  <1>7. ASSUME NEW c \in Cpus, PopNothing(c) PROVE Types'
    BY Zenon, <1>0, <1>s, <1>7 DEF PopNothing, Types
  <1>8. ASSUME NEW c \in Cpus, Pop(c) PROVE Types'
    BY Zenon, <1>0, <1>s, <1>8 DEF Pop, Types
  <1>9. ASSUME NEW c \in Cpus, Unlink(c) PROVE Types'
    BY Zenon, <1>0, <1>s, <1>u, <1>9 DEF Unlink, Types
  <1>10. ASSUME NEW c \in Cpus, PopUnlock(c) PROVE Types'
    <2>1. pc[c] # "idle" /\ object[c] \in Addresses /\ Return(c, "pop_unlock", object[c])
      BY Zenon, <1>b, <1>10 DEF PopUnlock, Carries
    <2> QED BY <1>0, <1>s, <1>10, <2>1, ReturnTypes DEF PopUnlock, Types
  <1>11. ASSUME NEW c \in Cpus, LoadNext(c) PROVE Types'
    BY Zenon, <1>0, <1>s, <1>11 DEF LoadNext, Types
  <1>12. ASSUME NEW c \in Cpus, Link(c) PROVE Types'
    BY Zenon, <1>0, <1>s, <1>b, <1>12 DEF Link, Types, Carries
  <1>13. ASSUME NEW c \in Cpus, StoreHead(c) PROVE Types'
    BY Zenon, <1>0, <1>s, <1>b, <1>13 DEF StoreHead, Types, Carries
  <1>14. ASSUME NEW c \in Cpus, PushUnlock(c) PROVE Types'
    BY Zenon, <1>0, <1>s, <1>14 DEF PushUnlock, Types
  <1>15. CASE UNCHANGED vars
    BY Zenon, <1>0, <1>15 DEF vars, Types
  <1> QED BY Zenon, <1>1, <1>2, <1>3, <1>4, <1>5, <1>6, <1>7, <1>8, <1>9, <1>10, <1>11, <1>12, <1>13, <1>14, <1>15
          DEF Next, Call, Work

\* The lock of a list keeps two CPUs apart, which global_allocate and global_free
\* release on every path.
LEMMA LocksStep ==
  ASSUME Types, LocksOK, Types', [Next]_vars
  PROVE  LocksOK'
  <1> USE DEF Step, Locks
  <1>t. /\ pc \in [Cpus -> Pcs]
        /\ size \in [Cpus -> Requests \cup {0}]
        /\ lock \in [Scales -> BOOLEAN]
        /\ \A c \in Cpus : pc[c] # "idle" => Scale(c) \in Scales
    BY Zenon DEF Types, Scale, Scales
  <1>1. ASSUME NEW c \in Cpus, \A d \in Cpus \ {c} : pc'[d] = pc[d] /\ size'[d] = size[d], lock' = lock,
               Locks(c)' => Locks(c) /\ size'[c] = size[c]
        PROVE  LocksOK'
    BY <1>1 DEF LocksOK, Scale
  <1>2. ASSUME NEW c \in Cpus, NEW from, NEW to, from # "idle", Acquire(c, from, to), size' = size PROVE LocksOK'
    <2>1. /\ \A d \in Cpus : d # c => pc'[d] = pc[d]
          /\ \A d \in Cpus : Scale(d)' = Scale(d)
          /\ Scale(c) \in Scales /\ ~lock[Scale(c)]
          /\ \A s \in Scales : lock'[s] = IF s = Scale(c) THEN TRUE ELSE lock[s]
      BY Zenon, <1>t, <1>2 DEF Acquire, Scale
    <2>2. \A d \in Cpus : Locks(d) => Scale(d) # Scale(c) /\ Scale(d) \in Scales
      BY Zenon, <1>t, <2>1 DEF LocksOK
    <2>3. \A d \in Cpus : Locks(d)' => d = c \/ Locks(d)
      BY Zenon, <2>1
    <2>4. \A d \in Cpus : Locks(d)' => lock'[Scale(d)]
      BY Zenon, <2>1, <2>2, <2>3 DEF LocksOK
    <2>5. \A d, e \in Cpus : Locks(d)' /\ Locks(e)' /\ Scale(d) = Scale(e) => d = e
      <3> HIDE DEF Locks
      <3> QED BY Zenon, <2>2, <2>3 DEF LocksOK
    <2>6. \A d \in Cpus : Locks(d)' => (lock[Scale(d)])'
      BY Zenon, <2>1, <2>4
    <2> HIDE DEF Locks
    <2> QED BY Zenon, <2>1, <2>5, <2>6 DEF LocksOK
  <1>3. ASSUME NEW c \in Cpus, Locks(c), ~Locks(c)', \A d \in Cpus \ {c} : pc'[d] = pc[d] /\ size'[d] = size[d],
               lock' = [lock EXCEPT ![Scale(c)] = FALSE]
        PROVE  LocksOK'
    <2>1. \A d \in Cpus \ {c} : (Locks(d)' <=> Locks(d)) /\ Scale(d)' = Scale(d)
      BY Zenon, <1>3 DEF Scale
    <2>2. \A d \in Cpus \ {c} : Locks(d) => Scale(d) # Scale(c) /\ Scale(d) \in Scales /\ lock[Scale(d)]
      BY Zenon, <1>t, <1>3 DEF LocksOK
    <2>3. \A s \in Scales : s # Scale(c) => lock'[s] = lock[s]
      BY Zenon, <1>t, <1>3
    <2> QED BY <1>3, <2>1, <2>2, <2>3 DEF LocksOK
  <1>4. ASSUME NEW c \in Cpus, NEW n \in Requests, Allocate(c, n) PROVE LocksOK'
    BY Zenon, <1>t, <1>1, <1>4 DEF Allocate
  <1>5. ASSUME NEW c \in Cpus, NEW o \in held, Free(c, o) PROVE LocksOK'
    BY Zenon, <1>t, <1>1, <1>5 DEF Free
  <1>6. ASSUME NEW c \in Cpus, CheckHead(c) PROVE LocksOK'
    BY Zenon, <1>t, <1>1, <1>6 DEF CheckHead
  <1>7. ASSUME NEW c \in Cpus, Bump(c) PROVE LocksOK'
    BY Zenon, <1>t, <1>1, <1>7 DEF Bump, Return
  <1>8. ASSUME NEW c \in Cpus, Fault(c) PROVE LocksOK'
    BY Zenon, <1>t, <1>1, <1>8 DEF Fault
  <1>9. ASSUME NEW c \in Cpus, PopLock(c) \/ PushLock(c) PROVE LocksOK'
    BY Zenon, <1>2, <1>9 DEF PopLock, PushLock
  <1>10. ASSUME NEW c \in Cpus, PopNothing(c) PROVE LocksOK'
    BY Zenon, <1>t, <1>3, <1>10 DEF PopNothing
  <1>11. ASSUME NEW c \in Cpus, Pop(c) \/ Unlink(c) \/ LoadNext(c) \/ Link(c) \/ StoreHead(c) PROVE LocksOK'
    BY Zenon, <1>t, <1>1, <1>11 DEF Pop, Unlink, LoadNext, Link, StoreHead
  <1>12. ASSUME NEW c \in Cpus, PopUnlock(c) \/ PushUnlock(c) PROVE LocksOK'
    BY Zenon, <1>t, <1>3, <1>12 DEF PopUnlock, PushUnlock, Return
  <1>13. CASE UNCHANGED vars
    BY Zenon, <1>13 DEF vars, LocksOK, Scale
  <1> QED BY Zenon, <1>4, <1>5, <1>6, <1>7, <1>8, <1>9, <1>10, <1>11, <1>12, <1>13 DEF Next, Call, Work

\* A step of the allocator that changes no head, no link in a free object and not
\* which objects are free keeps the lists.
LEMMA ChainsSame ==
  ASSUME NEW B, NEW D, head' = head, \A s \in Scales : FreeOf(D, s)' = FreeOf(B, s),
         \A s \in Scales : \A a \in FreeOf(B, s) : cell'[a] = cell[a]
  PROVE  ChainsKept(B, D)
  <1> SUFFICES ASSUME NEW d \in Depths, Chained(B, d), NEW s \in Scales, NEW a \in FreeOf(D, s)'
               PROVE  /\ cell'[a] = Null => d[a] = 1
                      /\ cell'[a] # Null => d[a] = d[cell'[a]] + 1
                      /\ a # head'[s] => \E b \in FreeOf(D, s)' : cell'[b] = a
    BY Zenon DEF ChainsKept, Chained
  <1>1. a \in FreeOf(B, s) /\ cell'[a] = cell[a] /\ FreeOf(D, s)' = FreeOf(B, s)
    BY Zenon
  <1>2. /\ cell[a] = Null => d[a] = 1
        /\ cell[a] # Null => d[a] = d[cell[a]] + 1
        /\ a # head[s] => \E b \in FreeOf(B, s) : cell[b] = a
    BY Zenon, <1>1 DEF Chained
  <1>3. \A b \in FreeOf(B, s) : b \in FreeOf(D, s)' /\ cell'[b] = cell[b]
    BY Zenon, <1>1
  <1> QED BY Zenon, <1>1, <1>2, <1>3

\* A step that changes neither who owns what nor a link keeps the shape.
LEMMA Quiet ==
  ASSUME NEW B \in BlocksType, ShapeOK(B), NEW c \in Cpus, OthersSame(c),
         held' = held, cell' = cell, head' = head, heapIndex' >= heapIndex, heapIndex \in Nat, heapIndex' \in Nat,
         \A s \in Scales : SizeOf(s) \in Nat,
         Carries(c)' <=> Carries(c), Carries(c) => object'[c] = object[c] /\ size'[c] = size[c],
         pc'[c] = "unlink" => object'[c] = head[Scale(c)'] /\ object'[c] # Null,
         pc'[c] = "link" => next'[c] = head[Scale(c)'],
         pc'[c] = "store" => cell[object'[c]] = head[Scale(c)']
  PROVE  ShapeOK(B)' /\ ChainsKept(B, B)
  <1>1. \A d \in Cpus : (Carries(d)' <=> Carries(d)) /\ (Carries(d) => object'[d] = object[d] /\ Scale(d)' = Scale(d))
    BY Zenon DEF OthersSame, Carries, Scale
  <1>2. \A a : Owned(a)' <=> Owned(a)
    BY Zenon, <1>1 DEF Owned
  <1>3. \A s : FreeOf(B, s)' = FreeOf(B, s)
    BY Zenon, <1>2 DEF FreeOf
  <1>4. BlocksOK(B)'
    <2>1. \A b \in B : b.addr \in Int /\ SizeOf(b.scale) \in Nat
      BY DEF BlocksType, Addresses
    <2> QED BY <2>1 DEF BlocksOK, ShapeOK
  <1>5. OwnersOK(B)'
    BY <1>1 DEF OwnersOK, ShapeOK
  <1>6. \A d \in Cpus \ {c} : pc'[d] = pc[d] /\ object'[d] = object[d] /\ Scale(d)' = Scale(d) /\ next'[d] = next[d]
    BY Zenon DEF OthersSame, Scale
  <1>7. ListsOK(B)'
    BY <1>3, <1>6 DEF ListsOK, ShapeOK
  <1>8. ChainsKept(B, B)
    BY Zenon, <1>3, ChainsSame
  <1> QED BY Zenon, <1>4, <1>5, <1>7, <1>8 DEF ShapeOK

\* Entering the allocator, the tests of the head, the locks and the loads are such steps.
LEMMA QuietSteps ==
  ASSUME HeapOK, Types, Types', NEW B \in BlocksType, ShapeOK(B), NEW c \in Cpus,
         \/ \E n \in Requests : Allocate(c, n)
         \/ CheckHead(c) \/ Fault(c) \/ PopLock(c) \/ PopNothing(c) \/ Pop(c) \/ PushLock(c) \/ LoadNext(c)
         \/ PushUnlock(c)
  PROVE  ShapeOK(B)' /\ ChainsKept(B, B)
  <1> USE DEF Step, Carries
  <1>1. pc \in [Cpus -> Pcs] /\ heapIndex \in Nat /\ heapIndex' \in Nat /\ object \in [Cpus -> Places] /\ next \in [Cpus -> Places]
         /\ size \in [Cpus -> Requests \cup {0}] /\ (pc[c] # "idle" => size[c] \in Requests)
    BY Zenon DEF Types
  <1>2. \A s \in Scales : SizeOf(s) \in Nat
    BY Zenon, SizeClass
  <1>3. heapIndex' >= heapIndex
    BY <1>1, SizeClass DEF Allocate, CheckHead, Fault, PopLock, PopNothing, Pop, PushLock, LoadNext, PushUnlock
  <1>4. OthersSame(c) /\ held' = held /\ cell' = cell /\ head' = head
    BY Zenon, <1>1 DEF OthersSame, Allocate, CheckHead, Fault, PopLock, PopNothing, Pop, PushLock, LoadNext, PushUnlock, Acquire
  <1>5. /\ Carries(c)' <=> Carries(c)
        /\ Carries(c) => object'[c] = object[c] /\ size'[c] = size[c]
        /\ pc'[c] = "unlink" => object'[c] = head[Scale(c)'] /\ object'[c] # Null
        /\ pc'[c] = "link" => next'[c] = head[Scale(c)']
        /\ pc'[c] # "store"
    BY Zenon, <1>1 DEF Allocate, CheckHead, Fault, PopLock, PopNothing, Pop, PushLock, LoadNext, PushUnlock, Acquire, Scale
  <1> QED BY Zenon, <1>1, <1>2, <1>3, <1>4, <1>5, Quiet

\* global_free is called: what was handed out is on its way to a list.
LEMMA FreeStep ==
  ASSUME HeapOK, Types, NEW B \in BlocksType, ShapeOK(B), NEW c \in Cpus, NEW o \in held, Free(c, o)
  PROVE  ShapeOK(B)' /\ ChainsKept(B, B)
  <1>1. /\ pc[c] = "idle" /\ pc'[c] = "push_lock" /\ object'[c] = o.addr /\ size'[c] = o.size
        /\ held' = held \ {o} /\ UNCHANGED <<heapIndex, head, cell>> /\ OthersSame(c)
    BY Zenon DEF Free, Step, Types, OthersSame
  <1>2. Carries(c)' /\ ~Carries(c) /\ Scale(c)' = ScaleOf(o.size)
    BY Zenon, <1>1 DEF Carries, Scale
  <1>3. \A d \in Cpus \ {c} : /\ (Carries(d)' <=> Carries(d)) /\ object'[d] = object[d] /\ Scale(d)' = Scale(d)
                              /\ pc'[d] = pc[d] /\ next'[d] = next[d]
    BY Zenon, <1>1 DEF OthersSame, Carries, Scale
  <1>4. \A a : Owned(a)' <=> Owned(a)
    BY <1>1, <1>2, <1>3 DEF Owned, ShapeOK, OwnersOK
  <1>5. \A s : FreeOf(B, s)' = FreeOf(B, s)
    BY Zenon, <1>4 DEF FreeOf
  <1>6. OwnersOK(B)'
    BY <1>1, <1>2, <1>3 DEF ShapeOK, OwnersOK
  <1>7. ListsOK(B)'
    BY <1>1, <1>3, <1>5 DEF ShapeOK, ListsOK
  <1>8. ChainsKept(B, B)
    BY Zenon, <1>1, <1>5, ChainsSame
  <1> QED BY Zenon, <1>1, <1>6, <1>7, <1>8 DEF ShapeOK, BlocksOK

\* global_allocate returns what it took from a list.
LEMMA PopUnlockStep ==
  ASSUME HeapOK, Types, NEW B \in BlocksType, ShapeOK(B), NEW c \in Cpus, PopUnlock(c)
  PROVE  ShapeOK(B)' /\ ChainsKept(B, B)
  <1> DEFINE o == [addr |-> object[c], size |-> size[c]]
  <1>1. /\ pc[c] = "pop_unlock" /\ pc'[c] = "idle" /\ cell' = [cell EXCEPT ![object[c]] = Data]
        /\ held' = held \cup {o} /\ UNCHANGED <<heapIndex, head>> /\ OthersSame(c)
    BY Zenon DEF PopUnlock, Return, Step, Types, OthersSame
  <1>2. ~Carries(c)' /\ Carries(c) /\ o.addr = object[c] /\ ScaleOf(o.size) = Scale(c)
    BY Zenon, <1>1 DEF Carries, Scale
  <1>3. \A d \in Cpus \ {c} : /\ (Carries(d)' <=> Carries(d)) /\ object'[d] = object[d] /\ Scale(d)' = Scale(d)
                              /\ pc'[d] = pc[d] /\ next'[d] = next[d]
    BY Zenon, <1>1 DEF OthersSame, Carries, Scale
  <1> HIDE DEF o
  <1>4. \A a : Owned(a)' <=> Owned(a)
    BY Zenon, <1>1, <1>2, <1>3 DEF Owned
  <1>5. \A s : FreeOf(B, s)' = FreeOf(B, s)
    BY Zenon, <1>4 DEF FreeOf
  <1>6. OwnersOK(B)'
    BY <1>1, <1>2, <1>3 DEF ShapeOK, OwnersOK
  <1>7. /\ \A s : \A a \in FreeOf(B, s) : cell'[a] = cell[a]
        /\ \A d \in Cpus \ {c} : Carries(d) => cell'[object[d]] = cell[object[d]]
    <2>1. \A a \in Addresses : a # object[c] => cell'[a] = cell[a]
      BY Zenon, <1>1 DEF Types
    <2>2. \A d \in Cpus \ {c} : Carries(d) => object[d] # object[c] /\ object[d] \in Addresses
      BY Zenon, <1>2 DEF ShapeOK, OwnersOK, Block, BlocksType
    <2> QED BY Zenon, <1>2, <2>1, <2>2 DEF FreeOf, Owned
  <1>8. ListsOK(B)'
    BY <1>1, <1>3, <1>5, <1>7 DEF ShapeOK, ListsOK, Carries
  <1>9. ChainsKept(B, B)
    <2>1. /\ head' = head
          /\ \A s \in Scales : FreeOf(B, s)' = FreeOf(B, s)
          /\ \A s \in Scales : \A a \in FreeOf(B, s) : cell'[a] = cell[a]
      BY Zenon, <1>1, <1>5, <1>7
    <2> QED BY Zenon, <2>1, ChainsSame
  <1> QED BY Zenon, <1>1, <1>6, <1>8, <1>9 DEF ShapeOK, BlocksOK

\* global_free stores the link to the rest of the list in the object that it frees.
LEMMA LinkStep ==
  ASSUME HeapOK, Types, NEW B \in BlocksType, ShapeOK(B), NEW c \in Cpus, Link(c)
  PROVE  ShapeOK(B)' /\ ChainsKept(B, B)
  <1>1. /\ pc[c] = "link" /\ pc'[c] = "store" /\ cell' = [cell EXCEPT ![object[c]] = next[c]]
        /\ held' = held /\ UNCHANGED <<heapIndex, head, object, size>> /\ OthersSame(c)
    BY Zenon DEF Link, Step, Types, OthersSame
  <1>2. \A d \in Cpus : (Carries(d)' <=> Carries(d)) /\ object'[d] = object[d] /\ Scale(d)' = Scale(d)
    BY Zenon, <1>1 DEF OthersSame, Carries, Scale
  <1>3. \A d \in Cpus \ {c} : pc'[d] = pc[d] /\ next'[d] = next[d]
    BY Zenon, <1>1 DEF OthersSame
  <1>4. \A a : Owned(a)' <=> Owned(a)
    BY Zenon, <1>1, <1>2 DEF Owned
  <1>5. \A s : FreeOf(B, s)' = FreeOf(B, s)
    BY Zenon, <1>4 DEF FreeOf
  <1>6. OwnersOK(B)'
    BY Zenon, <1>1, <1>2 DEF ShapeOK, OwnersOK
  <1>7. /\ \A s : \A a \in FreeOf(B, s) : cell'[a] = cell[a]
        /\ \A d \in Cpus \ {c} : Carries(d) => cell'[object[d]] = cell[object[d]]
        /\ cell'[object[c]] = next[c]
    <2>1. Carries(c)
      BY Zenon, <1>1 DEF Carries
    <2>2. object[c] \in Addresses
      BY Zenon, <2>1 DEF ShapeOK, OwnersOK, Block, BlocksType
    <2>3. (\A a \in Addresses : a # object[c] => cell'[a] = cell[a]) /\ cell'[object[c]] = next[c]
      BY Zenon, <1>1, <2>2 DEF Types
    <2>4. \A d \in Cpus \ {c} : Carries(d) => object[d] # object[c] /\ object[d] \in Addresses
      BY Zenon, <2>1 DEF ShapeOK, OwnersOK, Block, BlocksType
    <2> QED BY Zenon, <2>1, <2>3, <2>4 DEF FreeOf, Owned
  <1>8. ListsOK(B)'
    BY <1>1, <1>2, <1>3, <1>5, <1>7 DEF ShapeOK, ListsOK, Carries
  <1>9. ChainsKept(B, B)
    <2>1. /\ head' = head
          /\ \A s \in Scales : FreeOf(B, s)' = FreeOf(B, s)
          /\ \A s \in Scales : \A a \in FreeOf(B, s) : cell'[a] = cell[a]
      BY Zenon, <1>1, <1>5, <1>7
    <2> QED BY Zenon, <2>1, ChainsSame
  <1> QED BY Zenon, <1>1, <1>6, <1>8, <1>9 DEF ShapeOK, BlocksOK

\* Two blocks at one address are one block.
LEMMA OneBlock ==
  ASSUME HeapOK, NEW B \in BlocksType, BlocksOK(B), NEW b \in B, NEW d \in B, b.addr = d.addr
  PROVE  b = d
  <1>1. b.addr \in Int /\ d.addr \in Int /\ SizeOf(b.scale) \in Nat \ {0} /\ SizeOf(d.scale) \in Nat \ {0}
    BY SizeClass DEF BlocksType, Addresses
  <1> QED BY <1>1 DEF BlocksOK

\* The object that the bump pointer cuts off lies above all earlier ones.
LEMMA BumpStep ==
  ASSUME HeapOK, Types, NEW B \in BlocksType, ShapeOK(B), NEW c \in Cpus, Bump(c)
  PROVE  \E D \in BlocksType : ShapeOK(D)' /\ ChainsKept(B, D) /\ (Covered(B) => Covered(D)')
  <1> DEFINE o == [addr |-> heapIndex, size |-> size[c]]
             n == Block(heapIndex, Scale(c))
  <1>d. PICK D : D = B \cup {n}
    BY Zenon
  <1>0. /\ heapIndex \in Addresses /\ size[c] \in Requests /\ Scale(c) \in Scales
        /\ SizeOf(Scale(c)) = allocation_size(size[c]) /\ SizeOf(Scale(c)) \in Nat \ {0}
        /\ heapIndex + SizeOf(Scale(c)) <= HeapSize
    <2>1. size[c] \in Requests /\ heapIndex \in Nat /\ HeapSize \in Nat
      BY Zenon DEF Types, Bump, HeapOK, ConstantsOK
    <2>2. Scale(c) \in Scales /\ SizeOf(Scale(c)) = allocation_size(size[c]) /\ SizeOf(Scale(c)) \in Nat \ {0}
      BY Zenon, <2>1, SizeClass DEF Scale
    <2> QED BY <2>1, <2>2 DEF Bump, Fits, Addresses
  <1>1. /\ pc[c] = "bump" /\ pc'[c] = "idle" /\ cell' = [cell EXCEPT ![heapIndex] = Data]
        /\ held' = held \cup {o} /\ UNCHANGED head /\ OthersSame(c)
        /\ heapIndex' = heapIndex + SizeOf(Scale(c))
    BY Zenon, <1>0 DEF Bump, Return, Step, Types, OthersSame
  <1>2. ~Carries(c)' /\ ~Carries(c) /\ o.addr = heapIndex /\ ScaleOf(o.size) = Scale(c)
    BY Zenon, <1>1 DEF Carries, Scale
  <1>3. \A d \in Cpus \ {c} : /\ (Carries(d)' <=> Carries(d)) /\ object'[d] = object[d] /\ Scale(d)' = Scale(d)
                              /\ pc'[d] = pc[d] /\ next'[d] = next[d]
    BY Zenon, <1>1 DEF OthersSame, Carries, Scale
  <1>4. n.addr = heapIndex /\ n.scale = Scale(c) /\ D \in BlocksType
    BY <1>d, <1>0 DEF BlocksType, Block
  <1>5. \A b \in B : /\ b.addr \in Nat /\ SizeOf(b.scale) \in Nat \ {0}
                     /\ b.addr + SizeOf(b.scale) <= heapIndex /\ b.addr < heapIndex
    <2>1. \A b \in B : b.addr \in Nat /\ SizeOf(b.scale) \in Nat \ {0}
      BY SizeClass DEF BlocksType, Addresses
    <2> QED BY <2>1 DEF ShapeOK, BlocksOK, Types
  <1>6. BlocksOK(D)'
    <2>1. \A b \in D : b.addr \in Nat /\ SizeOf(b.scale) \in Nat /\ b.addr + SizeOf(b.scale) <= heapIndex'
                        /\ b.addr + SizeOf(b.scale) <= HeapSize
      <3> HIDE DEF n
      <3> QED BY <1>d, <1>0, <1>1, <1>4, <1>5 DEF ShapeOK, BlocksOK, Types
    <2>2. \A b, d \in D : b = d \/ b.addr + SizeOf(b.scale) <= d.addr \/ d.addr + SizeOf(d.scale) <= b.addr
      <3> HIDE DEF n
      <3> QED BY Zenon, <1>d, <1>4, <1>5 DEF ShapeOK, BlocksOK
    <2> QED BY Zenon, <2>1, <2>2 DEF BlocksOK
  <1>7. \A a, s : Block(a, s) \in B => a # heapIndex
    BY <1>5 DEF Block
  <1>8. \A d \in Cpus : Carries(d) => object[d] # heapIndex
    BY Zenon, <1>7 DEF ShapeOK, OwnersOK
  <1>9. \A p \in held : p.addr # heapIndex
    BY Zenon, <1>7 DEF ShapeOK, OwnersOK
  <1>10. n = Block(o.addr, ScaleOf(o.size)) /\ n \in D /\ B \subseteq D
    BY Zenon, <1>d, <1>2
  <1>11. \A s : \A a \in Addresses : Block(a, s) \in D => Block(a, s) \in B \/ a = heapIndex
    BY Zenon, <1>d DEF Block
  <1> HIDE DEF o, n
  <1>12. \A a : Owned(a)' <=> Owned(a) \/ a = heapIndex
    BY Zenon, <1>1, <1>2, <1>3 DEF Owned
  <1>13. \A s : FreeOf(D, s)' = FreeOf(B, s)
    BY Zenon, <1>7, <1>10, <1>11, <1>12 DEF FreeOf
  <1>14. OwnersOK(D)'
    BY <1>1, <1>2, <1>3, <1>8, <1>9, <1>10 DEF ShapeOK, OwnersOK
  <1>15. /\ \A s : \A a \in FreeOf(B, s) : cell'[a] = cell[a]
         /\ \A d \in Cpus \ {c} : Carries(d) => cell'[object[d]] = cell[object[d]]
    <2>1. \A a \in Addresses : a # heapIndex => cell'[a] = cell[a]
      BY Zenon, <1>1 DEF Types
    <2>2. \A d \in Cpus : Carries(d) => object[d] \in Addresses
      BY Zenon DEF ShapeOK, OwnersOK, Block, BlocksType
    <2> QED BY Zenon, <1>7, <1>8, <2>1, <2>2 DEF FreeOf
  <1>16. ListsOK(D)'
    BY <1>1, <1>3, <1>13, <1>15 DEF ShapeOK, ListsOK, Carries
  <1>17. ChainsKept(B, D)
    <2>1. /\ head' = head
          /\ \A s \in Scales : FreeOf(D, s)' = FreeOf(B, s)
          /\ \A s \in Scales : \A a \in FreeOf(B, s) : cell'[a] = cell[a]
      BY Zenon, <1>1, <1>13, <1>15
    <2> QED BY Zenon, <2>1, ChainsSame
  <1>18. ASSUME Covered(B) PROVE Covered(D)'
    <2>1. (\A e \in Cpus : pc'[e] # "fault") => \A e \in Cpus : pc[e] # "fault"
      BY Zenon, <1>1, <1>3
    <2>2. ASSUME \A y \in 0 .. heapIndex - 1 : \E b \in B : y \in b.addr .. b.addr + SizeOf(b.scale) - 1,
                 NEW x \in 0 .. heapIndex' - 1
          PROVE  \E b \in D : x \in b.addr .. b.addr + SizeOf(b.scale) - 1
      <3>1. x \in 0 .. heapIndex - 1 \/ x \in n.addr .. n.addr + SizeOf(n.scale) - 1
        BY <1>0, <1>1, <1>4 DEF Addresses
      <3> QED BY Zenon, <1>10, <2>2, <3>1
    <2> QED BY Zenon, <1>18, <2>1, <2>2 DEF Covered
  <1> QED BY Zenon, <1>4, <1>6, <1>14, <1>16, <1>17, <1>18 DEF ShapeOK

\* global_allocate unlinks the head of a list, and the object behind it becomes the head.
LEMMA UnlinkStep ==
  ASSUME HeapOK, Types, LocksOK, NEW B \in BlocksType, ShapeOK(B), NEW c \in Cpus, Unlink(c)
  PROVE  ShapeOK(B)' /\ ChainsKept(B, B)
  <1>1. /\ pc[c] = "unlink" /\ pc'[c] = "pop_unlock" /\ head' = [head EXCEPT ![Scale(c)] = cell[object[c]]]
        /\ UNCHANGED <<heapIndex, cell, held, object, size>> /\ OthersSame(c)
    BY Zenon DEF Unlink, Step, Types, OthersSame
  <1>2. Carries(c)' /\ ~Carries(c) /\ \A d \in Cpus : Scale(d)' = Scale(d)
    BY Zenon, <1>1 DEF Carries, Scale
  <1>3. \A d \in Cpus \ {c} : (Carries(d)' <=> Carries(d)) /\ pc'[d] = pc[d] /\ next'[d] = next[d]
    BY Zenon, <1>1 DEF OthersSame, Carries
  <1>4. /\ Scale(c) \in Scales /\ object[c] = head[Scale(c)] /\ object[c] \in FreeOf(B, Scale(c))
        /\ Block(object[c], Scale(c)) \in B /\ ~Owned(object[c]) /\ object[c] \in Addresses
    BY <1>1 DEF ShapeOK, ListsOK, Types, Scale, Scales, FreeOf
  <1>5. \A s \in Scales : s # Scale(c) => object[c] \notin FreeOf(B, s)
    <2> SUFFICES ASSUME NEW s \in Scales, Block(object[c], s) \in B PROVE s = Scale(c)
      BY Zenon DEF FreeOf
    <2>1. Block(object[c], s) = Block(object[c], Scale(c))
      <3>1. Block(object[c], s).addr = Block(object[c], Scale(c)).addr
        BY Zenon DEF Block
      <3> QED BY Zenon, <1>4, <3>1, OneBlock DEF ShapeOK
    <2> QED BY Zenon, <2>1 DEF Block
  <1>6. \A a : Owned(a)' <=> Owned(a) \/ a = object[c]
    BY Zenon, <1>1, <1>2, <1>3 DEF Owned
  <1>7. \A s : FreeOf(B, s)' = FreeOf(B, s) \ {object[c]}
    BY Zenon, <1>6 DEF FreeOf
  <1>8. OwnersOK(B)'
    BY Zenon, <1>1, <1>2, <1>3, <1>4 DEF ShapeOK, OwnersOK, Owned
  <1>9. /\ head'[Scale(c)] = cell[object[c]]
        /\ \A s \in Scales : s # Scale(c) => head'[s] = head[s]
        /\ \A s \in Scales : s # Scale(c) => FreeOf(B, s)' = FreeOf(B, s)
    <2>1. \A s \in Scales : s # Scale(c) => FreeOf(B, s)' = FreeOf(B, s)
      BY Zenon, <1>5, <1>7
    <2> QED BY Zenon, <1>1, <1>4, <2>1 DEF Types
  <1>10. \A d \in Cpus \ {c} : pc[d] \in {"unlink", "link", "store"} => Scale(d) \in Scales /\ Scale(d) # Scale(c)
    BY Zenon, <1>1 DEF LocksOK, Locks, Types, Scale, Scales
  <1>11. ASSUME NEW s \in Scales
         PROVE  /\ head'[s] # Null => head'[s] \in FreeOf(B, s)'
                /\ \A a \in FreeOf(B, s)' : cell[a] # Null => cell[a] \in FreeOf(B, s)' /\ cell[a] # head'[s]
                /\ \A a, b \in FreeOf(B, s)' : cell[a] = cell[b] /\ cell[a] # Null => a = b
    <2>1. CASE s = Scale(c)
      BY <1>4, <1>7, <1>9, <2>1 DEF ShapeOK, ListsOK
    <2>2. CASE s # Scale(c)
      BY <1>9, <2>2 DEF ShapeOK, ListsOK
    <2> QED BY Zenon, <2>1, <2>2
  <1>12. \A d \in Cpus : /\ pc'[d] = "unlink" => object[d] = head'[Scale(d)] /\ object[d] # Null
                         /\ pc'[d] = "link" => next'[d] = head'[Scale(d)]
                         /\ pc'[d] = "store" => cell[object[d]] = head'[Scale(d)]
    <2>1. ASSUME NEW d \in Cpus \ {c}, pc[d] \in {"unlink", "link", "store"} PROVE head'[Scale(d)] = head[Scale(d)]
      BY Zenon, <1>9, <1>10, <2>1
    <2>2. \A d \in Cpus : /\ pc[d] = "unlink" => object[d] = head[Scale(d)] /\ object[d] # Null
                          /\ pc[d] = "link" => next[d] = head[Scale(d)]
                          /\ pc[d] = "store" => cell[object[d]] = head[Scale(d)]
      BY Zenon DEF ShapeOK, ListsOK
    <2>3. pc'[c] \notin {"unlink", "link", "store"} /\ UNCHANGED cell /\ \A d \in Cpus \ {c} : object'[d] = object[d]
      BY Zenon, <1>1 DEF OthersSame
    <2> QED BY <1>3, <2>1, <2>2, <2>3
  <1>13. ListsOK(B)'
    BY <1>1, <1>2, <1>11, <1>12 DEF ListsOK
  <1>14. ASSUME NEW d \in Depths, Chained(B, d) PROVE Chained(B, d)'
    <2> SUFFICES ASSUME NEW s \in Scales, NEW a \in FreeOf(B, s)'
                 PROVE  /\ cell'[a] = Null => d[a] = 1
                        /\ cell'[a] # Null => d[a] = d[cell'[a]] + 1
                        /\ a # head'[s] => \E b \in FreeOf(B, s)' : cell'[b] = a
      BY Zenon DEF Chained
    <2>1. a \in FreeOf(B, s) /\ cell' = cell /\ a # object[c]
      BY Zenon, <1>1, <1>7
    <2>2. /\ cell[a] = Null => d[a] = 1
          /\ cell[a] # Null => d[a] = d[cell[a]] + 1
          /\ a # head[s] => \E b \in FreeOf(B, s) : cell[b] = a
      BY Zenon, <1>14, <2>1 DEF Chained
    <2>3. ASSUME a # head'[s] PROVE \E b \in FreeOf(B, s)' : cell[b] = a
      <3>1. CASE s = Scale(c)
        <4>1. PICK b \in FreeOf(B, s) : cell[b] = a
          BY Zenon, <1>4, <2>1, <2>2, <3>1
        <4>2. b # object[c]
          BY Zenon, <1>9, <2>3, <3>1, <4>1
        <4> QED BY Zenon, <1>7, <4>1, <4>2
      <3>2. CASE s # Scale(c)
        BY Zenon, <1>9, <2>2, <2>3, <3>2
      <3> QED BY Zenon, <3>1, <3>2
    <2> QED BY Zenon, <2>1, <2>2, <2>3
  <1> QED BY Zenon, <1>1, <1>8, <1>13, <1>14 DEF ShapeOK, BlocksOK, ChainsKept

\* global_free makes the object that it frees the head of its list.
LEMMA StoreHeadStep ==
  ASSUME HeapOK, Types, LocksOK, NEW B \in BlocksType, ShapeOK(B), NEW c \in Cpus, StoreHead(c)
  PROVE  ShapeOK(B)' /\ \A d \in Depths : Chained(B, d) => \E e \in Depths : Chained(B, e)'
  <1>1. /\ pc[c] = "store" /\ pc'[c] = "push_unlock" /\ head' = [head EXCEPT ![Scale(c)] = object[c]]
        /\ UNCHANGED <<heapIndex, cell, held, size>> /\ OthersSame(c)
    BY Zenon DEF StoreHead, Step, Types, OthersSame
  <1>2. ~Carries(c)' /\ Carries(c) /\ \A d \in Cpus : Scale(d)' = Scale(d)
    BY Zenon, <1>1 DEF Carries, Scale
  <1>3. \A d \in Cpus \ {c} : (Carries(d)' <=> Carries(d)) /\ pc'[d] = pc[d] /\ next'[d] = next[d] /\ object'[d] = object[d]
    BY Zenon, <1>1 DEF OthersSame, Carries
  <1>4. /\ Scale(c) \in Scales /\ cell[object[c]] = head[Scale(c)] /\ Owned(object[c])
        /\ Block(object[c], Scale(c)) \in B /\ object[c] \in Addresses
    BY <1>1, <1>2 DEF ShapeOK, ListsOK, OwnersOK, Types, Scale, Scales, Owned, BlocksType, Block
  <1>5. \A s \in Scales : Block(object[c], s) \in B => s = Scale(c)
    <2> SUFFICES ASSUME NEW s \in Scales, Block(object[c], s) \in B PROVE s = Scale(c)
      OBVIOUS
    <2>1. Block(object[c], s) = Block(object[c], Scale(c))
      <3>1. Block(object[c], s).addr = Block(object[c], Scale(c)).addr
        BY Zenon DEF Block
      <3> QED BY Zenon, <1>4, <3>1, OneBlock DEF ShapeOK
    <2> QED BY Zenon, <2>1 DEF Block
  <1>6. \A a : Owned(a)' <=> Owned(a) /\ a # object[c]
    BY <1>1, <1>2, <1>3 DEF Owned, ShapeOK, OwnersOK
  <1>7. /\ \A s \in Scales : s = Scale(c) => FreeOf(B, s)' = FreeOf(B, s) \cup {object[c]}
        /\ \A s \in Scales : s # Scale(c) => FreeOf(B, s)' = FreeOf(B, s)
        /\ \A s : object[c] \notin FreeOf(B, s)
    BY Zenon, <1>2, <1>4, <1>5, <1>6 DEF FreeOf
  <1>8. OwnersOK(B)'
    BY <1>1, <1>2, <1>3 DEF ShapeOK, OwnersOK
  <1>9. head'[Scale(c)] = object[c] /\ \A s \in Scales : s # Scale(c) => head'[s] = head[s]
    BY Zenon, <1>1, <1>4 DEF Types
  <1>10. \A d \in Cpus \ {c} : pc[d] \in {"unlink", "link", "store"} => Scale(d) \in Scales /\ Scale(d) # Scale(c)
    BY Zenon, <1>1 DEF LocksOK, Locks, Types, Scale, Scales
  <1>11. ASSUME NEW s \in Scales
         PROVE  /\ head'[s] # Null => head'[s] \in FreeOf(B, s)'
                /\ \A a \in FreeOf(B, s)' : cell[a] # Null => cell[a] \in FreeOf(B, s)' /\ cell[a] # head'[s]
                /\ \A a, b \in FreeOf(B, s)' : cell[a] = cell[b] /\ cell[a] # Null => a = b
    <2>1. CASE s = Scale(c)
      <3>1. /\ head[s] # Null => head[s] \in FreeOf(B, s)
            /\ \A a \in FreeOf(B, s) : cell[a] # Null => cell[a] \in FreeOf(B, s) /\ cell[a] # head[s]
            /\ \A a, b \in FreeOf(B, s) : cell[a] = cell[b] /\ cell[a] # Null => a = b
        BY Zenon DEF ShapeOK, ListsOK
      <3>2. FreeOf(B, s)' = FreeOf(B, s) \cup {object[c]} /\ object[c] \notin FreeOf(B, s) /\ head'[s] = object[c]
        BY Zenon, <1>7, <1>9, <2>1
      <3>3. cell[object[c]] = head[s]
        BY Zenon, <1>4, <2>1
      <3> QED BY Zenon, <3>1, <3>2, <3>3
    <2>2. CASE s # Scale(c)
      BY <1>7, <1>9, <2>2 DEF ShapeOK, ListsOK
    <2> QED BY Zenon, <2>1, <2>2
  <1>12. \A d \in Cpus : /\ pc'[d] = "unlink" => object'[d] = head'[Scale(d)] /\ object'[d] # Null
                         /\ pc'[d] = "link" => next'[d] = head'[Scale(d)]
                         /\ pc'[d] = "store" => cell[object'[d]] = head'[Scale(d)]
    <2>1. ASSUME NEW d \in Cpus \ {c}, pc[d] \in {"unlink", "link", "store"} PROVE head'[Scale(d)] = head[Scale(d)]
      BY Zenon, <1>9, <1>10, <2>1
    <2>2. \A d \in Cpus : /\ pc[d] = "unlink" => object[d] = head[Scale(d)] /\ object[d] # Null
                          /\ pc[d] = "link" => next[d] = head[Scale(d)]
                          /\ pc[d] = "store" => cell[object[d]] = head[Scale(d)]
      BY Zenon DEF ShapeOK, ListsOK
    <2>3. pc'[c] \notin {"unlink", "link", "store"} /\ UNCHANGED cell /\ \A d \in Cpus \ {c} : object'[d] = object[d]
      BY Zenon, <1>1 DEF OthersSame
    <2> QED BY <1>3, <2>1, <2>2, <2>3
  <1>13. ListsOK(B)'
    BY <1>1, <1>2, <1>11, <1>12 DEF ListsOK
  <1>14. ASSUME NEW d \in Depths, Chained(B, d) PROVE \E e \in Depths : Chained(B, e)'
    <2> DEFINE above == IF head[Scale(c)] = Null THEN 1 ELSE d[head[Scale(c)]] + 1
    <2>0. PICK o : o = object[c]
      BY Zenon
    <2>1. PICK e : e = [d EXCEPT ![o] = above]
      BY Zenon
    <2>2. above \in Nat
      <3>1. head[Scale(c)] # Null => head[Scale(c)] \in Addresses
        BY Zenon, <1>4 DEF ShapeOK, ListsOK, FreeOf
      <3> QED BY <3>1 DEF Depths
    <2>3. e \in Depths /\ e[o] = above /\ \A a \in Addresses : a # o => e[a] = d[a]
      <3> HIDE DEF above
      <3> QED BY Zenon, <1>4, <2>0, <2>1, <2>2 DEF Depths
    <2>4. \A s \in Scales : \A a \in FreeOf(B, s) : a \in Addresses /\ a # o /\ e[a] = d[a]
      BY Zenon, <1>7, <2>0, <2>3 DEF FreeOf
    <2>5. ASSUME NEW s \in Scales, NEW a \in FreeOf(B, s)'
          PROVE  /\ cell[a] = Null => e[a] = 1
                 /\ cell[a] # Null => e[a] = e[cell[a]] + 1
                 /\ a # head'[s] => \E b \in FreeOf(B, s)' : cell[b] = a
      <3>1. CASE a = o
        <4>1. s = Scale(c)
          BY Zenon, <1>7, <2>0, <2>5, <3>1
        <4>2. cell[a] = head[s] /\ a = head'[s]
          BY Zenon, <1>4, <1>9, <2>0, <3>1, <4>1
        <4>3. cell[a] # Null => e[cell[a]] = d[cell[a]]
          BY Zenon, <2>4, <4>2 DEF ShapeOK, ListsOK
        <4>4. (cell[a] = Null => above = 1) /\ (cell[a] # Null => above = d[cell[a]] + 1)
          BY Zenon, <4>1, <4>2
        <4> QED BY Zenon, <2>3, <3>1, <4>2, <4>3, <4>4
      <3>2. CASE a # o
        <4>1. a \in FreeOf(B, s) /\ FreeOf(B, s) \subseteq FreeOf(B, s)'
          BY <1>7, <2>0, <3>2
        <4>2. /\ cell[a] = Null => d[a] = 1
              /\ cell[a] # Null => d[a] = d[cell[a]] + 1
              /\ a # head[s] => \E b \in FreeOf(B, s) : cell[b] = a
          BY Zenon, <1>14, <4>1 DEF Chained
        <4>3. e[a] = d[a] /\ (cell[a] # Null => e[cell[a]] = d[cell[a]])
          BY Zenon, <2>4, <4>1 DEF ShapeOK, ListsOK
        <4>4. ASSUME a # head'[s], a = head[s] PROVE \E b \in FreeOf(B, s)' : cell[b] = a
          BY Zenon, <1>4, <1>7, <1>9, <4>4
        <4> QED BY Zenon, <4>1, <4>2, <4>3, <4>4
      <3> QED BY Zenon, <3>1, <3>2
    <2>6. cell' = cell
      BY Zenon, <1>1
    <2> HIDE DEF above
    <2>7. Chained(B, e)'
      BY Zenon, <2>5, <2>6 DEF Chained
    <2> QED BY Zenon, <2>3, <2>7
  <1> QED BY Zenon, <1>1, <1>8, <1>13, <1>14 DEF ShapeOK, BlocksOK

-----------------------------------------------------------------------------
\* The bump pointer passes bytes only for an object that it hands out, or when the
\* heap is exhausted, after which the CPU does nothing more.
LEMMA CoveredStep ==
  ASSUME Types, NEW B, Covered(B), NEW c \in Cpus, Call(c) \/ Work(c), ~Bump(c)
  PROVE  Covered(B)'
  <1> USE DEF Step
  <1>1. pc \in [Cpus -> Pcs]
    BY Zenon DEF Types
  <1>2. pc'[c] = "fault" \/ (heapIndex' = heapIndex /\ pc[c] # "fault")
    BY Zenon, <1>1 DEF Call, Work, Allocate, Free, CheckHead, Fault, PopLock, PopNothing, Pop, Unlink, PopUnlock, PushLock,
       LoadNext, Link, StoreHead, PushUnlock, Acquire, Return
  <1>3. \A e \in Cpus \ {c} : pc'[e] = pc[e]
    BY Zenon, <1>1 DEF Call, Work, Allocate, Free, CheckHead, Fault, PopLock, PopNothing, Pop, Unlink, PopUnlock, PushLock,
       LoadNext, Link, StoreHead, PushUnlock, Acquire, Return
  <1> QED BY Zenon, <1>2, <1>3 DEF Covered

\* Calls are counted, and global_allocate and global_free drop an object when they
\* are done with it.
LEMMA HandsStep ==
  ASSUME HeapOK, Types, HandsOK, [Next]_vars
  PROVE  HandsOK'
  <1> USE DEF Step
  <1>1. pc \in [Cpus -> Pcs] /\ object \in [Cpus -> Places] /\ MaxCalls \in Nat /\ calls \in 0 .. MaxCalls
    BY Zenon DEF Types, HandsOK, HeapOK, ConstantsOK
  <1>2. calls' \in 0 .. MaxCalls
    BY SMTT(60), <1>1 DEF Next, vars, Call, Work, Allocate, Free, CheckHead, Bump, Fault, PopLock, PopNothing, Pop, Unlink, PopUnlock,
       PushLock, LoadNext, Link, StoreHead, PushUnlock, Acquire, Return
  <1>3. ASSUME NEW c \in Cpus, Call(c) \/ Work(c)
        PROVE  /\ \A e \in Cpus \ {c} : pc'[e] = pc[e] /\ object'[e] = object[e]
               /\ object'[c] # Null => Carries(c)' \/ pc'[c] = "unlink"
    BY Zenon, <1>1, <1>3 DEF HandsOK, Carries, Call, Work, Allocate, Free, CheckHead, Bump, Fault, PopLock, PopNothing, Pop,
       Unlink, PopUnlock, PushLock, LoadNext, Link, StoreHead, PushUnlock, Acquire, Return
  <1>4. ASSUME NEW c \in Cpus, Call(c) \/ Work(c)
        PROVE  \A e \in Cpus : object'[e] # Null => Carries(e)' \/ pc'[e] = "unlink"
    BY Zenon, <1>3, <1>4 DEF HandsOK, Carries
  <1>5. CASE UNCHANGED vars
    BY Zenon, <1>5 DEF vars, HandsOK, Carries
  <1> QED BY Zenon, <1>2, <1>4, <1>5 DEF Next, HandsOK

\* Every step of the allocator keeps the invariant.
LEMMA HeapInvStep ==
  ASSUME HeapOK, HeapInv, [Next]_vars
  PROVE  HeapInv'
  <1>1. Types' /\ LocksOK'
    BY Zenon, TypesStep, LocksStep DEF HeapInv
  <1>2. Types /\ LocksOK
    BY Zenon DEF HeapInv
  <1>3. PICK B \in BlocksType : ShapeOK(B) /\ Covered(B) /\ \E d \in Depths : Chained(B, d)
    BY Zenon DEF HeapInv, WholeOK
  <1>d. PICK d \in Depths : Chained(B, d)
    BY Zenon, <1>3
  <1>4. \E D \in BlocksType : WholeOK(D)'
    <2>1. CASE UNCHANGED vars
      <3>1. ShapeOK(B)'
        BY SMTT(60), <1>3, <2>1 DEF vars, ShapeOK, BlocksOK, OwnersOK, ListsOK, FreeOf, Owned, Carries, Scale
      <3>2. Covered(B)'
        BY Zenon, <1>3, <2>1 DEF vars, Covered
      <3>3. Chained(B, d)'
        <4>1. \A a : Owned(a)' <=> Owned(a)
          BY Zenon, <2>1 DEF vars, Owned, Carries
        <4>2. \A s : FreeOf(B, s)' = FreeOf(B, s)
          BY Zenon, <4>1 DEF FreeOf
        <4>3. head' = head /\ cell' = cell
          BY Zenon, <2>1 DEF vars
        <4>4. ChainsKept(B, B)
          BY Zenon, <4>2, <4>3, ChainsSame
        <4> QED BY Zenon, <1>d, <4>4 DEF ChainsKept
      <3> QED BY Zenon, <3>1, <3>2, <3>3 DEF WholeOK
    <2>2. ASSUME NEW c \in Cpus, Call(c) \/ Work(c) PROVE \E D \in BlocksType : WholeOK(D)'
      <3>b. CASE Bump(c)
        <4>1. PICK D \in BlocksType : ShapeOK(D)' /\ ChainsKept(B, D) /\ (Covered(B) => Covered(D)')
          BY Zenon, <1>2, <1>3, <3>b, BumpStep
        <4> QED BY Zenon, <1>3, <1>d, <4>1 DEF WholeOK, ChainsKept
      <3>w. ASSUME ShapeOK(B)', \E e \in Depths : Chained(B, e)' PROVE \E D \in BlocksType : WholeOK(D)'
        <4>1. CASE ~Bump(c)
          <5>1. Covered(B)'
            BY Zenon, <1>2, <1>3, <2>2, <4>1, CoveredStep
          <5> QED BY Zenon, <3>w, <5>1 DEF WholeOK
        <4> QED BY Zenon, <3>b, <4>1
      <3>k. ASSUME ShapeOK(B)', ChainsKept(B, B) PROVE \E D \in BlocksType : WholeOK(D)'
        BY Zenon, <1>d, <3>w, <3>k DEF ChainsKept
      <3>1. CASE \E o \in held : Free(c, o)
        <4>1. ShapeOK(B)' /\ ChainsKept(B, B)
          BY Zenon, <1>2, <1>3, <3>1, FreeStep
        <4> QED BY Zenon, <3>k, <4>1
      <3>3. CASE Unlink(c)
        <4>1. ShapeOK(B)' /\ ChainsKept(B, B)
          BY Zenon, <1>2, <1>3, <3>3, UnlinkStep
        <4> QED BY Zenon, <3>k, <4>1
      <3>4. CASE PopUnlock(c)
        <4>1. ShapeOK(B)' /\ ChainsKept(B, B)
          BY Zenon, <1>2, <1>3, <3>4, PopUnlockStep
        <4> QED BY Zenon, <3>k, <4>1
      <3>5. CASE Link(c)
        <4>1. ShapeOK(B)' /\ ChainsKept(B, B)
          BY Zenon, <1>2, <1>3, <3>5, LinkStep
        <4> QED BY Zenon, <3>k, <4>1
      <3>6. CASE StoreHead(c)
        <4>1. ShapeOK(B)' /\ \E e \in Depths : Chained(B, e)'
          BY Zenon, <1>2, <1>3, <1>d, <3>6, StoreHeadStep
        <4> QED BY Zenon, <3>w, <4>1
      <3>7. CASE \/ \E n \in Requests : Allocate(c, n)
                 \/ CheckHead(c) \/ Fault(c) \/ PopLock(c) \/ PopNothing(c) \/ Pop(c) \/ PushLock(c) \/ LoadNext(c)
                 \/ PushUnlock(c)
        <4>1. ShapeOK(B)' /\ ChainsKept(B, B)
          BY Zenon, <1>1, <1>2, <1>3, <3>7, QuietSteps
        <4> QED BY Zenon, <3>k, <4>1
      <3> QED BY Zenon, <2>2, <3>1, <3>b, <3>3, <3>4, <3>5, <3>6, <3>7 DEF Call, Work
    <2> QED BY Zenon, <2>1, <2>2 DEF Next
  <1>5. HandsOK'
    BY Zenon, HandsStep DEF HeapInv
  <1> QED BY Zenon, <1>1, <1>4, <1>5 DEF HeapInv

\* Before the first call there are no blocks.
LEMMA HeapInvInit ==
  ASSUME HeapOK, Init
  PROVE  HeapInv
  <1>1. Types
    BY Zenon DEF Init, Types, Places, Pcs
  <1>2. LocksOK
    BY Zenon DEF Init, LocksOK, Locks
  <1>3. BlocksOK({}) /\ OwnersOK({}) /\ ListsOK({})
    BY Zenon DEF Init, BlocksOK, OwnersOK, ListsOK, FreeOf, Carries
  <1>4. Covered({})
    BY DEF Init, Covered
  <1>5. \E d \in Depths : Chained({}, d)
    <2>1. [a \in Addresses |-> 0] \in Depths
      BY DEF Depths
    <2> QED BY Zenon, <2>1 DEF Chained, FreeOf
  <1>6. HandsOK
    <2>1. 0 \in 0 .. MaxCalls
      BY DEF HeapOK, ConstantsOK
    <2> QED BY Zenon, <2>1 DEF Init, HandsOK
  <1> QED BY <1>1, <1>2, <1>3, <1>4, <1>5, <1>6 DEF HeapInv, WholeOK, ShapeOK, BlocksType

\* An object in a block of its own overlaps none that other callers have, and is in
\* the heap: handing it out is what an allocator may do.
LEMMA Disjoint ==
  ASSUME HeapOK, Types, NEW D \in BlocksType, BlocksOK(D)', OwnersOK(D)',
         held' \subseteq [addr : Addresses, size : Requests], heapIndex' \in Nat,
         NEW o \in [addr : Addresses, size : Requests], o \notin held, held' = held \cup {o}
  PROVE  M!Grant(o)
  <1>1. \A p \in held' : /\ Block(p.addr, ScaleOf(p.size)) \in D /\ p.addr \in Nat /\ p.size \in Nat \ {0}
                          /\ SizeOf(ScaleOf(p.size)) \in Nat /\ p.size <= SizeOf(ScaleOf(p.size))
    BY SizeClass DEF OwnersOK, Addresses
  <1>2. \A p \in held' : p.addr + p.size <= HeapSize
    <2>1. \A p \in held' : p.addr + SizeOf(ScaleOf(p.size)) <= HeapSize
      BY Zenon, <1>1 DEF BlocksOK, Block
    <2> QED BY <1>1, <2>1 DEF HeapOK, ConstantsOK
  <1>3. \A p, q \in held' : p # q => p.addr + p.size <= q.addr \/ q.addr + q.size <= p.addr
    <2> SUFFICES ASSUME NEW p \in held', NEW q \in held', p # q
                 PROVE  p.addr + p.size <= q.addr \/ q.addr + q.size <= p.addr
      OBVIOUS
    <2>1. p.addr # q.addr
      BY Zenon DEF OwnersOK
    <2>2. Block(p.addr, ScaleOf(p.size)) # Block(q.addr, ScaleOf(q.size))
      BY Zenon, <2>1 DEF Block
    <2>3. \/ p.addr + SizeOf(ScaleOf(p.size)) <= q.addr
          \/ q.addr + SizeOf(ScaleOf(q.size)) <= p.addr
      BY Zenon, <1>1, <2>2 DEF BlocksOK, Block
    <2> QED BY <1>1, <2>3
  <1>4. M!Bytes(o) \subseteq 0 .. HeapSize - 1
    BY <1>1, <1>2 DEF M!Bytes, HeapOK, ConstantsOK
  <1>5. \A p \in held : M!Bytes(o) \cap M!Bytes(p) = {}
    BY <1>1, <1>3 DEF M!Bytes
  <1> QED BY Zenon, <1>4, <1>5 DEF M!Grant

\* Every step of the heap is a step of an allocator, or changes nothing that callers see.
LEMMA MallocStep ==
  ASSUME HeapOK, HeapInv, HeapInv', [Next]_vars
  PROVE  [M!Next]_held
  <1>1. Types /\ Types' /\ heapIndex' \in Nat /\ held' \subseteq [addr : Addresses, size : Requests]
    BY Zenon DEF HeapInv, Types
  <1>2. PICK B \in BlocksType : ShapeOK(B)
    BY Zenon DEF HeapInv, WholeOK
  <1>g. ASSUME NEW o \in [addr : Addresses, size : Requests], o \notin held, held' = held \cup {o},
               NEW D \in BlocksType, ShapeOK(D)'
        PROVE  M!Next
    <2>1. M!Grant(o)
      BY Zenon, <1>1, <1>g, Disjoint DEF ShapeOK
    <2> QED BY Zenon, <2>1 DEF M!Next, Addresses
  <1>3. ASSUME NEW c \in Cpus, Bump(c) PROVE M!Next
    <2>1. PICK D \in BlocksType : ShapeOK(D)'
      BY Zenon, <1>1, <1>2, <1>3, BumpStep
    <2> DEFINE o == [addr |-> heapIndex, size |-> size[c]]
    <2>2. held' = held \cup {o}
      BY Zenon, <1>3 DEF Bump, Return
    <2>3. o \in [addr : Addresses, size : Requests]
      BY Zenon, <1>1, <2>2
    <2>4. o \notin held
      <3>1. \A p \in held : p.addr < heapIndex
        <4> SUFFICES ASSUME NEW p \in held PROVE p.addr < heapIndex
          OBVIOUS
        <4>1. Block(p.addr, ScaleOf(p.size)) \in B /\ p.addr \in Nat /\ SizeOf(ScaleOf(p.size)) \in Nat \ {0}
          BY <1>1, <1>2, SizeClass DEF ShapeOK, OwnersOK, Types, Addresses
        <4>2. p.addr + SizeOf(ScaleOf(p.size)) <= heapIndex
          BY Zenon, <1>2, <4>1 DEF ShapeOK, BlocksOK, Block
        <4> QED BY <1>1, <4>1, <4>2 DEF Types
      <3> QED BY <1>1, <3>1 DEF Types
    <2> QED BY Zenon, <1>g, <2>1, <2>2, <2>3, <2>4
  <1>4. ASSUME NEW c \in Cpus, PopUnlock(c) PROVE M!Next
    <2>1. ShapeOK(B)'
      BY Zenon, <1>1, <1>2, <1>4, PopUnlockStep
    <2> DEFINE o == [addr |-> object[c], size |-> size[c]]
    <2>2. held' = held \cup {o}
      BY Zenon, <1>4 DEF PopUnlock, Return
    <2>3. o \in [addr : Addresses, size : Requests]
      BY Zenon, <1>1, <2>2
    <2>4. o \notin held
      BY Zenon, <1>2, <1>4 DEF ShapeOK, OwnersOK, PopUnlock, Carries
    <2> QED BY Zenon, <1>2, <1>g, <2>1, <2>2, <2>3, <2>4
  <1>5. ASSUME NEW c \in Cpus, NEW o \in held, Free(c, o) PROVE M!Next
    BY Zenon, <1>5 DEF Free, M!Next, M!Release
  <1>6. ASSUME NEW c \in Cpus,
               \/ \E n \in Requests : Allocate(c, n)
               \/ CheckHead(c) \/ Fault(c) \/ PopLock(c) \/ PopNothing(c) \/ Pop(c) \/ PushLock(c) \/ LoadNext(c)
               \/ PushUnlock(c) \/ Unlink(c) \/ Link(c) \/ StoreHead(c)
        PROVE  held' = held
    BY Zenon, <1>6 DEF Allocate, CheckHead, Fault, PopLock, PopNothing, Pop, PushLock, LoadNext, PushUnlock, Unlink, Link, StoreHead
  <1>7. CASE UNCHANGED vars
    BY Zenon, <1>7 DEF vars
  <1> QED BY Zenon, <1>3, <1>4, <1>5, <1>6, <1>7 DEF Next, Call, Work

\* global_allocate and global_free implement an allocator, for any number of CPUs
\* and any heap: a caller is given memory of the heap, of the size that it asked for,
\* which nobody else has, also when its CPU races others for a free list.
THEOREM HeapImplementsMalloc ==
  ASSUME HeapOK
  PROVE  Spec => ImplementsMalloc
  <1>1. Init => HeapInv
    BY Zenon, HeapInvInit
  <1>2. HeapInv /\ [Next]_vars => HeapInv'
    BY Zenon, HeapInvStep
  <1>3. HeapInv /\ HeapInv' /\ [Next]_vars => [M!Next]_held
    BY Zenon, MallocStep
  <1>4. Init => M!Init
    BY Zenon DEF Init, M!Init
  <1> QED BY <1>1, <1>2, <1>3, <1>4, PTL DEF Spec, ImplementsMalloc, M!Spec

-----------------------------------------------------------------------------
(* No memory is lost.                                                      *)

\* What the first word of an object may be.
Words == Places \cup {Data}

\* The objects of a list are found by following the links.
LEMMA ListFromIs ==
  ASSUME Types, NEW n \in Nat, NEW a \in Words
  PROVE  ListFrom[n][a] = IF n = 0 \/ a \notin Addresses THEN {a} ELSE {a} \cup ListFrom[n - 1][cell[a]]
  <1> DEFINE S == [Words -> SUBSET Words]
             z == [b \in Words |-> {b}]
             g(f) == [b \in Words |-> IF b \notin Addresses THEN {b} ELSE {b} \cup f[cell[b]]]
             G == [k \in Nat |-> [f \in S |-> g(f)]]
             body(f, k) == [b \in Places \cup {Data} |-> IF k = 0 \/ b \notin Addresses THEN {b} ELSE {b} \cup f[k - 1][cell[b]]]
             Body(f) == [k \in Nat |-> body(f, k)]
  <1>1. \A b \in Addresses : cell[b] \in Words
    BY Zenon DEF Types, Words
  <1>2. ASSUME NEW f \in S PROVE g(f) \in S
    BY Zenon, <1>1
  <1>3. z \in S
    BY Zenon
  <1> HIDE DEF g
  <1>4. G \in [Nat -> [S -> S]]
    BY Zenon, <1>2
  <1> HIDE DEF G, S
  <1>5. PICK F \in [Nat -> S] : F[0] = z /\ \A k \in Nat \ {0} : F[k] = G[k][F[k - 1]]
    <2>1. HasSolution(S, z, G)
      <3> HIDE DEF z
      <3> QED BY Zenon, <1>3, <1>4, RecursionExists
    <2> QED BY Zenon, <2>1 DEF HasSolution
  <1>6. ASSUME NEW k \in Nat PROVE F[k] = body(F, k)
    <2>1. CASE k = 0
      <3>1. body(F, 0) = z
        BY Zenon DEF Words
      <3> QED BY Zenon, <1>5, <2>1, <3>1
    <2>2. CASE k # 0
      <3>1. k - 1 \in Nat
        BY <2>2
      <3>2. F[k] = g(F[k - 1])
        <4>1. F[k - 1] \in S
          BY Zenon, <3>1
        <4> QED BY Zenon, <1>5, <2>2, <4>1 DEF G
      <3>3. g(F[k - 1]) = body(F, k)
        BY Zenon, <2>2 DEF g, Words
      <3> QED BY Zenon, <3>2, <3>3
    <2> QED BY Zenon, <2>1, <2>2
  <1>7. F = Body(F)
    <2>1. F = [k \in Nat |-> F[k]]
      BY Zenon
    <2> HIDE DEF body
    <2> QED BY Zenon, <1>6, <2>1
  <1>8. ListFrom = Body(ListFrom)
    <2>1. ListFrom = CHOOSE f : f = Body(f)
      BY Zenon DEF ListFrom
    <2> HIDE DEF Body
    <2> QED BY Zenon, <1>7, <2>1
  <1>9. ListFrom[n] = body(ListFrom, n)
    <2> HIDE DEF body
    <2> QED BY Zenon, <1>8
  <1> QED BY Zenon, <1>9 DEF Words

\* The object behind one of the first k objects of a list is one of the first k + 1.
LEMMA ListGoesOn ==
  ASSUME Types, NEW k \in Nat, NEW h \in Words, NEW b \in Addresses, b \in ListFrom[k][h]
  PROVE  cell[b] \in ListFrom[k + 1][h]
  <1> DEFINE Bad == {j \in Nat : \E x \in Words : b \in ListFrom[j][x] /\ cell[b] \notin ListFrom[j + 1][x]}
  <1> SUFFICES ASSUME Bad # {} PROVE FALSE
    BY Zenon
  <1>1. PICK j \in Bad : \A i \in Bad : j <= i
    <2>1. Bad \in SUBSET Nat
      BY Zenon
    <2> HIDE DEF Bad
    <2> QED BY Zenon, <2>1, Smallest
  <1>2. PICK x \in Words : b \in ListFrom[j][x] /\ cell[b] \notin ListFrom[j + 1][x]
    BY Zenon, <1>1
  <1>3. j \in Nat /\ j + 1 \in Nat /\ j + 1 # 0 /\ (j + 1) - 1 = j /\ 0 \in Nat
    <2>1. j \in Nat
      BY Zenon, <1>1
    <2> QED BY <2>1
  <1>4. ListFrom[j][x] = IF j = 0 \/ x \notin Addresses THEN {x} ELSE {x} \cup ListFrom[j - 1][cell[x]]
    BY Zenon, <1>3, ListFromIs
  <1>5. x \in Addresses
    BY Zenon, <1>2, <1>4
  <1>6. ListFrom[j + 1][x] = {x} \cup ListFrom[j][cell[x]] /\ cell[x] \in Words
    <2>1. ListFrom[j + 1][x] = {x} \cup ListFrom[(j + 1) - 1][cell[x]]
      BY Zenon, <1>3, <1>5, ListFromIs
    <2> QED BY Zenon, <1>3, <1>5, <2>1 DEF Types, Words
  <1>7. CASE b = x
    <2>1. cell[x] \in ListFrom[j][cell[x]]
      <3>1. PICK y \in Words : y = cell[x]
        BY Zenon, <1>6
      <3>2. ListFrom[j][y] = IF j = 0 \/ y \notin Addresses THEN {y} ELSE {y} \cup ListFrom[j - 1][cell[y]]
        BY Zenon, <1>3, ListFromIs
      <3> QED BY Zenon, <3>1, <3>2
    <2> QED BY Zenon, <1>2, <1>6, <1>7, <2>1
  <1>8. CASE b # x
    <2>1. j # 0 /\ b \in ListFrom[j - 1][cell[x]]
      BY Zenon, <1>2, <1>4, <1>8
    <2>2. j - 1 \in Nat /\ ~ (j <= j - 1) /\ (j - 1) + 1 = j
      BY <1>3, <2>1
    <2>3. cell[b] \in ListFrom[(j - 1) + 1][cell[x]]
      BY Zenon, <1>1, <1>6, <2>1, <2>2
    <2> QED BY Zenon, <1>2, <1>6, <2>2, <2>3
  <1> QED BY Zenon, <1>7, <1>8

\* On the list of a class are free blocks of it.
LEMMA ListedIsFree ==
  ASSUME HeapOK, Types, NEW B, ListsOK(B), NEW s \in Scales, NEW a \in Listed(s), a # Null
  PROVE  a \in FreeOf(B, s)
  <1> DEFINE free(x) == x = Null \/ x \in FreeOf(B, s)
             Bad == {j \in Nat : \E x \in Words : free(x) /\ \E y \in ListFrom[j][x] : ~free(y)}
  <1>0. FreeOf(B, s) \subseteq Addresses /\ HeapSize \in Nat /\ Null \notin Addresses /\ Null \in Words /\ Addresses \subseteq Words
    BY DEF FreeOf, HeapOK, ConstantsOK, Addresses, Null, Words, Places
  <1>1. free(head[s]) /\ head[s] \in Words
    BY Zenon, <1>0 DEF ListsOK
  <1>2. \A x \in FreeOf(B, s) : free(cell[x]) /\ cell[x] \in Words
    BY Zenon, <1>0 DEF ListsOK
  <1> HIDE DEF free
  <1>3. ASSUME Bad # {} PROVE FALSE
    <2>1. PICK j \in Bad : \A i \in Bad : j <= i
      <3>1. Bad \in SUBSET Nat
        BY Zenon
      <3> HIDE DEF Bad
      <3> QED BY Zenon, <1>3, <3>1, Smallest
    <2>2. PICK x \in Words : free(x) /\ \E y \in ListFrom[j][x] : ~free(y)
      BY Zenon, <2>1
    <2>3. PICK y \in ListFrom[j][x] : ~free(y)
      BY Zenon, <2>2
    <2>4. j \in Nat
      BY Zenon, <2>1
    <2>5. y \in (IF j = 0 \/ x \notin Addresses THEN {x} ELSE {x} \cup ListFrom[j - 1][cell[x]])
      BY Zenon, <2>3, <2>4, ListFromIs
    <2>6. y # x
      BY Zenon, <2>2, <2>3
    <2>7. j # 0 /\ x \in Addresses /\ y \in ListFrom[j - 1][cell[x]]
      BY Zenon, <2>5, <2>6
    <2>8. j - 1 \in Nat /\ ~ (j <= j - 1)
      BY <2>4, <2>7
    <2>9. x \in FreeOf(B, s)
      BY Zenon, <1>0, <2>2, <2>7 DEF free
    <2>10. j - 1 \in Bad
      BY Zenon, <1>2, <2>3, <2>7, <2>8, <2>9
    <2> QED BY Zenon, <2>1, <2>8, <2>10
  <1>4. free(a)
    BY Zenon, <1>0, <1>1, <1>3 DEF Listed
  <1> QED BY Zenon, <1>4 DEF free

\* A free list has at most as many objects as the heap has bytes.
LEMMA DepthBound ==
  ASSUME HeapOK, NEW B, ListsOK(B), NEW d \in Depths, Chained(B, d), NEW s \in Scales, NEW a \in FreeOf(B, s)
  PROVE  d[a] \in 1 .. HeapSize
  <1>0. HeapSize \in Nat /\ \A b \in FreeOf(B, s) : b \in Addresses /\ d[b] \in Nat
    BY Zenon DEF FreeOf, HeapOK, ConstantsOK, Depths
  <1>1. \A b \in FreeOf(B, s) : d[b] = 1 \/ \E e \in FreeOf(B, s) : d[b] = d[e] + 1
    BY Zenon DEF Chained, ListsOK
  <1>2. \A b \in FreeOf(B, s) : d[b] >= 1
    BY <1>0, <1>1
  <1> DEFINE Bad == {i \in Nat : i < d[a] /\ ~ \E b \in FreeOf(B, s) : d[b] = d[a] - i}
  <1>3. ASSUME Bad # {} PROVE FALSE
    <2>1. PICK i \in Bad : \A j \in Bad : i <= j
      <3>1. Bad \in SUBSET Nat
        BY Zenon
      <3> HIDE DEF Bad
      <3> QED BY Zenon, <1>3, <3>1, Smallest
    <2>2. i \in Nat /\ i < d[a] /\ ~ \E b \in FreeOf(B, s) : d[b] = d[a] - i
      BY Zenon, <2>1
    <2>3. i # 0
      BY <1>0, <2>2
    <2>4. i - 1 \in Nat /\ i - 1 < d[a] /\ ~ (i <= i - 1)
      BY <1>0, <2>2, <2>3
    <2>5. PICK b \in FreeOf(B, s) : d[b] = d[a] - (i - 1)
      BY Zenon, <2>1, <2>4
    <2>6. d[b] # 1
      BY <1>0, <2>2, <2>5
    <2>7. PICK e \in FreeOf(B, s) : d[b] = d[e] + 1
      BY Zenon, <1>1, <2>6
    <2>8. d[e] = d[a] - i
      BY <1>0, <2>2, <2>5, <2>7
    <2> QED BY Zenon, <2>2, <2>8
  <1>4. \A k \in 1 .. d[a] : \E b \in FreeOf(B, s) : d[b] = k
    <2> SUFFICES ASSUME NEW k \in 1 .. d[a] PROVE \E b \in FreeOf(B, s) : d[b] = k
      OBVIOUS
    <2>1. d[a] - k \in Nat /\ d[a] - k < d[a] /\ d[a] - (d[a] - k) = k
      BY <1>0
    <2> QED BY Zenon, <1>3, <2>1
  <1> DEFINE X == {b \in FreeOf(B, s) : d[b] \in 1 .. d[a]}
             f == [b \in X |-> d[b]]
  <1>5. f \in Surjection(X, 1 .. d[a])
    <2>1. f \in [X -> 1 .. d[a]]
      BY Zenon
    <2>2. \A k \in 1 .. d[a] : \E b \in X : f[b] = k
      BY Zenon, <1>4
    <2> HIDE DEF f, X
    <2> QED BY Zenon, <2>1, <2>2 DEF Surjection
  <1>6. X \subseteq Addresses
    BY Zenon, <1>0
  <1> HIDE DEF f, X
  <1>7. IsFiniteSet(Addresses) /\ Cardinality(Addresses) = HeapSize
    <2>1. IsFiniteSet(0 .. HeapSize - 1) /\ Cardinality(0 .. HeapSize - 1) = IF 0 > HeapSize - 1 THEN 0 ELSE (HeapSize - 1) - 0 + 1
      BY <1>0, FS_Interval
    <2> QED BY <1>0, <2>1 DEF Addresses
  <1>8. IsFiniteSet(X) /\ Cardinality(X) <= HeapSize
    BY Zenon, <1>6, <1>7, FS_Subset
  <1>9. Cardinality(1 .. d[a]) <= Cardinality(X)
    BY Zenon, <1>5, <1>8, FS_Surjection
  <1>10. Cardinality(1 .. d[a]) = d[a]
    BY <1>0, <1>2, FS_Interval
  <1>11. Cardinality(X) \in Nat
    BY Zenon, <1>8, FS_CardinalityType
  <1> QED BY <1>0, <1>2, <1>8, <1>9, <1>10, <1>11

\* Every free block of a class is on its list.
LEMMA FreeIsListed ==
  ASSUME HeapOK, Types, NEW B, ListsOK(B), NEW d \in Depths, Chained(B, d), NEW s \in Scales, NEW a \in FreeOf(B, s)
  PROVE  a \in Listed(s)
  <1> DEFINE reached(b) == \A n \in Nat : n + d[b] >= HeapSize => b \in ListFrom[n][head[s]]
             Bad == {i \in Nat : \E b \in FreeOf(B, s) : i = HeapSize - d[b] /\ ~reached(b)}
  <1>0. HeapSize \in Nat /\ \A b \in FreeOf(B, s) : b \in Addresses /\ d[b] \in Nat /\ d[b] >= 1 /\ HeapSize - d[b] \in Nat
    <2>1. HeapSize \in Nat
      BY Zenon DEF HeapOK, ConstantsOK
    <2>2. \A b \in FreeOf(B, s) : b \in Addresses /\ d[b] \in 1 .. HeapSize
      BY Zenon, DepthBound DEF FreeOf
    <2> QED BY <2>1, <2>2
  <1>1. head[s] \in Words
    BY Zenon DEF Types, Words
  <1> HIDE DEF reached
  <1>2. ASSUME Bad # {} PROVE FALSE
    <2>1. PICK i \in Bad : \A j \in Bad : i <= j
      <3>1. Bad \in SUBSET Nat
        BY Zenon
      <3> HIDE DEF Bad
      <3> QED BY Zenon, <1>2, <3>1, Smallest
    <2>2. PICK b \in FreeOf(B, s) : i = HeapSize - d[b] /\ ~reached(b)
      BY Zenon, <2>1
    <2>3. PICK n \in Nat : n + d[b] >= HeapSize /\ b \notin ListFrom[n][head[s]]
      BY Zenon, <2>2 DEF reached
    <2>4. b # head[s]
      <3>1. head[s] \in ListFrom[n][head[s]]
        BY Zenon, <1>1, ListFromIs
      <3> QED BY Zenon, <2>3, <3>1
    <2>5. PICK e \in FreeOf(B, s) : cell[e] = b
      BY Zenon, <2>4 DEF Chained
    <2>6. d[e] = d[b] + 1
      <3>1. b # Null
        BY <1>0 DEF Addresses, Null
      <3> QED BY Zenon, <2>5, <3>1 DEF Chained
    <2>7. /\ n - 1 \in Nat /\ (n - 1) + d[e] >= HeapSize /\ (n - 1) + 1 = n
          /\ HeapSize - d[e] \in Nat /\ ~ (i <= HeapSize - d[e])
      BY <1>0, <2>2, <2>3, <2>6
    <2>8. reached(e)
      BY Zenon, <2>1, <2>7
    <2>9. e \in ListFrom[n - 1][head[s]]
      BY Zenon, <2>7, <2>8 DEF reached
    <2>10. cell[e] \in ListFrom[(n - 1) + 1][head[s]]
      BY Zenon, <1>0, <1>1, <2>7, <2>9, ListGoesOn
    <2> QED BY Zenon, <2>3, <2>5, <2>7, <2>10
  <1>3. reached(a)
    BY Zenon, <1>0, <1>2
  <1>4. HeapSize + d[a] >= HeapSize
    BY <1>0
  <1> QED BY Zenon, <1>0, <1>3, <1>4 DEF reached, Listed

\* The object of a CPU in the allocator is a block of its class: a free one that it
\* is about to unlink, or one that it carries.
LEMMA InHand ==
  ASSUME HeapOK, Types, HandsOK, NEW B \in BlocksType, ShapeOK(B), NEW c \in Cpus, object[c] # Null
  PROVE  Block(object[c], Scale(c)) \in B /\ SizeOf(Scale(c)) = allocation_size(size[c])
  <1>1. Carries(c) \/ pc[c] = "unlink"
    BY Zenon DEF HandsOK
  <1>2. size[c] \in Requests
    BY Zenon, <1>1 DEF Types, Carries
  <1>3. Scale(c) \in Scales /\ SizeOf(Scale(c)) = allocation_size(size[c])
    BY Zenon, <1>2, SizeClass DEF Scale
  <1>4. Block(object[c], Scale(c)) \in B
    <2>1. CASE Carries(c)
      BY Zenon, <2>1 DEF ShapeOK, OwnersOK
    <2>2. CASE pc[c] = "unlink"
      BY Zenon, <1>3, <2>2 DEF ShapeOK, ListsOK, FreeOf
    <2> QED BY Zenon, <1>1, <2>1, <2>2
  <1> QED BY Zenon, <1>3, <1>4

\* Of the bytes that the bump pointer passed, each is in an object of a caller, of a
\* CPU in the allocator or of a list, and these have no others.
LEMMA InvNothingLost ==
  ASSUME HeapOK, HeapInv
  PROVE  NothingLost
  <1>1. Types /\ HandsOK
    BY Zenon DEF HeapInv
  <1>2. PICK B \in BlocksType : ShapeOK(B) /\ Covered(B) /\ \E d \in Depths : Chained(B, d)
    BY Zenon DEF HeapInv, WholeOK
  <1>3. PICK d \in Depths : Chained(B, d)
    BY Zenon, <1>2
  <1>4. TypeOK
    BY Zenon, <1>1 DEF Types, HandsOK, TypeOK
  <1> DEFINE bytes(a, n) == a .. a + n - 1
             Handed == UNION {Extent(o) : o \in held}
             All == Handed \cup InTransit \cup FreeBytes
  <1>a. Handed \subseteq All /\ InTransit \subseteq All /\ FreeBytes \subseteq All
    BY Zenon
  <1>5. \A b \in B : b = Block(b.addr, b.scale) /\ b.addr \in Addresses /\ b.scale \in Scales
    BY DEF BlocksType, Block
  <1>6. ASSUME NEW o \in held
        PROVE  /\ Block(o.addr, ScaleOf(o.size)) \in B
               /\ Extent(o) = bytes(o.addr, SizeOf(ScaleOf(o.size)))
    <2>1. o.size \in Requests
      BY Zenon, <1>1 DEF Types
    <2>2. SizeOf(ScaleOf(o.size)) = allocation_size(o.size)
      BY Zenon, <2>1, SizeClass
    <2> QED BY Zenon, <1>2, <2>2 DEF ShapeOK, OwnersOK, Extent
  <1>7. ASSUME NEW b \in B PROVE bytes(b.addr, SizeOf(b.scale)) \subseteq 0 .. heapIndex - 1
    <2>1. /\ b.addr \in Nat /\ SizeOf(b.scale) \in Nat /\ heapIndex \in Nat
          /\ b.addr + SizeOf(b.scale) <= heapIndex
      BY <1>1, <1>2, <1>5, SizeClass DEF ShapeOK, BlocksOK, Types, Addresses
    <2> QED BY <2>1
  <1>8. ASSUME NEW b \in B PROVE bytes(b.addr, SizeOf(b.scale)) \subseteq All
    <2>1. CASE \E o \in held : o.addr = b.addr
      <3>1. PICK o \in held : o.addr = b.addr
        BY Zenon, <2>1
      <3>2. Block(o.addr, ScaleOf(o.size)) = b
        <4>1. Block(o.addr, ScaleOf(o.size)).addr = b.addr
          BY Zenon, <3>1 DEF Block
        <4> QED BY Zenon, <1>2, <1>6, <4>1, OneBlock DEF ShapeOK
      <3>3. ScaleOf(o.size) = b.scale
        BY Zenon, <3>2 DEF Block
      <3>4. Extent(o) = bytes(b.addr, SizeOf(b.scale))
        BY Zenon, <1>6, <3>1, <3>3
      <3> QED BY Zenon, <3>4
    <2>2. CASE \E c \in Cpus : Carries(c) /\ object[c] = b.addr
      <3>1. PICK c \in Cpus : Carries(c) /\ object[c] = b.addr
        BY Zenon, <2>2
      <3>2. object[c] # Null
        <4>1. object[c] \in Addresses
          BY Zenon, <1>5, <3>1
        <4> QED BY <4>1 DEF Addresses, Null
      <3>3. Block(object[c], Scale(c)) \in B /\ SizeOf(Scale(c)) = allocation_size(size[c])
        BY Zenon, <1>1, <1>2, <3>2, InHand
      <3>4. Block(object[c], Scale(c)) = b
        <4>1. Block(object[c], Scale(c)).addr = b.addr
          BY Zenon, <3>1 DEF Block
        <4> QED BY Zenon, <1>2, <3>3, <4>1, OneBlock DEF ShapeOK
      <3>5. Scale(c) = b.scale
        BY Zenon, <3>4 DEF Block
      <3>6. bytes(object[c], allocation_size(size[c])) = bytes(b.addr, SizeOf(b.scale))
        BY Zenon, <3>1, <3>3, <3>5
      <3>7. bytes(object[c], allocation_size(size[c])) \subseteq InTransit
        BY Zenon, <3>2 DEF InTransit
      <3> HIDE DEF bytes, All
      <3> QED BY Zenon, <1>a, <3>6, <3>7
    <2>3. CASE ~Owned(b.addr)
      <3>1. b.addr \in FreeOf(B, b.scale)
        BY Zenon, <1>5, <2>3 DEF FreeOf
      <3>2. b.addr \in Listed(b.scale)
        BY Zenon, <1>1, <1>2, <1>3, <1>5, <3>1, FreeIsListed DEF ShapeOK
      <3>3. b.addr # Null
        BY <1>5 DEF Addresses, Null
      <3>4. bytes(b.addr, SizeOf(b.scale)) \subseteq UNION {a .. a + 2^(b.scale + MinScale) - 1 : a \in Listed(b.scale) \ {Null}}
        BY Zenon, <3>2, <3>3 DEF SizeOf
      <3>5. PICK s \in Scales : s = b.scale
        BY Zenon, <1>5
      <3>6. UNION {a .. a + 2^(s + MinScale) - 1 : a \in Listed(s) \ {Null}} \subseteq FreeBytes
        <4> DEFINE on(t) == UNION {a .. a + 2^(t + MinScale) - 1 : a \in Listed(t) \ {Null}}
        <4>1. FreeBytes = UNION {on(t) : t \in Scales}
          BY Zenon DEF FreeBytes
        <4> HIDE DEF on
        <4>2. on(s) \subseteq FreeBytes
          BY Zenon, <4>1
        <4> QED BY Zenon, <4>2 DEF on
      <3> HIDE DEF bytes, All
      <3> QED BY Zenon, <1>a, <3>4, <3>5, <3>6
    <2> QED BY Zenon, <2>1, <2>2, <2>3 DEF Owned
  <1>9. All \subseteq 0 .. heapIndex - 1
    <2>a. ASSUME NEW a, NEW s, Block(a, s) \in B PROVE bytes(a, SizeOf(s)) \subseteq 0 .. heapIndex - 1
      <3>1. Block(a, s).addr = a /\ Block(a, s).scale = s
        BY Zenon DEF Block
      <3> QED BY Zenon, <1>7, <2>a, <3>1
    <2> HIDE DEF bytes
    <2>1. \A o \in held : Extent(o) \subseteq 0 .. heapIndex - 1
      BY Zenon, <1>6, <2>a
    <2>2. ASSUME NEW c \in Cpus, object[c] # Null
          PROVE  bytes(object[c], allocation_size(size[c])) \subseteq 0 .. heapIndex - 1
      <3>1. Block(object[c], Scale(c)) \in B /\ SizeOf(Scale(c)) = allocation_size(size[c])
        BY Zenon, <1>1, <1>2, <2>2, InHand
      <3> QED BY Zenon, <2>a, <3>1
    <2>3. ASSUME NEW s \in Scales, NEW a \in Listed(s) \ {Null}
          PROVE  bytes(a, SizeOf(s)) \subseteq 0 .. heapIndex - 1
      <3>1. a \in FreeOf(B, s)
        BY Zenon, <1>1, <1>2, ListedIsFree DEF ShapeOK
      <3> QED BY Zenon, <2>a, <3>1 DEF FreeOf
    <2>4. InTransit \subseteq 0 .. heapIndex - 1
      BY Zenon, <2>2 DEF InTransit, bytes
    <2>5. FreeBytes \subseteq 0 .. heapIndex - 1
      <3> SUFFICES ASSUME NEW x \in FreeBytes PROVE x \in 0 .. heapIndex - 1
        BY Zenon
      <3>1. PICK s \in Scales : x \in UNION {a .. a + 2^(s + MinScale) - 1 : a \in Listed(s) \ {Null}}
        BY Zenon DEF FreeBytes
      <3>2. PICK a \in Listed(s) \ {Null} : x \in a .. a + 2^(s + MinScale) - 1
        BY Zenon, <3>1
      <3>3. x \in bytes(a, SizeOf(s))
        BY Zenon, <3>2 DEF bytes, SizeOf
      <3> QED BY Zenon, <2>3, <3>3
    <2>6. Handed \subseteq 0 .. heapIndex - 1
      BY Zenon, <2>1
    <2> HIDE DEF Handed
    <2> QED BY Zenon, <2>4, <2>5, <2>6
  <1>10. ASSUME \A c \in Cpus : pc[c] # "fault" PROVE 0 .. heapIndex - 1 \subseteq All
    <2> SUFFICES ASSUME NEW x \in 0 .. heapIndex - 1 PROVE x \in All
      BY Zenon
    <2>1. PICK b \in B : x \in bytes(b.addr, SizeOf(b.scale))
      BY Zenon, <1>2, <1>10 DEF Covered
    <2> HIDE DEF All, bytes
    <2> QED BY Zenon, <1>8, <2>1
  <1>11. (\A c \in Cpus : pc[c] # "fault") => 0 .. heapIndex - 1 = All
    <2> HIDE DEF All
    <2> QED BY Zenon, <1>9, <1>10
  <1>12. All = (UNION {Extent(o) : o \in held}) \cup InTransit \cup FreeBytes
    BY Zenon
  <1> HIDE DEF All
  <1> QED BY Zenon, <1>4, <1>11, <1>12 DEF NothingLost

\* No memory is lost, however the calls on any number of CPUs interleave: until the
\* heap is exhausted, a byte that global_allocate took from HEAP is in an object that
\* a caller has, in one that a CPU takes from a free list or puts there, or on a list.
THEOREM NothingIsLost ==
  ASSUME HeapOK
  PROVE  Spec => []NothingLost
  <1>1. Init => HeapInv
    BY Zenon, HeapInvInit
  <1>2. HeapInv /\ [Next]_vars => HeapInv'
    BY Zenon, HeapInvStep
  <1>3. HeapInv => NothingLost
    BY Zenon, InvNothingLost
  <1> QED BY <1>1, <1>2, <1>3, PTL DEF Spec
=============================================================================
