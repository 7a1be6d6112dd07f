------------------------- MODULE ConcurrencyProofs --------------------------
(***************************************************************************)
(* Proofs about words of memory that several CPUs change at the same time: *)
(* the branches that are patched, and the log of blocks.                   *)
(***************************************************************************)
EXTENDS DirectBranchPatch, TraceLog, Induction, TLAPS

-----------------------------------------------------------------------------
(* Direct branch patching, for any number of CPUs, branches and blocks:    *)
(* mutual exclusion, the one published target, and that the safety part of *)
(* BranchResolution is implemented.                                        *)
(*                                                                         *)
(* Two facts carry the argument.  While a CPU is between its lookup and    *)
(* its publication, the target of its branch is unpublished, because the   *)
(* lock keeps every other CPU out (TargetsPending).  And a branch leads    *)
(* either to its stub or to the published target, because the publication  *)
(* comes before the rewrite (BranchesPublished).                           *)

\* What an owner knows about the target of its branch.
TargetsPending ==
    \A c \in Cpus :
        /\ at[c] = "found" => /\ target[c] \in Blocks
                              /\ translated[branch[c]] = None
        /\ at[c] \in {"published", "written"} =>
              /\ target[c] \in Blocks
              /\ translated[branch[c]] = target[c]

\* Where a branch may lead.
BranchesPublished ==
    \A b \in Branches :
        rel32[b] # Stub => rel32[b] \in Blocks /\ rel32[b] = translated[b]

\* A CPU that has arrived remembers the branch it took.
ArrivedByBranch ==
    \A c \in Cpus : at[c] = "arrived" => branch[c] \in Branches

\* The inductive invariant.
IInv ==
    /\ TypeOK
    /\ OwnerHoldsLock
    /\ TargetsPending
    /\ BranchesPublished
    /\ ArrivedByBranch
    /\ ArrivesAtPublished

USE DirectBranchPatchAssumption DEF Owning, Patching

-----------------------------------------------------------------------------

\* The state after the stubs were emitted satisfies the invariant.
LEMMA InitIInv == Init => IInv
  BY DEF Init, IInv, TypeOK, OwnerHoldsLock, TargetsPending, BranchesPublished,
         ArrivedByBranch, ArrivesAtPublished

\* Every step preserves the invariant.
LEMMA NextIInv == IInv /\ [Next]_vars => IInv'
  <1> SUFFICES ASSUME IInv, [Next]_vars PROVE IInv'
    OBVIOUS
  <1> USE DEF IInv, TypeOK
  <1>1. ASSUME NEW c \in Cpus, NEW b \in Branches, TakeStub(c, b)
        PROVE  IInv'
    BY <1>1 DEF TakeStub, OwnerHoldsLock, TargetsPending, BranchesPublished,
                ArrivedByBranch, ArrivesAtPublished
  <1>2. ASSUME NEW c \in Cpus, NEW b \in Branches, TakePatched(c, b)
        PROVE  IInv'
    BY <1>2 DEF TakePatched, OwnerHoldsLock, TargetsPending, BranchesPublished,
                ArrivedByBranch, ArrivesAtPublished
  <1>3. ASSUME NEW c \in Cpus, CallPatcher(c)
        PROVE  IInv'
    BY <1>3 DEF CallPatcher, OwnerHoldsLock, TargetsPending, BranchesPublished,
                ArrivedByBranch, ArrivesAtPublished
  <1>4. ASSUME NEW c \in Cpus, TryAcquire(c)
        PROVE  IInv'
    BY <1>4 DEF TryAcquire, OwnerHoldsLock, TargetsPending, BranchesPublished,
                ArrivedByBranch, ArrivesAtPublished
  <1>5. ASSUME NEW c \in Cpus, Refused(c)
        PROVE  IInv'
    BY <1>5 DEF Refused, ReturnTo, ReturnToCall, OwnerHoldsLock, TargetsPending,
                BranchesPublished, ArrivedByBranch, ArrivesAtPublished
  <1>6. ASSUME NEW c \in Cpus, AlreadyPatched(c)
        PROVE  IInv'
    BY <1>6 DEF AlreadyPatched, ReturnTo, OwnerHoldsLock, TargetsPending,
                BranchesPublished, ArrivedByBranch, ArrivesAtPublished
  <1>7. ASSUME NEW c \in Cpus, NEW t \in Blocks, Find(c, t)
        PROVE  IInv'
    BY <1>7 DEF Find, OwnerHoldsLock, TargetsPending, BranchesPublished,
                ArrivedByBranch, ArrivesAtPublished
  <1>8. ASSUME NEW c \in Cpus, Publish(c)
        PROVE  IInv'
    BY <1>8 DEF Publish, OwnerHoldsLock, TargetsPending, BranchesPublished,
                ArrivedByBranch, ArrivesAtPublished
  <1>9. ASSUME NEW c \in Cpus, Rewrite(c)
        PROVE  IInv'
    BY <1>9 DEF Rewrite, OwnerHoldsLock, TargetsPending, BranchesPublished,
                ArrivedByBranch, ArrivesAtPublished
  <1>10. ASSUME NEW c \in Cpus, Release(c)
         PROVE  IInv'
    BY <1>10 DEF Release, ReturnTo, OwnerHoldsLock, TargetsPending,
                 BranchesPublished, ArrivedByBranch, ArrivesAtPublished
  <1>11. ASSUME NEW c \in Cpus, Continue(c)
         PROVE  IInv'
    BY <1>11 DEF Continue, OwnerHoldsLock, TargetsPending, BranchesPublished,
                 ArrivedByBranch, ArrivesAtPublished
  <1>12. CASE UNCHANGED vars
    BY Zenon, <1>12 DEF vars, OwnerHoldsLock, TargetsPending, BranchesPublished,
                 ArrivedByBranch, ArrivesAtPublished
  <1> QED
    BY Zenon, <1>1, <1>2, <1>3, <1>4, <1>5, <1>6, <1>7, <1>8, <1>9, <1>10, <1>11, <1>12
       DEF Next, PatchStep

\* The invariant holds in every reachable state.
THEOREM IInvariant == SafeSpec => []IInv
  BY InitIInv, NextIInv, PTL DEF SafeSpec

\* patch_instruction is executed under mutual exclusion from its try-lock on.
THEOREM MutualExclusion == SafeSpec => []OwnerHoldsLock
  BY IInvariant, PTL DEF IInv

\* A CPU never continues at the null address or at an unpublished translation.
THEOREM ArrivalIsPublished == SafeSpec => []ArrivesAtPublished
  BY IInvariant, PTL DEF IInv

\* The target of a branch is published once.
THEOREM PublishedOnce == SafeSpec => ResolvedOnce
  <1>1. IInv /\ [Next]_vars =>
          [\A b \in Branches :
              translated[b] # None => translated'[b] = translated[b]]_vars
    <2> SUFFICES ASSUME IInv, Next, NEW b \in Branches, translated[b] # None
                 PROVE  translated'[b] = translated[b]
      BY Zenon DEF vars
    <2> USE DEF IInv, TypeOK
    <2>1. ASSUME NEW c \in Cpus, Publish(c)
          PROVE  translated'[b] = translated[b]
      BY Zenon, <2>1 DEF Publish, TargetsPending
    <2>2. ASSUME NEW c \in Cpus, ~Publish(c),
                 PatchStep(c) \/ Continue(c)
                 \/ \E d \in Branches : TakeStub(c, d) \/ TakePatched(c, d)
          PROVE  translated' = translated
      BY Zenon, <2>2 DEF PatchStep, Continue, TakeStub, TakePatched, CallPatcher,
                  TryAcquire, Refused, AlreadyPatched, Find, Rewrite, Release
    <2> QED
      BY Zenon, <2>1, <2>2 DEF Next
  <1> QED
    BY <1>1, IInvariant, PTL DEF SafeSpec, ResolvedOnce

-----------------------------------------------------------------------------
(* The refinement.                                                         *)

\* What branch resolution sees of a step of a CPU in dbl.cc: whether it runs, waits
\* or has arrived.
LEMMA WhereStep ==
    ASSUME TypeOK, NEW c \in Cpus, NEW x, at' = [at EXCEPT ![c] = x]
    PROVE  /\ where[c] = IF at[c] \in Patching THEN "waiting" ELSE at[c]
           /\ where' = [where EXCEPT ![c] = IF x \in Patching THEN "waiting" ELSE x]
  <1>1. \A d \in Cpus : at'[d] = IF d = c THEN x ELSE at[d]
    BY Zenon DEF TypeOK
  <1> DEFINE See(y) == IF y \in Patching THEN "waiting" ELSE y
  <1>2. where = [d \in Cpus |-> See(at[d])] /\ where' = [d \in Cpus |-> See(at'[d])]
    BY Zenon DEF where
  <1> HIDE DEF See
  <1>3. where[c] = See(at[c])
    BY Zenon, <1>2
  <1>4. where' = [where EXCEPT ![c] = See(x)]
    BY SMT, <1>1, <1>2
  <1> QED BY Zenon, <1>3, <1>4 DEF See

\* Every step of patch_instruction is a step of branch resolution, or is
\* invisible to it.
LEMMA StepImplements ==
    IInv /\ [Next]_vars => [Abstract!Next]_(Abstract!absVars)
  <1> SUFFICES ASSUME IInv, [Next]_vars
               PROVE  Abstract!Next \/ UNCHANGED Abstract!absVars
    OBVIOUS
  <1> USE DEF IInv, TypeOK, where, Abstract!absVars
  <1>1. ASSUME NEW c \in Cpus, NEW b \in Branches, TakeStub(c, b)
        PROVE  Abstract!Take(c, b)
    BY Zenon, <1>1 DEF TakeStub, Abstract!Take
  <1>2. ASSUME NEW c \in Cpus, NEW b \in Branches, TakePatched(c, b)
        PROVE  Abstract!Follow(c, b)
    <2>1. translated[b] = rel32[b] /\ translated[b] # None
      <3>1. rel32[b] # Stub
        BY Zenon, <1>2 DEF TakePatched
      <3>2. BranchesPublished
        BY Zenon
      <3> HIDE DEF IInv, TypeOK
      <3>3. rel32[b] \in Blocks /\ translated[b] = rel32[b]
        BY Zenon, <3>1, <3>2 DEF BranchesPublished
      <3> QED BY Zenon, <3>3 DEF DirectBranchPatchAssumption
    <2>2. where[c] = "running" /\ where' = [where EXCEPT ![c] = "arrived"]
      <3>1. at[c] = "running" /\ at' = [at EXCEPT ![c] = "arrived"]
        BY Zenon, <1>2 DEF TakePatched
      <3> HIDE DEF where
      <3> QED BY Zenon, <3>1, WhereStep
    <2> HIDE DEF where
    <2> QED BY Zenon, <1>2, <2>1, <2>2 DEF TakePatched, Abstract!Follow
  <1>3. ASSUME NEW c \in Cpus, CallPatcher(c)
        PROVE  UNCHANGED Abstract!absVars
    BY Zenon, <1>3 DEF CallPatcher
  <1>4. ASSUME NEW c \in Cpus, TryAcquire(c)
        PROVE  UNCHANGED Abstract!absVars
    BY Zenon, <1>4 DEF TryAcquire
  <1>5. ASSUME NEW c \in Cpus, Refused(c)
        PROVE  Abstract!Resume(c) \/ UNCHANGED Abstract!absVars
    <2>1. CASE translated[branch[c]] # None
      <3>1. where[c] = "waiting" /\ where' = [where EXCEPT ![c] = "arrived"]
        <4>1. at[c] = "refused" /\ at' = [at EXCEPT ![c] = "arrived"]
          BY Zenon, <1>5, <2>1 DEF Refused, ReturnTo
        <4> HIDE DEF where
        <4> QED BY Zenon, <4>1, WhereStep
      <3> HIDE DEF where
      <3> QED BY Zenon, <1>5, <2>1, <3>1 DEF Refused, ReturnTo, Abstract!Resume
    <2>2. CASE translated[branch[c]] = None
      <3>1. where' = [where EXCEPT ![c] = "waiting"] /\ where[c] = "waiting"
        <4>1. at[c] = "refused" /\ at' = [at EXCEPT ![c] = "call"]
          BY Zenon, <1>5, <2>2 DEF Refused, ReturnToCall
        <4> HIDE DEF where
        <4> QED BY Zenon, <4>1, WhereStep
      <3>2. where' = where
        BY Zenon, <3>1 DEF where
      <3> HIDE DEF where
      <3> QED BY Zenon, <1>5, <2>2, <3>2 DEF Refused, ReturnToCall
    <2> QED
      BY Zenon, <2>1, <2>2
  <1>6. ASSUME NEW c \in Cpus, AlreadyPatched(c)
        PROVE  Abstract!Resume(c)
    BY Zenon, <1>6 DEF AlreadyPatched, ReturnTo, Abstract!Resume
  <1>7. ASSUME NEW c \in Cpus, NEW t \in Blocks, Find(c, t)
        PROVE  UNCHANGED Abstract!absVars
    BY Zenon, <1>7 DEF Find
  <1>8. ASSUME NEW c \in Cpus, Publish(c)
        PROVE  Abstract!Resolve(c, target[c]) /\ target[c] \in Blocks
    <2>1. where' = where /\ where[c] = "waiting"
      <3>1. at[c] = "found" /\ at' = [at EXCEPT ![c] = "published"]
        BY Zenon, <1>8 DEF Publish
      <3>2. where' = [where EXCEPT ![c] = "waiting"] /\ where[c] = "waiting"
        <4> HIDE DEF where
        <4> QED BY Zenon, <3>1, WhereStep
      <3> QED BY Zenon, <3>2 DEF where
    <2> HIDE DEF where
    <2> QED BY Zenon, <1>8, <2>1 DEF Publish, TargetsPending, Abstract!Resolve
  <1>9. ASSUME NEW c \in Cpus, Rewrite(c)
        PROVE  UNCHANGED Abstract!absVars
    BY Zenon, <1>9 DEF Rewrite
  <1>10. ASSUME NEW c \in Cpus, Release(c)
         PROVE  Abstract!Resume(c)
    <2>1. translated[branch[c]] = target[c] /\ target[c] # None
      BY Zenon, <1>10 DEF Release, TargetsPending
    <2> QED
      BY Zenon, <1>10, <2>1 DEF Release, ReturnTo, Abstract!Resume
  <1>11. ASSUME NEW c \in Cpus, Continue(c)
         PROVE  Abstract!Continue(c)
    BY Zenon, <1>11 DEF Continue, Abstract!Continue
  <1>12. CASE UNCHANGED vars
    BY Zenon, <1>12 DEF vars
  <1> QED
    BY Zenon, <1>1, <1>2, <1>3, <1>4, <1>5, <1>6, <1>7, <1>8, <1>9, <1>10, <1>11, <1>12
       DEF Next, PatchStep, Abstract!Next

\* Direct branch lookup implements the safety part of branch resolution.
THEOREM Refinement == SafeSpec => ImplementsResolution
  <1>1. Init => Abstract!Init
    BY Zenon DEF Init, Abstract!Init, where
  <1> QED
    BY <1>1, IInvariant, StepImplements, PTL
       DEF SafeSpec, ImplementsResolution, Abstract!SafeSpec

-----------------------------------------------------------------------------
(* The log of blocks.  An entry is recent until its item is taken again;   *)
(* recent entries have different items, and an item that a CPU still links *)
(* is recent unless the ring overran it.                                   *)

Heads == 0 .. LogEntries
ItemType == [prev : Heads, addr : Nat]
LoggingType == [pc : {"run", "load", "swap"}, entry : Nat, prev : Heads]

Linking(c) == logging[c].pc # "run"
Recent(e) == NUM_TRACE_ENTRIES - e < LogEntries
EntryNumber(e) == e \in Nat \ {0} /\ e <= NUM_TRACE_ENTRIES

TraceTypes ==
    /\ NUM_TRACE_ENTRIES \in Nat
    /\ linked \in Seq(Nat) /\ \A k \in 1 .. Len(linked) : EntryNumber(linked[k])
    /\ LOGS \in [Items -> ItemType]
    /\ logging \in [LogCpus -> LoggingType]
    /\ \A c \in LogCpus : Linking(c) => EntryNumber(logging[c].entry)
    /\ TRACE = IF Len(linked) = 0 THEN 0 ELSE ItemOf(linked[1])

\* An entry is linked by one CPU, once.
LinkedOnce ==
    /\ \A j, k \in 1 .. Len(linked) : linked[j] = linked[k] => j = k
    /\ \A c \in LogCpus : Linking(c) =>
          /\ \A k \in 1 .. Len(linked) : linked[k] # logging[c].entry
          /\ \A d \in LogCpus : Linking(d) /\ d # c => logging[d].entry # logging[c].entry

\* What the item of a recent entry holds.
HoldsPending(c) ==
    LET e == logging[c].entry
    IN  /\ Recent(e) /\ LOGS[ItemOf(e)].addr = e
        /\ logging[c].pc = "swap" => LOGS[ItemOf(e)].prev = logging[c].prev

HoldsLinked(k) ==
    Recent(linked[k]) =>
        /\ LOGS[ItemOf(linked[k])].addr = linked[k]
        /\ LOGS[ItemOf(linked[k])].prev = IF k = Len(linked) THEN 0 ELSE ItemOf(linked[k + 1])

ItemsHold ==
    /\ \A c \in LogCpus : Linking(c) => HoldsPending(c)
    /\ \A k \in 1 .. Len(linked) : HoldsLinked(k)

TraceInv == TraceTypes /\ LinkedOnce /\ (overrun \/ ItemsHold)

\* The items are numbered from 1, and two entries share one only if the ring is
\* between them.
LEMMA ItemsApart ==
    ASSUME TraceOK
    PROVE  /\ \A e \in Nat \ {0} : ItemOf(e) \in Items
           /\ \A d, e \in Nat \ {0} : d < e /\ e - d < LogEntries => ItemOf(d) # ItemOf(e)
           /\ \A e \in Nat \ {0} : ItemOf(e + LogEntries) = ItemOf(e)
  <1> DEFINE n == LogEntries
  <1>0. n \in Nat \ {0}
    BY DEF TraceOK
  <1>1. ASSUME NEW x \in Nat
        PROVE  x % n \in 0 .. n - 1
    BY <1>0
  <1>2. ASSUME NEW x \in Nat, NEW d \in 1 .. n - 1
        PROVE  (x + d) % n # x % n
    <2>1. d \in 0 .. n - 1 /\ d # 0
      BY <1>0
    <2>2. (x + d) % n = IF (x % n) + d < n THEN (x % n) + d ELSE (x % n) + d - n
      BY Zenon, <1>0, <2>1, ModAdd
    <2> DEFINE r == x % n
    <2>3. r \in 0 .. n - 1
      BY Zenon, <1>1
    <2> HIDE DEF r, n
    <2>4. (IF r + d < n THEN r + d ELSE r + d - n) # r
      BY <1>0, <1>2, <2>3
    <2> QED BY Zenon, <2>2, <2>4 DEF r
  <1>3. ASSUME NEW x \in Nat PROVE (x + n) % n = x % n
    <2> DEFINE q == x \div n
               r == x % n
    <2>1. x = n * q + r /\ r \in 0 .. n - 1 /\ q \in Int
      BY <1>0
    <2> HIDE DEF q, r, n
    <2>2. x + n = n * (q + 1) + r /\ q + 1 \in Int /\ x + n \in Nat
      BY <1>0, <2>1
    <2>3. (x + n) % n = r
      BY ZenonT(60), <1>0, <2>1, <2>2, ModUnique
    <2> QED BY Zenon, <2>3 DEF r
  <1>4. ASSUME NEW e \in Nat \ {0} PROVE ItemOf(e) \in Items
    <2>1. (e - 1) % n \in 0 .. n - 1
      <3>1. e - 1 \in Nat
        OBVIOUS
      <3> QED BY Zenon, <1>1, <3>1
    <2> QED BY <1>0, <2>1 DEF ItemOf, Items
  <1>5. ASSUME NEW d \in Nat \ {0}, NEW e \in Nat \ {0}, d < e, e - d < n
        PROVE  ItemOf(d) # ItemOf(e)
    <2>1. d - 1 \in Nat /\ e - d \in 1 .. n - 1 /\ (d - 1) + (e - d) = e - 1 /\ e - 1 \in Nat
      BY <1>0, <1>5
    <2>2. ((d - 1) + (e - d)) % n # (d - 1) % n
      BY Zenon, <1>2, <2>1
    <2>3. (e - 1) % n # (d - 1) % n
      BY Zenon, <2>1, <2>2
    <2>4. (e - 1) % n \in 0 .. n - 1 /\ (d - 1) % n \in 0 .. n - 1
      BY Zenon, <1>1, <2>1
    <2> QED BY <1>0, <2>3, <2>4 DEF ItemOf
  <1>6. ASSUME NEW e \in Nat \ {0} PROVE ItemOf(e + n) = ItemOf(e)
    <2>1. e - 1 \in Nat /\ (e + n) - 1 = (e - 1) + n
      BY <1>0
    <2> QED BY Zenon, <1>3, <2>1 DEF ItemOf
  <1> QED BY Zenon, <1>4, <1>5, <1>6

\* Two different recent entries have different items.
LEMMA RecentApart ==
    ASSUME TraceOK, TraceTypes, NEW d, NEW e, EntryNumber(d), EntryNumber(e),
           Recent(d), Recent(e), d # e
    PROVE  ItemOf(d) # ItemOf(e)
  <1>1. /\ d \in Nat \ {0} /\ e \in Nat \ {0} /\ NUM_TRACE_ENTRIES \in Nat
        /\ d <= NUM_TRACE_ENTRIES /\ e <= NUM_TRACE_ENTRIES
        /\ NUM_TRACE_ENTRIES - d < LogEntries /\ NUM_TRACE_ENTRIES - e < LogEntries
        /\ LogEntries \in Nat
    BY Zenon DEF EntryNumber, Recent, TraceTypes, TraceOK
  <1>2. (d < e /\ e - d < LogEntries) \/ (e < d /\ d - e < LogEntries)
    BY <1>1
  <1> QED BY Zenon, <1>1, <1>2, ItemsApart

\* The head is an item or nullptr.
LEMMA HeadType ==
    ASSUME TraceOK, TraceTypes
    PROVE  TRACE \in Heads
  <1>1. CASE Len(linked) = 0
    BY <1>1 DEF TraceTypes, TraceOK, Heads
  <1>2. CASE Len(linked) # 0
    <2>1. 1 \in 1 .. Len(linked)
      BY <1>2 DEF TraceTypes
    <2>2. linked[1] \in Nat \ {0}
      BY Zenon, <2>1 DEF TraceTypes, EntryNumber
    <2>3. ItemOf(linked[1]) \in Items
      BY Zenon, <2>2, ItemsApart
    <2>4. ItemOf(linked[1]) \in Heads
      BY <2>3 DEF Items, Heads, TraceOK
    <2> QED BY Zenon, <1>2, <2>4 DEF TraceTypes
  <1> QED BY Zenon, <1>1, <1>2

\* A CPU takes an item and writes the address.
LEMMA TakeItemStep ==
    ASSUME TraceOK, TraceInv, NEW c \in LogCpus, TakeItem(c)
    PROVE  TraceInv'
  <1>0. PICK N \in Nat : N = NUM_TRACE_ENTRIES
    BY Zenon DEF TraceInv, TraceTypes
  <1> DEFINE i == ItemOf(N + 1)
             x == [pc |-> "load", entry |-> N + 1, prev |-> 0]
             y == [LOGS[i] EXCEPT !.addr = N + 1]
  <1>1. /\ TraceTypes /\ LinkedOnce /\ N \in Nat /\ N + 1 \in Nat \ {0}
        /\ logging[c].pc = "run" /\ NUM_TRACE_ENTRIES' = N + 1
        /\ linked' = linked /\ TRACE' = TRACE
    BY <1>0 DEF TraceInv, TraceTypes, TakeItem
  <1>2. /\ i \in Items /\ LOGS[i] \in ItemType
    BY Zenon, <1>1, ItemsApart DEF TraceTypes
  <1>3. LOGS' = [LOGS EXCEPT ![i] = y] /\ logging' = [logging EXCEPT ![c] = x]
    BY Zenon, <1>1 DEF TakeItem
  <1>4. /\ x \in LoggingType /\ x.pc = "load" /\ x.entry = N + 1
        /\ y \in ItemType /\ y.addr = N + 1
    <2>1. 0 \in Heads
      BY DEF Heads, TraceOK
    <2> QED BY <1>1, <1>2, <2>1 DEF LoggingType, ItemType
  <1> HIDE DEF x, y
  <1>5. /\ LOGS' \in [Items -> ItemType] /\ LOGS'[i] = y
        /\ \A j \in Items \ {i} : LOGS'[j] = LOGS[j]
        /\ logging' \in [LogCpus -> LoggingType] /\ logging'[c] = x
        /\ \A d \in LogCpus \ {c} : logging'[d] = logging[d]
    BY Zenon, <1>1, <1>2, <1>3, <1>4 DEF TraceTypes
  <1>6. ASSUME NEW e, EntryNumber(e)
        PROVE  e \in Nat \ {0} /\ e <= N + 1 /\ e < N + 1 /\ e # N + 1
    BY <1>0, <1>1, <1>6 DEF EntryNumber
  <1>7. /\ Linking(c)' /\ ~ Linking(c)
        /\ \A d \in LogCpus \ {c} : Linking(d)' <=> Linking(d)
    <2>1. "load" # "run"
      OBVIOUS
    <2> QED BY Zenon, <1>1, <1>4, <1>5, <2>1 DEF Linking
  <1>8. /\ \A k \in 1 .. Len(linked) : EntryNumber(linked[k])
        /\ \A d \in LogCpus : Linking(d) => EntryNumber(logging[d].entry)
    BY Zenon, <1>1 DEF TraceTypes
  <1>9. TraceTypes'
    <2>1. N + 1 <= N + 1
      OBVIOUS
    <2>2. \A d \in LogCpus : Linking(d)' => logging'[d].entry \in Nat \ {0} /\ logging'[d].entry <= N + 1
      BY Zenon, <1>1, <1>4, <1>5, <1>6, <1>7, <1>8, <2>1
    <2>3. \A k \in 1 .. Len(linked) : linked[k] \in Nat \ {0} /\ linked[k] <= N + 1
      BY Zenon, <1>6, <1>8
    <2>4. /\ NUM_TRACE_ENTRIES' \in Nat /\ linked' \in Seq(Nat)
          /\ TRACE' = IF Len(linked') = 0 THEN 0 ELSE ItemOf(linked'[1])
      BY Zenon, <1>1 DEF TraceTypes
    <2> QED BY Zenon, <1>1, <1>5, <2>2, <2>3, <2>4 DEF TraceTypes, EntryNumber
  <1>10. LinkedOnce'
    <2>1. ASSUME NEW d \in LogCpus, Linking(d)'
          PROVE  /\ \A k \in 1 .. Len(linked) : linked[k] # logging'[d].entry
                 /\ \A u \in LogCpus : Linking(u)' /\ u # d => logging'[u].entry # logging'[d].entry
      <3>1. CASE d = c
        BY Zenon, <1>4, <1>5, <1>6, <1>7, <1>8, <3>1
      <3>2. CASE d # c
        <4>1. Linking(d) /\ logging'[d] = logging[d] /\ logging[d].entry # N + 1
          BY Zenon, <1>5, <1>6, <1>7, <1>8, <2>1, <3>2
        <4>2. \A k \in 1 .. Len(linked) : linked[k] # logging[d].entry
          BY Zenon, <1>1, <4>1 DEF LinkedOnce
        <4>3. ASSUME NEW u \in LogCpus, Linking(u)', u # d
              PROVE  logging'[u].entry # logging[d].entry
          <5>1. CASE u = c
            BY Zenon, <1>4, <1>5, <4>1, <5>1
          <5>2. CASE u # c
            BY Zenon, <1>1, <1>5, <1>7, <4>1, <4>3, <5>2 DEF LinkedOnce
          <5> QED BY Zenon, <5>1, <5>2
        <4> QED BY Zenon, <4>1, <4>2, <4>3
      <3> QED BY Zenon, <3>1, <3>2
    <2>2. \A j, k \in 1 .. Len(linked) : linked[j] = linked[k] => j = k
      BY Zenon, <1>1 DEF LinkedOnce
    <2> QED BY Zenon, <1>1, <2>1, <2>2 DEF LinkedOnce
  <1>11. ASSUME ~ overrun' PROVE ItemsHold'
    <2>1. /\ ~ overrun
          /\ \A d \in LogCpus : Linking(d) => ItemOf(logging[d].entry) # i
      BY Zenon, <1>1, <1>11 DEF TakeItem, Linking
    <2>2. ItemsHold
      BY Zenon, <2>1 DEF TraceInv
    <2>3. ASSUME NEW d \in LogCpus, Linking(d)' PROVE HoldsPending(d)'
      <3>1. CASE d = c
        <4>1. Recent(N + 1)'
          BY <1>1 DEF Recent, TraceOK
        <4>2. "load" # "swap"
          OBVIOUS
        <4>3. /\ logging'[d].entry = N + 1 /\ logging'[d].pc = "load"
              /\ LOGS'[ItemOf(N + 1)].addr = N + 1
          BY Zenon, <1>4, <1>5, <3>1
        <4> QED BY Zenon, <4>1, <4>2, <4>3 DEF HoldsPending, Recent
      <3>2. CASE d # c
        <4>1. Linking(d) /\ logging'[d] = logging[d]
          BY Zenon, <1>5, <1>7, <2>3, <3>2
        <4>2. PICK e : e = logging[d].entry
          OBVIOUS
        <4>3. EntryNumber(e) /\ Recent(e) /\ ItemOf(e) # i /\ e \in Nat \ {0}
          BY Zenon, <1>6, <1>8, <2>1, <2>2, <4>1, <4>2 DEF ItemsHold, HoldsPending
        <4>4. Recent(e)'
          <5>1. e + LogEntries # N + 1
            BY Zenon, <4>3, ItemsApart
          <5>2. LogEntries \in Nat /\ N - e < LogEntries /\ e \in Nat
            BY <1>0, <4>3 DEF Recent, TraceOK
          <5>3. N + 1 - e < LogEntries
            BY <1>1, <5>1, <5>2
          <5> QED BY <1>1, <4>3, <5>3 DEF Recent
        <4>5. LOGS'[ItemOf(e)] = LOGS[ItemOf(e)]
          BY Zenon, <1>5, <4>3, ItemsApart
        <4>6. /\ LOGS[ItemOf(e)].addr = e
              /\ logging[d].pc = "swap" => LOGS[ItemOf(e)].prev = logging[d].prev
          BY Zenon, <2>2, <4>1, <4>2 DEF ItemsHold, HoldsPending
        <4> QED BY Zenon, <4>1, <4>2, <4>4, <4>5, <4>6 DEF HoldsPending, Recent
      <3> QED BY Zenon, <3>1, <3>2
    <2>4. ASSUME NEW k \in 1 .. Len(linked) PROVE HoldsLinked(k)'
      <3>1. PICK e : e = linked[k]
        OBVIOUS
      <3>2. EntryNumber(e) /\ e \in Nat \ {0} /\ e < N + 1
        BY Zenon, <1>6, <1>8, <3>1
      <3>3. ASSUME Recent(e)'
            PROVE  Recent(e) /\ LOGS'[ItemOf(e)] = LOGS[ItemOf(e)]
        <4>1. N + 1 - e < LogEntries
          BY <1>1, <3>2, <3>3 DEF Recent
        <4>2. N - e < LogEntries
          BY <3>2, <4>1 DEF TraceOK
        <4>3. ItemOf(e) # i /\ ItemOf(e) \in Items
          BY <1>1, <3>2, <4>1, ItemsApart
        <4> QED BY <1>0, <1>5, <4>2, <4>3 DEF Recent
      <3>4. HoldsLinked(k)
        BY Zenon, <2>2 DEF ItemsHold
      <3> QED BY Zenon, <1>1, <3>1, <3>3, <3>4 DEF HoldsLinked, Recent
    <2> QED BY Zenon, <1>1, <2>3, <2>4 DEF ItemsHold
  <1> QED BY Zenon, <1>9, <1>10, <1>11 DEF TraceInv

\* It links the item to the head.
LEMMA LoadHeadStep ==
    ASSUME TraceOK, TraceInv, NEW c \in LogCpus, LoadHead(c)
    PROVE  TraceInv'
  <1>1. /\ TraceTypes /\ LinkedOnce /\ logging[c].pc = "load"
        /\ UNCHANGED <<TRACE, NUM_TRACE_ENTRIES, linked, overrun>>
    BY Zenon DEF TraceInv, LoadHead
  <1>2. PICK r \in LoggingType : r = logging[c]
    BY Zenon, <1>1 DEF TraceTypes
  <1>3. PICK e : e = r.entry
    OBVIOUS
  <1>4. Linking(c) /\ EntryNumber(e) /\ e \in Nat \ {0}
    <2>1. "load" # "run"
      OBVIOUS
    <2> QED BY Zenon, <1>1, <1>2, <1>3, <2>1 DEF TraceTypes, Linking, EntryNumber
  <1> DEFINE i == ItemOf(e)
             x == [r EXCEPT !.pc = "swap", !.prev = TRACE]
             y == [LOGS[i] EXCEPT !.prev = TRACE]
  <1>5. i \in Items /\ LOGS[i] \in ItemType /\ TRACE \in Heads
    BY Zenon, <1>1, <1>4, ItemsApart, HeadType DEF TraceTypes
  <1>6. LOGS' = [LOGS EXCEPT ![i] = y] /\ logging' = [logging EXCEPT ![c] = x]
    BY Zenon, <1>1, <1>2, <1>3 DEF LoadHead, TraceTypes
  <1>7. /\ x \in LoggingType /\ x.pc = "swap" /\ x.entry = e /\ x.prev = TRACE
        /\ y \in ItemType /\ y.addr = LOGS[i].addr /\ y.prev = TRACE
    BY Zenon, <1>2, <1>3, <1>5 DEF LoggingType, ItemType
  <1> HIDE DEF x, y
  <1>8. /\ LOGS' \in [Items -> ItemType] /\ LOGS'[i] = y
        /\ \A j \in Items \ {i} : LOGS'[j] = LOGS[j]
        /\ logging' \in [LogCpus -> LoggingType] /\ logging'[c] = x
        /\ \A d \in LogCpus \ {c} : logging'[d] = logging[d]
    BY Zenon, <1>1, <1>5, <1>6, <1>7 DEF TraceTypes
  <1>9. \A d \in LogCpus : /\ Linking(d)' <=> Linking(d)
                           /\ logging'[d].entry = logging[d].entry
    <2>1. "swap" # "run"
      OBVIOUS
    <2> QED BY Zenon, <1>2, <1>3, <1>4, <1>7, <1>8, <2>1 DEF Linking
  <1>10. TraceTypes'
    <2>1. \A k \in 1 .. Len(linked) : linked[k] \in Nat \ {0} /\ linked[k] <= NUM_TRACE_ENTRIES
      BY Zenon, <1>1 DEF TraceTypes, EntryNumber
    <2>2. \A d \in LogCpus : Linking(d)' =>
             logging'[d].entry \in Nat \ {0} /\ logging'[d].entry <= NUM_TRACE_ENTRIES
      BY Zenon, <1>1, <1>9 DEF TraceTypes, EntryNumber
    <2>3. /\ NUM_TRACE_ENTRIES' \in Nat /\ linked' \in Seq(Nat)
          /\ TRACE' = IF Len(linked') = 0 THEN 0 ELSE ItemOf(linked'[1])
      BY Zenon, <1>1 DEF TraceTypes
    <2> QED BY Zenon, <1>1, <1>8, <2>1, <2>2, <2>3 DEF TraceTypes, EntryNumber
  <1>11. LinkedOnce'
    BY Zenon, <1>1, <1>9 DEF LinkedOnce
  <1>12. ASSUME ~ overrun' PROVE ItemsHold'
    <2>1. ItemsHold
      BY Zenon, <1>1, <1>12 DEF TraceInv
    <2>2. Recent(e) /\ LOGS[i].addr = e
      BY Zenon, <1>2, <1>3, <1>4, <2>1 DEF ItemsHold, HoldsPending
    <2>3. ASSUME NEW o, EntryNumber(o), Recent(o), o # e
          PROVE  LOGS'[ItemOf(o)] = LOGS[ItemOf(o)]
      <3>1. ItemOf(o) # i
        BY Zenon, <1>1, <1>4, <2>2, <2>3, RecentApart
      <3>2. o \in Nat \ {0}
        BY Zenon, <2>3 DEF EntryNumber
      <3>3. ItemOf(o) \in Items
        BY Zenon, <3>2, ItemsApart
      <3> QED BY Zenon, <1>8, <3>1, <3>3
    <2>4. ASSUME NEW d \in LogCpus, Linking(d)' PROVE HoldsPending(d)'
      <3>1. CASE d = c
        <4>1. /\ logging'[d].entry = e /\ logging'[d].prev = TRACE
              /\ LOGS'[ItemOf(e)].addr = e /\ LOGS'[ItemOf(e)].prev = TRACE
          BY Zenon, <1>7, <1>8, <2>2, <3>1
        <4> QED BY Zenon, <1>1, <2>2, <4>1 DEF HoldsPending, Recent
      <3>2. CASE d # c
        <4>1. Linking(d) /\ logging'[d] = logging[d]
          BY Zenon, <1>8, <1>9, <2>4, <3>2
        <4>2. PICK o : o = logging[d].entry
          OBVIOUS
        <4>3. EntryNumber(o) /\ Recent(o) /\ o # e
          BY Zenon, <1>1, <1>2, <1>3, <1>4, <2>1, <3>2, <4>1, <4>2
          DEF TraceTypes, ItemsHold, HoldsPending, LinkedOnce
        <4>4. LOGS'[ItemOf(o)] = LOGS[ItemOf(o)]
          BY Zenon, <2>3, <4>3
        <4>5. HoldsPending(d)
          BY Zenon, <2>1, <4>1 DEF ItemsHold
        <4> QED BY Zenon, <1>1, <4>1, <4>2, <4>4, <4>5 DEF HoldsPending, Recent
      <3> QED BY Zenon, <3>1, <3>2
    <2>5. ASSUME NEW k \in 1 .. Len(linked) PROVE HoldsLinked(k)'
      <3>1. EntryNumber(linked[k]) /\ linked[k] # e
        BY Zenon, <1>1, <1>2, <1>3, <1>4 DEF TraceTypes, LinkedOnce
      <3>2. Recent(linked[k]) => LOGS'[ItemOf(linked[k])] = LOGS[ItemOf(linked[k])]
        BY Zenon, <2>3, <3>1
      <3>3. HoldsLinked(k)
        BY Zenon, <2>1 DEF ItemsHold
      <3> QED BY Zenon, <1>1, <3>2, <3>3 DEF HoldsLinked, Recent
    <2> QED BY Zenon, <1>1, <2>4, <2>5 DEF ItemsHold
  <1> QED BY Zenon, <1>10, <1>11, <1>12 DEF TraceInv

\* The item becomes the head, or the CPU tries again.
LEMMA SwapHeadStep ==
    ASSUME TraceOK, TraceInv, NEW c \in LogCpus, SwapHead(c)
    PROVE  TraceInv'
  <1>1. /\ TraceTypes /\ LinkedOnce /\ logging[c].pc = "swap"
        /\ UNCHANGED <<NUM_TRACE_ENTRIES, LOGS, overrun>>
    BY Zenon DEF TraceInv, SwapHead
  <1>2. PICK r \in LoggingType : r = logging[c]
    BY Zenon, <1>1 DEF TraceTypes
  <1>3. PICK e : e = r.entry
    OBVIOUS
  <1>4. Linking(c) /\ EntryNumber(e) /\ e \in Nat \ {0} /\ e <= NUM_TRACE_ENTRIES
    <2>1. "swap" # "run"
      OBVIOUS
    <2> QED BY Zenon, <1>1, <1>2, <1>3, <2>1 DEF TraceTypes, Linking, EntryNumber
  <1>5. ASSUME NEW p \in {"run", "load"}, logging' = [logging EXCEPT ![c].pc = p]
        PROVE  /\ logging' \in [LogCpus -> LoggingType] /\ logging'[c].pc = p
               /\ logging'[c].entry = e
               /\ \A d \in LogCpus \ {c} : logging'[d] = logging[d]
    <2> DEFINE x == [r EXCEPT !.pc = p]
    <2>1. logging' = [logging EXCEPT ![c] = x]
      BY <1>1, <1>2, <1>5 DEF TraceTypes
    <2>2. x \in LoggingType /\ x.pc = p /\ x.entry = e
      BY <1>2, <1>3 DEF LoggingType
    <2> HIDE DEF x
    <2> QED BY Zenon, <1>1, <2>1, <2>2 DEF TraceTypes
  <1>6. \A k \in 1 .. Len(linked) : linked[k] \in Nat \ {0} /\ linked[k] <= NUM_TRACE_ENTRIES
    BY Zenon, <1>1 DEF TraceTypes, EntryNumber
  <1>7. CASE /\ logging' = [logging EXCEPT ![c].pc = "load"] /\ UNCHANGED <<TRACE, linked>>
    <2>1. /\ logging' \in [LogCpus -> LoggingType] /\ logging'[c].pc = "load"
          /\ logging'[c].entry = e
          /\ \A d \in LogCpus \ {c} : logging'[d] = logging[d]
      BY <1>5, <1>7
    <2>2. \A d \in LogCpus : /\ Linking(d)' <=> Linking(d)
                             /\ logging'[d].entry = logging[d].entry
      <3>1. "load" # "run"
        OBVIOUS
      <3> QED BY Zenon, <1>2, <1>3, <1>4, <2>1, <3>1 DEF Linking
    <2>3. TraceTypes'
      <3>1. \A d \in LogCpus : Linking(d)' =>
               logging'[d].entry \in Nat \ {0} /\ logging'[d].entry <= NUM_TRACE_ENTRIES
        BY Zenon, <1>1, <2>2 DEF TraceTypes, EntryNumber
      <3> QED BY Zenon, <1>1, <1>6, <1>7, <2>1, <3>1 DEF TraceTypes, EntryNumber
    <2>4. LinkedOnce'
      BY ZenonT(60), <1>1, <1>7, <2>2 DEF LinkedOnce
    <2>5. ASSUME ~ overrun' PROVE ItemsHold'
      <3>1. ItemsHold
        BY Zenon, <1>1, <2>5 DEF TraceInv
      <3>2. ASSUME NEW d \in LogCpus, Linking(d)' PROVE HoldsPending(d)'
        <4>1. HoldsPending(d) /\ logging'[d].entry = logging[d].entry
          BY Zenon, <2>2, <3>1, <3>2 DEF ItemsHold
        <4>2. logging'[d].pc = "swap" => logging'[d] = logging[d]
          <5>1. "load" # "swap"
            OBVIOUS
          <5> QED BY Zenon, <2>1, <5>1
        <4> QED BY Zenon, <1>1, <4>1, <4>2 DEF HoldsPending, Recent
      <3>3. \A k \in 1 .. Len(linked) : HoldsLinked(k)'
        BY Zenon, <1>1, <1>7, <3>1 DEF ItemsHold, HoldsLinked, Recent
      <3> QED BY Zenon, <1>7, <3>2, <3>3 DEF ItemsHold
    <2> QED BY Zenon, <2>3, <2>4, <2>5 DEF TraceInv
  <1>8. CASE /\ TRACE = logging[c].prev
             /\ TRACE' = ItemOf(logging[c].entry)
             /\ linked' = <<logging[c].entry>> \o linked
             /\ logging' = [logging EXCEPT ![c].pc = "run"]
    <2>1. /\ logging' \in [LogCpus -> LoggingType] /\ logging'[c].pc = "run"
          /\ logging'[c].entry = e
          /\ \A d \in LogCpus \ {c} : logging'[d] = logging[d]
      BY <1>5, <1>8
    <2>2. PICK l \in Seq(Nat) : l = linked
      BY Zenon, <1>1 DEF TraceTypes
    <2>3. /\ linked' \in Seq(Nat) /\ Len(linked') = Len(l) + 1 /\ linked'[1] = e /\ Len(l) \in Nat
          /\ \A k \in 1 .. Len(l) : k + 1 \in 1 .. Len(linked') /\ linked'[k + 1] = l[k]
      BY SMTT(60), <1>2, <1>3, <1>4, <1>8, <2>2
    <2>4. ASSUME NEW k \in 1 .. Len(linked')
          PROVE  k = 1 \/ \E j \in 1 .. Len(l) : k = j + 1
      <3>1. k # 1 => k - 1 \in 1 .. Len(l) /\ k = (k - 1) + 1
        BY <2>3
      <3> QED BY Zenon, <3>1
    <2>10. ASSUME NEW k \in 1 .. Len(linked')
           PROVE  \/ k = 1 /\ linked'[k] = e
                  \/ \E j \in 1 .. Len(l) : k = j + 1 /\ linked'[k] = l[j]
      <3>1. CASE k = 1
        BY Zenon, <2>3, <3>1
      <3>2. CASE k # 1
        <4>1. PICK j \in 1 .. Len(l) : k = j + 1
          BY Zenon, <2>4, <3>2
        <4>2. linked'[k] = l[j]
          BY Zenon, <2>3, <4>1
        <4> QED BY Zenon, <4>1, <4>2
      <3> QED BY Zenon, <3>1, <3>2
    <2>5. \A d \in LogCpus : /\ Linking(d)' <=> Linking(d) /\ d # c
                             /\ logging'[d].entry = logging[d].entry
      BY Zenon, <1>2, <1>3, <1>4, <2>1 DEF Linking
    <2>6. TraceTypes'
      <3>1. \A d \in LogCpus : Linking(d)' =>
               logging'[d].entry \in Nat \ {0} /\ logging'[d].entry <= NUM_TRACE_ENTRIES
        BY Zenon, <1>1, <2>5 DEF TraceTypes, EntryNumber
      <3>2. \A k \in 1 .. Len(linked') : linked'[k] \in Nat \ {0} /\ linked'[k] <= NUM_TRACE_ENTRIES
        BY Zenon, <1>4, <1>6, <2>2, <2>10
      <3>3. Len(linked') # 0
        BY <2>3
      <3>4. TRACE' = ItemOf(linked'[1])
        BY Zenon, <1>2, <1>3, <1>8, <2>3
      <3> QED BY Zenon, <1>1, <2>1, <2>3, <3>1, <3>2, <3>3, <3>4 DEF TraceTypes, EntryNumber
    <2>7. \A k \in 1 .. Len(l) : l[k] # e
      BY Zenon, <1>1, <1>2, <1>3, <1>4, <2>2 DEF LinkedOnce
    <2>8. LinkedOnce'
      <3>1. ASSUME NEW j \in 1 .. Len(linked'), NEW k \in 1 .. Len(linked'), linked'[j] = linked'[k]
            PROVE  j = k
        <4>1. \A m, n \in 1 .. Len(l) : l[m] = l[n] => m = n
          BY Zenon, <1>1, <2>2 DEF LinkedOnce
        <4>2. CASE j = 1
          <5>1. linked'[k] = e
            BY Zenon, <2>3, <3>1, <4>2
          <5> QED BY Zenon, <2>7, <2>10, <4>2, <5>1
        <4>3. CASE j # 1
          <5>1. PICK m \in 1 .. Len(l) : j = m + 1 /\ linked'[j] = l[m]
            BY Zenon, <2>10, <4>3
          <5>2. PICK n \in 1 .. Len(l) : k = n + 1 /\ linked'[k] = l[n]
            BY Zenon, <2>7, <2>10, <3>1, <5>1
          <5> QED BY Zenon, <3>1, <4>1, <5>1, <5>2
        <4> QED BY Zenon, <4>2, <4>3
      <3>2. ASSUME NEW d \in LogCpus, Linking(d)'
            PROVE  /\ \A k \in 1 .. Len(linked') : linked'[k] # logging'[d].entry
                   /\ \A u \in LogCpus : Linking(u)' /\ u # d => logging'[u].entry # logging'[d].entry
        <4>1. Linking(d) /\ d # c /\ logging'[d].entry = logging[d].entry
          BY Zenon, <2>5, <3>2
        <4>2. /\ logging[d].entry # e /\ \A k \in 1 .. Len(l) : l[k] # logging[d].entry
              /\ \A u \in LogCpus : Linking(u) /\ u # d => logging[u].entry # logging[d].entry
          BY Zenon, <1>1, <1>2, <1>3, <1>4, <2>2, <4>1 DEF LinkedOnce
        <4>3. \A k \in 1 .. Len(linked') : linked'[k] # logging[d].entry
          BY Zenon, <2>10, <4>2
        <4> QED BY Zenon, <2>5, <4>1, <4>2, <4>3
      <3> QED BY Zenon, <3>1, <3>2 DEF LinkedOnce
    <2>9. ASSUME ~ overrun' PROVE ItemsHold'
      <3>1. ItemsHold
        BY Zenon, <1>1, <2>9 DEF TraceInv
      <3>2. ASSUME NEW d \in LogCpus, Linking(d)' PROVE HoldsPending(d)'
        <4>1. HoldsPending(d) /\ logging'[d] = logging[d]
          BY Zenon, <2>1, <2>5, <3>1, <3>2 DEF ItemsHold
        <4> QED BY Zenon, <1>1, <4>1 DEF HoldsPending, Recent
      <3>3. HoldsPending(c)
        BY Zenon, <1>4, <3>1 DEF ItemsHold
      <3>4. ASSUME NEW k \in 1 .. Len(linked') PROVE HoldsLinked(k)'
        <4>1. CASE k = 1
          <5>1. /\ LOGS[ItemOf(e)].addr = e /\ LOGS[ItemOf(e)].prev = TRACE
            BY Zenon, <1>1, <1>2, <1>3, <1>8, <3>3 DEF HoldsPending
          <5>2. TRACE = IF 1 = Len(linked') THEN 0 ELSE ItemOf(linked'[1 + 1])
            <6>1. CASE Len(l) = 0
              BY <1>1, <2>2, <2>3, <6>1 DEF TraceTypes
            <6>2. CASE Len(l) # 0
              <7>1. 1 \in 1 .. Len(l) /\ 1 # Len(linked')
                BY <2>3, <6>2
              <7>2. linked'[1 + 1] = l[1]
                BY Zenon, <2>3, <7>1
              <7> QED BY Zenon, <1>1, <2>2, <6>2, <7>1, <7>2 DEF TraceTypes
            <6> QED BY Zenon, <6>1, <6>2
          <5> QED BY Zenon, <1>1, <2>3, <4>1, <5>1, <5>2 DEF HoldsLinked
        <4>2. CASE k # 1
          <5>1. PICK j \in 1 .. Len(l) : k = j + 1
            BY Zenon, <2>4, <4>2
          <5>2. HoldsLinked(j) /\ linked'[k] = l[j]
            BY Zenon, <2>2, <2>3, <3>1, <5>1 DEF ItemsHold
          <5>3. /\ k = Len(linked') <=> j = Len(l)
                /\ j # Len(l) => j + 1 \in 1 .. Len(l)
            BY SMTT(60), <2>3, <5>1
          <5>4. j # Len(l) => linked'[k + 1] = l[j + 1]
            BY Zenon, <2>3, <5>1, <5>3
          <5> QED BY Zenon, <1>1, <2>2, <5>2, <5>3, <5>4 DEF HoldsLinked, Recent
        <4> QED BY Zenon, <4>1, <4>2
      <3> QED BY Zenon, <3>2, <3>4 DEF ItemsHold
    <2> QED BY Zenon, <2>6, <2>8, <2>9 DEF TraceInv
  <1> QED BY Zenon, <1>7, <1>8 DEF SwapHead

\* The invariant holds at the start, and every step keeps it.
LEMMA TraceInvariant == ASSUME TraceOK PROVE TraceSpec => []TraceInv
  <1>1. ASSUME TraceInit PROVE TraceInv
    <2>1. Len(linked) = 0 /\ linked \in Seq(Nat) /\ \A k \in 1 .. Len(linked) : FALSE
      BY <1>1 DEF TraceInit
    <2>2. \A c \in LogCpus : ~ Linking(c)
      BY <1>1 DEF TraceInit, Linking
    <2>3. /\ LOGS \in [Items -> ItemType] /\ logging \in [LogCpus -> LoggingType]
          /\ NUM_TRACE_ENTRIES \in Nat /\ TRACE = 0
      <3>1. 0 \in Heads
        BY DEF Heads, TraceOK
      <3> QED BY <1>1, <3>1 DEF TraceInit, ItemType, LoggingType
    <2> QED BY Zenon, <2>1, <2>2, <2>3 DEF TraceInv, TraceTypes, LinkedOnce, ItemsHold
  <1>2. ASSUME TraceInv, [TraceNext]_traceVars PROVE TraceInv'
    <2>1. CASE UNCHANGED traceVars
      BY ZenonT(60), <1>2, <2>1 DEF traceVars, TraceInv, TraceTypes, LinkedOnce, ItemsHold, Linking,
                               Recent, EntryNumber, HoldsPending, HoldsLinked
    <2>2. CASE TraceNext
      BY Zenon, <1>2, <2>2, TakeItemStep, LoadHeadStep, SwapHeadStep DEF TraceNext
    <2> QED BY Zenon, <1>2, <2>1, <2>2
  <1>3. TraceInit => TraceInv
    BY Zenon, <1>1
  <1>4. TraceInv /\ [TraceNext]_traceVars => TraceInv'
    BY Zenon, <1>2
  <1> QED BY <1>3, <1>4, PTL DEF TraceSpec


\* The items that a reader of the log comes to.
LEMMA ItemAfterIs ==
    ASSUME TraceOK, TraceTypes
    PROVE  /\ ItemAfter[0] = TRACE
           /\ \A k \in Nat : ItemAfter[k + 1] =
                 IF ItemAfter[k] = 0 THEN 0 ELSE LOGS[ItemAfter[k]].prev
  <1> DEFINE g(h) == IF h = 0 THEN 0 ELSE LOGS[h].prev
             G == [k \in Nat |-> [h \in Heads |-> g(h)]]
             Body(f) == [k \in Nat |->
                 IF k = 0 THEN TRACE
                 ELSE LET item == f[k - 1] IN IF item = 0 THEN 0 ELSE LOGS[item].prev]
  <1>1. ASSUME NEW h \in Heads PROVE g(h) \in Heads
    <2>1. CASE h = 0
      BY Zenon, <2>1
    <2>2. CASE h # 0
      <3>1. h \in Items
        BY <2>2 DEF Heads, Items, TraceOK
      <3>2. LOGS[h] \in ItemType
        BY Zenon, <3>1 DEF TraceTypes
      <3>3. LOGS[h].prev \in Heads
        BY <3>2 DEF ItemType
      <3> QED BY Zenon, <2>2, <3>3
    <2> QED BY Zenon, <2>1, <2>2
  <1>2. TRACE \in Heads
    BY Zenon, HeadType
  <1> HIDE DEF g
  <1>3. G \in [Nat -> [Heads -> Heads]]
    BY Zenon, <1>1
  <1> HIDE DEF G
  <1>4. PICK F \in [Nat -> Heads] : F[0] = TRACE /\ \A n \in Nat \ {0} : F[n] = G[n][F[n - 1]]
    <2>1. HasSolution(Heads, TRACE, G)
      BY Zenon, <1>2, <1>3, RecursionExists
    <2> QED BY Zenon, <2>1 DEF HasSolution
  <1>5. ASSUME NEW n \in Nat \ {0} PROVE F[n] = g(F[n - 1])
    <2>1. n - 1 \in Nat
      OBVIOUS
    <2>2. F[n - 1] \in Heads
      BY Zenon, <2>1
    <2> QED BY Zenon, <1>4, <2>2 DEF G
  <1>6. F = Body(F)
    <2>1. F = [n \in Nat |-> F[n]]
      BY Zenon
    <2>2. ASSUME NEW k \in Nat
          PROVE  F[k] = IF k = 0 THEN TRACE
                        ELSE LET item == F[k - 1] IN IF item = 0 THEN 0 ELSE LOGS[item].prev
      BY Zenon, <1>4, <1>5 DEF g
    <2> QED BY Zenon, <2>1, <2>2
  <1>7. ItemAfter = Body(ItemAfter)
    <2>1. ItemAfter = CHOOSE f : f = Body(f)
      BY Zenon DEF ItemAfter
    <2> HIDE DEF Body
    <2> QED BY Zenon, <1>6, <2>1
  <1>8. ASSUME NEW k \in Nat
        PROVE  ItemAfter[k] = IF k = 0 THEN TRACE
                              ELSE IF ItemAfter[k - 1] = 0 THEN 0 ELSE LOGS[ItemAfter[k - 1]].prev
    BY Zenon, <1>7
  <1>9. ASSUME NEW k \in Nat PROVE k + 1 \in Nat /\ k + 1 # 0 /\ (k + 1) - 1 = k
    OBVIOUS
  <1>10. 0 \in Nat
    OBVIOUS
  <1>11. ASSUME NEW k \in Nat
         PROVE  ItemAfter[k + 1] = IF ItemAfter[k] = 0 THEN 0 ELSE LOGS[ItemAfter[k]].prev
    BY Zenon, <1>8, <1>9
  <1> QED BY Zenon, <1>8, <1>10, <1>11

\* As far as items have not been taken again, the reader comes to the items of the
\* entries that were linked.
LEMMA ReaderSees ==
    ASSUME TraceOK, TraceTypes, ItemsHold, NEW n \in 0 .. Len(linked),
           \A j \in 1 .. n : Recent(linked[j]), NEW k \in 0 .. n
    PROVE  ItemAfter[k] = IF k < Len(linked) THEN ItemOf(linked[k + 1]) ELSE 0
  <1> DEFINE Item(i) == IF i < Len(linked) THEN ItemOf(linked[i + 1]) ELSE 0
             Bad == {i \in 0 .. n : ItemAfter[i] # Item(i)}
  <1>0. Len(linked) \in Nat /\ n \in Nat
    BY DEF TraceTypes
  <1> SUFFICES ASSUME Bad # {} PROVE FALSE
    OBVIOUS
  <1>1. PICK i \in Bad : \A j \in Bad : i <= j
    <2>1. Bad \in SUBSET Nat
      BY <1>0
    <2> HIDE DEF Bad
    <2> QED BY Zenon, <2>1, Smallest
  <1>2. CASE i = 0
    <2>1. ItemAfter[0] = TRACE
      BY Zenon, ItemAfterIs
    <2>2. TRACE = Item(0)
      <3>1. (Len(linked) = 0 <=> ~ (0 < Len(linked))) /\ 0 + 1 = 1
        BY <1>0
      <3> QED BY Zenon, <3>1 DEF TraceTypes
    <2> QED BY Zenon, <1>1, <1>2, <2>1, <2>2
  <1>3. CASE i # 0
    <2>1. /\ i \in 1 .. n /\ i - 1 \in 0 .. n /\ i - 1 \in Nat /\ ~ (i <= i - 1)
          /\ (i - 1) + 1 = i /\ i - 1 < Len(linked) /\ i \in 1 .. Len(linked)
          /\ (i < Len(linked) <=> i # Len(linked))
      BY <1>0, <1>1, <1>3
    <2>2. ItemAfter[i - 1] = ItemOf(linked[i])
      <3>1. ItemAfter[i - 1] = Item(i - 1)
        BY Zenon, <1>1, <2>1
      <3> QED BY Zenon, <2>1, <3>1
    <2>3. linked[i] \in Nat \ {0}
      BY Zenon, <2>1 DEF TraceTypes, EntryNumber
    <2>4. ItemOf(linked[i]) # 0
      <3>1. ItemOf(linked[i]) \in Items
        BY Zenon, <2>3, ItemsApart
      <3> QED BY <3>1 DEF Items, TraceOK
    <2>5. ItemAfter[(i - 1) + 1] = LOGS[ItemOf(linked[i])].prev
      BY Zenon, <2>1, <2>2, <2>4, ItemAfterIs
    <2>6. LOGS[ItemOf(linked[i])].prev = IF i = Len(linked) THEN 0 ELSE ItemOf(linked[i + 1])
      BY Zenon, <2>1 DEF ItemsHold, HoldsLinked
    <2>7. ItemAfter[i] = Item(i)
      BY Zenon, <2>1, <2>5, <2>6
    <2> QED BY Zenon, <1>1, <2>7
  <1> QED BY Zenon, <1>2, <1>3

\* So it sees those entries.
LEMMA ShownIs ==
    ASSUME TraceOK, TraceTypes, ItemsHold, NEW n \in 0 .. Len(linked),
           \A j \in 1 .. n : Recent(linked[j])
    PROVE  Shown(n) = SubSeq(linked, 1, n)
  <1>0. Len(linked) \in Nat /\ n \in Nat /\ linked \in Seq(Nat)
    BY DEF TraceTypes
  <1>1. ASSUME NEW k \in 1 .. n
        PROVE  ItemAfter[k - 1] # 0 /\ LOGS[ItemAfter[k - 1]].addr = linked[k]
    <2>1. /\ k - 1 \in 0 .. n /\ k - 1 < Len(linked) /\ (k - 1) + 1 = k /\ k \in 1 .. Len(linked)
      BY <1>0
    <2>2. ItemAfter[k - 1] = ItemOf(linked[k])
      BY Zenon, <2>1, ReaderSees
    <2>3. linked[k] \in Nat \ {0}
      BY Zenon, <2>1 DEF TraceTypes, EntryNumber
    <2>4. ItemOf(linked[k]) # 0
      <3>1. ItemOf(linked[k]) \in Items
        BY Zenon, <2>3, ItemsApart
      <3> QED BY <3>1 DEF Items, TraceOK
    <2>5. LOGS[ItemOf(linked[k])].addr = linked[k]
      BY Zenon, <2>1 DEF ItemsHold, HoldsLinked
    <2> QED BY Zenon, <2>2, <2>4, <2>5
  <1>2. {i \in 1 .. n : ItemAfter[i - 1] # 0} = 1 .. n
    BY Zenon, <1>1
  <1>3. Shown(n) = [k \in 1 .. n |-> LOGS[ItemAfter[k - 1]].addr]
    BY Zenon, <1>2 DEF Shown
  <1>4. Shown(n) = [k \in 1 .. n |-> linked[k]]
    BY Zenon, <1>1, <1>3
  <1>5. SubSeq(linked, 1, n) = [k \in 1 .. n |-> linked[k]]
    BY <1>0
  <1> QED BY Zenon, <1>4, <1>5

\* The log of executed blocks (trace_log.cc) shows them, latest first, back to the
\* first whose item has been taken again, however the CPUs interleave: unless the
\* ring overran a CPU that was still linking its item.
THEOREM LogStaysRight == ASSUME TraceOK PROVE TraceSpec => []LogIsRight
  <1>1. ASSUME TraceInv PROVE LogIsRight
    <2> DEFINE n == IF Kept = {} THEN 0 ELSE CHOOSE k \in Kept : \A j \in Kept : j <= k
    <2> SUFFICES ASSUME ~ overrun PROVE Shown(n) = SubSeq(linked, 1, n)
      BY Zenon DEF LogIsRight
    <2>1. TraceTypes /\ ItemsHold
      BY Zenon, <1>1 DEF TraceInv
    <2>2. Len(linked) \in Nat /\ DOMAIN linked = 1 .. Len(linked)
      BY <2>1 DEF TraceTypes
    <2>3. Kept # {} => \E k \in Kept : \A j \in Kept : j <= k
      <3> SUFFICES ASSUME Kept # {} PROVE \E k \in Kept : \A j \in Kept : j <= k
        OBVIOUS
      <3> DEFINE From == {Len(linked) - k : k \in Kept}
      <3>1. From \in SUBSET Nat /\ From # {}
        BY <2>2 DEF Kept
      <3> HIDE DEF From
      <3>2. PICK d \in From : \A e \in From : d <= e
        BY Zenon, <3>1, Smallest
      <3>3. PICK k \in Kept : d = Len(linked) - k
        BY Zenon DEF From
      <3>4. ASSUME NEW j \in Kept PROVE j <= k
        <4>1. Len(linked) - k <= Len(linked) - j
          BY Zenon, <3>2, <3>3 DEF From
        <4>2. k \in Nat /\ j \in Nat
          BY <2>2 DEF Kept
        <4> QED BY <2>2, <4>1, <4>2
      <3> QED BY Zenon, <3>4
    <2>4. n = 0 \/ n \in Kept
      BY Zenon, <2>3
    <2> HIDE DEF n
    <2>5. n \in 0 .. Len(linked) /\ \A j \in 1 .. n : Recent(linked[j])
      BY <2>2, <2>4 DEF Kept, Recent
    <2> QED BY Zenon, <2>1, <2>5, ShownIs
  <1>2. TraceInv => LogIsRight
    BY Zenon, <1>1
  <1>3. TraceSpec => []TraceInv
    BY Zenon, TraceInvariant
  <1> QED BY <1>2, <1>3, PTL
=============================================================================
