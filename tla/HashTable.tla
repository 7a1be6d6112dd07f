------------------------------ MODULE HashTable -----------------------------
(***************************************************************************)
(* The hash table of Granary (hash_table.h) and its locked version, which  *)
(* holds the code cache and the dynamic wrappers.  A table grows when too  *)
(* many entries are in it, and when an entry is too far away from where    *)
(* its hash says; growing copies the entries one at a time.                *)
(***************************************************************************)
EXTENDS LinearProbing, Sequences

CONSTANTS
    Threads,       \* The CPUs.
    Operations,    \* load, store with HASH_OVERWRITE_PREV_ENTRY ("overwrite")
                   \* and with HASH_KEEP_PREV_ENTRY ("keep").
    Before,        \* The entries that were stored before, in their order.
    DefaultScale,  \* DEFAULT_SCALE_FACTOR
    MaxScan,       \* MAX_SCAN_SCALE_FACTOR
    MaxScale       \* Bound on the size of a table.

None == "none"

\* What is stored, and the default value.
Values ==
    {o.value : o \in Operations} \cup {Before[i].value : i \in DOMAIN Before} \cup {NoValue}

Entries == [key : Keys, value : Values] \cup {Empty}

\* What is assumed of the constants. The locked tables hold addresses: the default
\* value is never stored.
TableOK ==
    /\ HashOK
    /\ Operations \subseteq [kind : {"load", "overwrite", "keep"}, key : Keys, value : Values]
    /\ \A o \in Operations : o.kind # "load" => o.value # NoValue
    /\ Before \in Seq([key : Keys, value : Values \ {NoValue}])
    /\ DefaultScale \in Nat /\ MaxScan \in Nat /\ MaxScale \in Nat
    /\ None \notin Threads

VARIABLES
    tableLock,   \* locked_hash_table::lock: its owner or None.
    slots,       \* table_.entry_slots
    numEntries,  \* table_.num_entries
    scale,       \* table_.scaling_factor
    old,         \* old_slots, while the table grows.
    index,       \* i, in the loop of grow.
    tablePc,     \* What each CPU does next.
    op,          \* Its operation.
    result       \* What that returns.

tableVars == <<tableLock, slots, numEntries, scale, old, index, tablePc, op, result>>

NoOp == [kind |-> "none"]
Written == "written"
Skipped == "skipped"

\* hash_table.cc: LOAD_FACTOR, of a table of 2^s slots.
MaxEntries(s) == (3 * 2^s) \div 4

\* The slots after the first n of those entries, which are too few and too near
\* to their hashes to make the table grow.
Filled[n \in Nat] ==
    IF n = 0 THEN Fresh(2^DefaultScale)
    ELSE Put(Filled[n - 1], Before[n].key, Before[n].value)

\* What is assumed of the sizes: a table of the default size has a quarter of its
\* slots to spare when it is full.
SizesOK ==
    /\ DefaultScale <= MaxScale
    /\ 2^DefaultScale > 4
    /\ Len(Before) <= MaxEntries(DefaultScale) + 1

\* Arithmetic: powers of two up to 2^m.
PowersOK(m) == \A s \in 0 .. m : 2^s \in Nat /\ 2^(s + 1) = 2 * 2^s

TableInit ==
    /\ tableLock = None
    /\ slots = Filled[Len(Before)]
    /\ numEntries = Len(Before)
    /\ scale = DefaultScale
    /\ old = <<>>
    /\ index = 0
    /\ tablePc = [c \in Threads |-> "idle"]
    /\ op = [c \in Threads |-> NoOp]
    /\ result = [c \in Threads |-> NoValue]

Goto(c, from, to) ==
    /\ tablePc[c] = from
    /\ tablePc' = [tablePc EXCEPT ![c] = to]

Invoke(c) ==
    /\ Goto(c, "idle", "lock")
    /\ \E o \in Operations : op' = [op EXCEPT ![c] = o]
    /\ UNCHANGED <<tableLock, slots, numEntries, scale, old, index, result>>

\* A load does not take the lock.
Lock_StoresOnly(c) ==
    /\ op[c].kind = "load" \/ tableLock = None
    /\ Goto(c, "lock", IF op[c].kind = "load" THEN "load" ELSE "store")
    /\ tableLock' = IF op[c].kind = "load" THEN tableLock ELSE c
    /\ UNCHANGED <<slots, numEntries, scale, old, index, op, result>>

Lock(c) ==
    /\ tableLock = None
    /\ Goto(c, "lock", IF op[c].kind = "load" THEN "load" ELSE "store")
    /\ tableLock' = c
    /\ UNCHANGED <<slots, numEntries, scale, old, index, op, result>>

Load(c) ==
    /\ Goto(c, "load", "unlock")
    /\ result' = [result EXCEPT ![c] = Find(slots, op[c].key)]
    /\ UNCHANGED <<tableLock, slots, numEntries, scale, old, index, op>>

-----------------------------------------------------------------------------
(* grow.                                                                   *)

\* table becomes the old slots of a table that is twice as big.
Grow(table) ==
    /\ scale < MaxScale
    /\ old' = table
    /\ slots' = Fresh(2 * NumSlots(table))
    /\ scale' = scale + 1
    /\ index' = 0

Growing(c) == tablePc[c] \in {"grow", "regrow"}

\* The entry stays in its slot.
Transfer_SameSlot(c) ==
    /\ Growing(c) /\ index \in DOMAIN old
    /\ slots' = [slots EXCEPT ![index] = old[index]]
    /\ index' = index + 1
    /\ UNCHANGED <<tableLock, numEntries, scale, old, tablePc, op, result>>

\* The next of the old entries is inserted.
Transfer(c) ==
    /\ Growing(c) /\ index \in DOMAIN old
    /\ slots' = IF old[index].key = NoKey THEN slots
                ELSE Put(slots, old[index].key, old[index].value)
    /\ index' = index + 1
    /\ UNCHANGED <<tableLock, numEntries, scale, old, tablePc, op, result>>

\* The old slots are freed.
Grown(c) ==
    /\ Growing(c) /\ index \notin DOMAIN old
    /\ tablePc' = [tablePc EXCEPT ![c] = IF @ = "grow" THEN "insert" ELSE "unlock"]
    /\ old' = <<>>
    /\ index' = 0
    /\ UNCHANGED <<tableLock, slots, numEntries, scale, op, result>>

-----------------------------------------------------------------------------
(* store.                                                                  *)

\* The table is too full: it grows before anything is inserted.
StoreFull(c) ==
    /\ tablePc[c] = "store" /\ numEntries > MaxEntries(scale)
    /\ Goto(c, "store", "grow")
    /\ Grow(slots)
    /\ UNCHANGED <<tableLock, numEntries, op, result>>

Store(c) ==
    /\ tablePc[c] = "store" /\ numEntries <= MaxEntries(scale)
    /\ Goto(c, "store", "insert")
    /\ UNCHANGED <<tableLock, slots, numEntries, scale, old, index, op, result>>

\* What insert writes: a new entry, or over the old one if it may.
Writes(o) == ~Has(slots, o.key) \/ o.kind = "overwrite"

Inserted(o) == IF Writes(o) THEN Put(slots, o.key, o.value) ELSE slots

\* insert, and what store makes of its result.
Insert(c) ==
    LET o == op[c]
        far == MaxScan < Scan(slots, o.key)
    IN  /\ Goto(c, "insert", IF far THEN "regrow" ELSE "unlock")
        /\ numEntries' = IF Has(slots, o.key) THEN numEntries ELSE numEntries + 1
        /\ result' = [result EXCEPT ![c] = IF Writes(o) THEN Written ELSE Skipped]
        /\ IF far THEN Grow(Inserted(o))
           ELSE slots' = Inserted(o) /\ UNCHANGED <<scale, old, index>>
        /\ UNCHANGED <<tableLock, op>>

Unlock(c) ==
    /\ Goto(c, "unlock", "idle")
    /\ tableLock' = None
    /\ result' = [result EXCEPT ![c] = NoValue]
    /\ op' = [op EXCEPT ![c] = NoOp]
    /\ UNCHANGED <<slots, numEntries, scale, old, index>>

-----------------------------------------------------------------------------
TableWork(c) ==
    \/ Lock(c) \/ Load(c) \/ Transfer(c) \/ Grown(c)
    \/ StoreFull(c) \/ Store(c) \/ Insert(c) \/ Unlock(c)

TableNext == \E c \in Threads : Invoke(c) \/ TableWork(c)

TableSpec == TableInit /\ [][TableNext]_tableVars

-----------------------------------------------------------------------------
(* Properties.                                                             *)

\* The table has 2^scale slots, and while it grows the old one is half as big.
TableTypeOK ==
    /\ tableLock \in Threads \cup {None}
    /\ scale \in DefaultScale .. MaxScale
    /\ slots \in [0 .. 2^scale - 1 -> Entries]
    /\ numEntries \in Nat
    /\ old = <<>> \/ old \in [0 .. 2^(scale - 1) - 1 -> Entries]
    /\ index \in 0 .. NumSlots(slots)
    /\ tablePc \in [Threads -> {"idle", "lock", "load", "grow", "regrow", "store", "insert",
                        "unlock"}]
    /\ op \in [Threads -> Operations \cup {NoOp}]
    /\ result \in [Threads -> Values \cup {Written, Skipped}]

\* Every entry is where find looks for it: the slots from its hash to it are
\* in use, by other keys.  Growing keeps this at every step.
EntriesAreReachable ==
    \A i \in DOMAIN slots : slots[i].key # NoKey =>
        /\ Position(slots, slots[i].key) = i
        /\ \A j \in DOMAIN slots : slots[j].key = slots[i].key => i = j

\* The table is never full: the loops of find and insert, which have no other
\* end, stop at an empty slot.
ProbesEnd == \E i \in DOMAIN slots : slots[i].key = NoKey

\* Both, and the types: what was stored is found by the probes of a lookup, which
\* end, before, while and after the table grows.
StoredIsFound == TableTypeOK /\ EntriesAreReachable /\ ProbesEnd

Content(table, k) ==
    IF \E v \in Values : Holds(table, k, v) THEN CHOOSE v \in Values : Holds(table, k, v)
    ELSE NoValue

\* The value of a key, of the table or of the one that it grows from.
ValueOf(k) ==
    IF \E v \in Values : Holds(slots, k, v) THEN Content(slots, k) ELSE Content(old, k)

Phase(c) ==
    IF tablePc[c] = "idle" THEN "idle"
    ELSE IF tablePc[c] \in {"unlock", "regrow"} THEN "done" ELSE "called"

Map == INSTANCE AtomicMap
          WITH Cpus <- Threads, Null <- NoValue,
               Initial <- [k \in Keys |-> Find(Filled[Len(Before)], k)],
               map <- [k \in Keys |-> ValueOf(k)],
               phase <- [c \in Threads |-> Phase(c)]

\* Loads and stores are atomic, whatever grows meanwhile: this is what the
\* code cache relies on.
ImplementsMap == Map!Spec

=============================================================================
