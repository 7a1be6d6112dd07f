-------------------------- MODULE HashTableProofs ---------------------------
(***************************************************************************)
(* Proofs about HashTable: for any keys and hashes, operations and CPUs,   *)
(* and tables of any size, what is stored is found while and after a table *)
(* grows, and load and store of the locked table are those of a map.       *)
(***************************************************************************)
EXTENDS HashTable, Induction, FiniteSetTheorems, TLAPS

-----------------------------------------------------------------------------
(* The invariant.                                                          *)

\* A table of n slots.
Table(t, n) == n \in Nat \ {0} /\ t \in [0 .. n - 1 -> Entries]

\* A search for a key that is in the table ends at it.
Reachable(t) == \A i \in DOMAIN t : t[i].key # NoKey => Position(t, t[i].key) = i

\* No entry has the default value.
Stored(t) == \A i \in DOMAIN t : t[i].key # NoKey => t[i].value # NoValue

\* The slots that have an entry.
Occupied(t) == {i \in DOMAIN t : t[i].key # NoKey}

\* There is an empty slot.
HasRoom(t) == \E i \in DOMAIN t : t[i].key = NoKey

\* A table of n slots, and how many entries it has at most.
WellFormed(t, n, max) ==
    Table(t, n) /\ Reachable(t) /\ Stored(t) /\ Cardinality(Occupied(t)) <= max

\* Where a CPU has the lock.
Inside == {"load", "store", "insert", "grow", "regrow", "unlock"}

\* A CPU is in the loop of grow.
IsGrowing == \E c \in Threads : Growing(c)

\* The first i entries of a table are those of another.
Moved(t, from, i) ==
    /\ \A s \in DOMAIN t :
          t[s].key # NoKey => \E j \in DOMAIN from : j < i /\ t[s] = from[j]
    /\ \A j \in DOMAIN from :
          j < i /\ from[j].key # NoKey => Holds(t, from[j].key, from[j].value)

\* The calls: a CPU that is inside has the lock, and an operation that fits.
CallsOK ==
    /\ tableLock \in Threads \cup {None}
    /\ tablePc \in [Threads -> {"idle", "lock"} \cup Inside]
    /\ op \in [Threads -> Operations \cup {NoOp}]
    /\ result \in [Threads -> Values \cup {Written, Skipped}]
    /\ \A c \in Threads :
          /\ tablePc[c] \in Inside => tableLock = c
          /\ tablePc[c] # "idle" => op[c] \in Operations
          /\ tablePc[c] = "load" => op[c].kind = "load"
          /\ tablePc[c] \in {"store", "insert", "grow", "regrow"} => op[c].kind # "load"

\* The slots: well formed, and with fewer entries than the bound of store when
\* insert runs.
SlotsOK ==
    /\ scale \in DefaultScale .. MaxScale /\ 2^scale > 4 /\ numEntries \in Nat
    /\ WellFormed(slots, 2^scale, numEntries)
    /\ numEntries <= MaxEntries(scale) + 1
    /\ \A c \in Threads :
          tablePc[c] \in {"insert", "grow", "regrow"} => numEntries <= MaxEntries(scale)

\* During grow: the old slots are well formed, and index entries were moved.
OldOK ==
    IF IsGrowing
    THEN /\ scale - 1 \in DefaultScale .. MaxScale
         /\ WellFormed(old, 2^(scale - 1), numEntries)
         /\ index \in 0 .. 2^(scale - 1)
         /\ Moved(slots, old, index)
    ELSE old = <<>> /\ index = 0

\* The inductive invariant.
TableInv == CallsOK /\ SlotsOK /\ OldOK

-----------------------------------------------------------------------------
(* The probe sequence.                                                     *)

\* A probe of find and insert looks at a slot of the table.
LEMMA SlotRange ==
    ASSUME HashOK, NEW k \in Keys, NEW n \in Nat \ {0}, NEW d \in Nat
    PROVE  Slot(k, d, n) \in 0 .. n - 1
  BY DEF HashOK, Slot

\* The first n probes of find and insert look at different slots
LEMMA SlotOnce ==
    ASSUME HashOK, NEW k \in Keys, NEW n \in Nat \ {0}, NEW d \in 0 .. n - 1, NEW e \in 0 .. n - 1,
           Slot(k, d, n) = Slot(k, e, n)
    PROVE  d = e
  <1> DEFINE r == Hash[k] % n
  <1>1. Hash[k] \in Nat /\ r \in 0 .. n - 1
    BY DEF HashOK
  <1>2. Slot(k, d, n) = IF r + d < n THEN r + d ELSE r + d - n
    BY Zenon, <1>1, ModAdd DEF Slot
  <1>3. Slot(k, e, n) = IF r + e < n THEN r + e ELSE r + e - n
    BY Zenon, <1>1, ModAdd DEF Slot
  <1>4. (IF r + d < n THEN r + d ELSE r + d - n) = (IF r + e < n THEN r + e ELSE r + e - n)
    BY Zenon, <1>2, <1>3
  <1> HIDE DEF r
  <1> QED BY <1>1, <1>4

\* and so at every slot.
LEMMA SlotAll ==
    ASSUME HashOK, NEW k \in Keys, NEW n \in Nat \ {0}, NEW i \in 0 .. n - 1
    PROVE  \E d \in 0 .. n - 1 : Slot(k, d, n) = i
  <1> DEFINE r == Hash[k] % n
             d == IF r <= i THEN i - r ELSE i - r + n
  <1>1. Hash[k] \in Nat /\ r \in 0 .. n - 1
    BY DEF HashOK
  <1>2. d \in 0 .. n - 1
    <2> HIDE DEF r
    <2> QED BY <1>1
  <1>3. Slot(k, d, n) = IF r + d < n THEN r + d ELSE r + d - n
    <2> HIDE DEF d
    <2> QED BY Zenon, <1>1, <1>2, ModAdd DEF Slot
  <1>4. (IF r + d < n THEN r + d ELSE r + d - n) = i
    <2> HIDE DEF r
    <2> QED BY <1>1
  <1> QED BY Zenon, <1>2, <1>3, <1>4

-----------------------------------------------------------------------------
(* Tables.                                                                 *)

\* The search for k stops at the slot i.
StopsAt(t, k, i) == t[i].key \in {NoKey, k}

\* What the slots of a table are.
LEMMA TableFacts ==
    ASSUME NEW n, NEW t, Table(t, n)
    PROVE  /\ DOMAIN t = 0 .. n - 1 /\ NumSlots(t) = n /\ n \in Nat \ {0}
           /\ \A i \in 0 .. n - 1 : t[i] \in Entries
  <1>1. DOMAIN t = 0 .. n - 1 /\ n \in Nat \ {0} /\ \A i \in 0 .. n - 1 : t[i] \in Entries
    BY Zenon DEF Table
  <1>2. Cardinality(0 .. n - 1) = n
    BY <1>1, FS_Interval
  <1> QED BY Zenon, <1>1, <1>2 DEF NumSlots

\* A slot of a table is empty, or has a key and its value.
LEMMA EntryFacts ==
    ASSUME HashOK, NEW e \in Entries
    PROVE  /\ e.key # NoKey => e.key \in Keys /\ e.value \in Values /\ e = [key |-> e.key, value |-> e.value]
           /\ e.key = NoKey => e = Empty
  BY DEF Entries, Empty, HashOK

\* find and insert: a search that can stop stops at the first slot where it can.
LEMMA ScanStops ==
    ASSUME HashOK, NEW n, NEW t, Table(t, n), NEW k \in Keys, HasRoom(t) \/ Contains(t, k)
    PROVE  /\ Scan(t, k) \in 0 .. n - 1 /\ Position(t, k) = Slot(k, Scan(t, k), n)
           /\ Position(t, k) \in 0 .. n - 1
           /\ StopsAt(t, k, Position(t, k))
           /\ \A e \in 0 .. n - 1 : StopsAt(t, k, Slot(k, e, n)) => Scan(t, k) <= e
  <1>1. DOMAIN t = 0 .. n - 1 /\ NumSlots(t) = n /\ n \in Nat \ {0}
    BY Zenon, TableFacts
  <1> DEFINE S == {d \in 0 .. n - 1 : StopsAt(t, k, Slot(k, d, n))}
  <1>2. Stops(t, k) = S
    BY Zenon, <1>1 DEF Stops, StopsAt
  <1>3. PICK i \in 0 .. n - 1 : StopsAt(t, k, i)
    BY Zenon, <1>1 DEF HasRoom, Contains, StopsAt
  <1>4. PICK d \in 0 .. n - 1 : Slot(k, d, n) = i
    BY Zenon, <1>1, SlotAll
  <1>5. S # {} /\ S \in SUBSET Nat
    BY <1>1, <1>3, <1>4
  <1>6. \E x \in S : \A e \in S : x <= e
    <2> HIDE DEF S
    <2> QED BY Zenon, <1>5, Smallest
  <1>7. Scan(t, k) \in S /\ \A e \in S : Scan(t, k) <= e
    <2> HIDE DEF S
    <2> QED BY Zenon, <1>2, <1>6 DEF Scan
  <1>8. Position(t, k) = Slot(k, Scan(t, k), n)
    BY Zenon, <1>1 DEF Position
  <1>9. Scan(t, k) \in 0 .. n - 1 /\ StopsAt(t, k, Slot(k, Scan(t, k), n))
    BY Zenon, <1>7
  <1>10. Slot(k, Scan(t, k), n) \in 0 .. n - 1
    BY <1>1, <1>9, SlotRange
  <1> QED BY Zenon, <1>7, <1>8, <1>9, <1>10

\* find and insert: the first slot where a search can stop is where it stops.
LEMMA ScanIs ==
    ASSUME HashOK, NEW n, NEW t, Table(t, n), NEW k \in Keys, NEW d \in 0 .. n - 1,
           StopsAt(t, k, Slot(k, d, n)),
           \A e \in 0 .. n - 1 : StopsAt(t, k, Slot(k, e, n)) => d <= e
    PROVE  Position(t, k) = Slot(k, d, n)
  <1>1. DOMAIN t = 0 .. n - 1 /\ NumSlots(t) = n /\ n \in Nat \ {0}
    BY Zenon, TableFacts
  <1>2. Slot(k, d, n) \in 0 .. n - 1
    BY <1>1, SlotRange
  <1>3. HasRoom(t) \/ Contains(t, k)
    BY Zenon, <1>1, <1>2 DEF StopsAt, HasRoom, Contains
  <1>4. /\ Scan(t, k) \in 0 .. n - 1 /\ Position(t, k) = Slot(k, Scan(t, k), n)
        /\ StopsAt(t, k, Position(t, k))
        /\ \A e \in 0 .. n - 1 : StopsAt(t, k, Slot(k, e, n)) => Scan(t, k) <= e
    BY Zenon, <1>3, ScanStops
  <1>5. Scan(t, k) <= d /\ d <= Scan(t, k)
    BY Zenon, <1>4
  <1> QED BY <1>1, <1>4, <1>5

\* insert changes one slot: an empty one, or the one of the key.
LEMMA PutChanges ==
    ASSUME HashOK, NEW n, NEW t, Table(t, n), Reachable(t), HasRoom(t), NEW k \in Keys, NEW v \in Values
    PROVE  /\ Table(Put(t, k, v), n)
           /\ Position(t, k) \in 0 .. n - 1
           /\ t[Position(t, k)].key \in {NoKey, k}
           /\ Put(t, k, v)[Position(t, k)] = [key |-> k, value |-> v]
           /\ \A i \in 0 .. n - 1 :
                 i # Position(t, k) => Put(t, k, v)[i] = t[i] /\ t[i].key # k
  <1> DEFINE p == Position(t, k)
  <1>1. DOMAIN t = 0 .. n - 1 /\ n \in Nat \ {0} /\ t \in [0 .. n - 1 -> Entries]
    BY Zenon, TableFacts DEF Table
  <1>2. p \in 0 .. n - 1 /\ StopsAt(t, k, p)
    BY Zenon, ScanStops
  <1>3. [key |-> k, value |-> v] \in Entries
    BY Zenon DEF Entries
  <1>4. Put(t, k, v) = [t EXCEPT ![p] = [key |-> k, value |-> v]]
    BY Zenon DEF Put
  <1>5. \A i \in 0 .. n - 1 : t[i].key = k => i = p
    BY Zenon, <1>1 DEF Reachable, HashOK
  <1> HIDE DEF p
  <1>6. /\ Put(t, k, v) \in [0 .. n - 1 -> Entries]
        /\ Put(t, k, v)[p] = [key |-> k, value |-> v]
        /\ \A i \in 0 .. n - 1 : i # p => Put(t, k, v)[i] = t[i]
    BY Zenon, <1>1, <1>2, <1>3, <1>4
  <1>7. Table(Put(t, k, v), n)
    BY Zenon, <1>1, <1>6 DEF Table
  <1> QED BY Zenon, <1>2, <1>5, <1>6, <1>7 DEF p, StopsAt

\* insert leaves every key where a search for it ends: no entry moves, and a slot
\* that was empty and is filled is not where a search for another key had stopped
\* at that key.
LEMMA PutReachable ==
    ASSUME HashOK, NEW n, NEW t, Table(t, n), Reachable(t), HasRoom(t), NEW k \in Keys, NEW v \in Values
    PROVE  Reachable(Put(t, k, v))
  <1> DEFINE p == Position(t, k)
             u == Put(t, k, v)
  <1>0. /\ Table(u, n) /\ p \in 0 .. n - 1 /\ t[p].key \in {NoKey, k}
        /\ u[p] = [key |-> k, value |-> v]
        /\ \A i \in 0 .. n - 1 : i # p => u[i] = t[i] /\ t[i].key # k
    BY PutChanges
  <1>1. /\ Table(u, n) /\ p \in 0 .. n - 1 /\ t[p].key \in {NoKey, k} /\ u[p].key = k
        /\ \A i \in 0 .. n - 1 : i # p => u[i] = t[i] /\ t[i].key # k
    <2> HIDE DEF u, p
    <2> QED BY <1>0
  <1>2. /\ DOMAIN t = 0 .. n - 1 /\ DOMAIN u = 0 .. n - 1 /\ n \in Nat \ {0}
        /\ \A i \in 0 .. n - 1 : t[i] \in Entries /\ u[i] \in Entries
    BY Zenon, <1>1, TableFacts
  <1> SUFFICES ASSUME NEW i \in 0 .. n - 1, u[i].key # NoKey PROVE Position(u, u[i].key) = i
    BY Zenon, <1>2 DEF Reachable
  <1> DEFINE q == u[i].key
  <1>3. q \in Keys
    BY Zenon, <1>2, EntryFacts
  <1>4. HasRoom(t) => /\ Scan(t, q) \in 0 .. n - 1 /\ Position(t, q) = Slot(q, Scan(t, q), n)
                      /\ \A e \in 0 .. n - 1 : StopsAt(t, q, Slot(q, e, n)) => Scan(t, q) <= e
    BY Zenon, <1>3, ScanStops
  <1>5. Position(t, q) = i
    <2>1. CASE i = p
      BY Zenon, <1>1, <2>1
    <2>2. CASE i # p
      BY Zenon, <1>1, <1>2, <2>2 DEF Reachable
    <2> QED BY Zenon, <2>1, <2>2
  <1>6. Slot(q, Scan(t, q), n) = i
    BY Zenon, <1>4, <1>5
  <1>7. StopsAt(u, q, i)
    BY Zenon DEF StopsAt
  <1>8. ASSUME NEW e \in 0 .. n - 1, StopsAt(u, q, Slot(q, e, n)) PROVE Scan(t, q) <= e
    <2>1. Slot(q, e, n) \in 0 .. n - 1
      <3>1. n \in Nat \ {0} /\ q \in Keys /\ e \in Nat
        BY <1>2, <1>3
      <3> HIDE DEF q
      <3> QED BY <3>1, SlotRange, Zenon
    <2>2. CASE Slot(q, e, n) # p
      <3>1. StopsAt(t, q, Slot(q, e, n))
        BY Zenon, <1>1, <1>8, <2>1, <2>2 DEF StopsAt
      <3> QED BY Zenon, <1>4, <3>1
    <2>3. CASE Slot(q, e, n) = p
      <3>1. q = k
        BY Zenon, <1>1, <1>8, <2>3 DEF StopsAt, HashOK
      <3>2. i = p
        BY Zenon, <1>1, <1>2, <3>1
      <3>3. e = Scan(t, q)
        BY Zenon, <1>2, <1>3, <1>4, <1>6, <2>3, <3>2, SlotOnce
      <3> QED BY <1>4, <3>3
    <2> QED BY Zenon, <2>2, <2>3
  <1> HIDE DEF u, p
  <1> QED BY <1>1, <1>3, <1>4, <1>6, <1>7, <1>8, ScanIs

\* insert changes what the table holds for one key.
LEMMA PutHolds ==
    ASSUME HashOK, NEW n, NEW t, Table(t, n), Reachable(t), HasRoom(t), NEW k \in Keys, NEW v \in Values
    PROVE  /\ \A w : Holds(Put(t, k, v), k, w) <=> w = v
           /\ \A j \in Keys \ {k} : \A w : Holds(Put(t, k, v), j, w) <=> Holds(t, j, w)
  <1> DEFINE p == Position(t, k)
             u == Put(t, k, v)
  <1>1. /\ Table(u, n) /\ p \in 0 .. n - 1 /\ t[p].key \in {NoKey, k}
        /\ u[p] = [key |-> k, value |-> v]
        /\ \A i \in 0 .. n - 1 : i # p => u[i] = t[i] /\ t[i].key # k
    BY PutChanges
  <1>2. DOMAIN t = 0 .. n - 1 /\ DOMAIN u = 0 .. n - 1
    BY Zenon, <1>1, TableFacts
  <1> HIDE DEF u, p
  <1>3. \A w : Holds(u, k, w) <=> w = v
    <2>1. ASSUME NEW w, Holds(u, k, w) PROVE w = v
      <3>1. PICK i \in 0 .. n - 1 : u[i] = [key |-> k, value |-> w]
        BY Zenon, <1>2, <2>1 DEF Holds
      <3>2. u[i].key = k /\ u[i].value = w
        BY <3>1
      <3>3. i = p
        BY Zenon, <1>1, <3>2
      <3> QED BY <1>1, <3>2, <3>3
    <2>2. Holds(u, k, v)
      BY Zenon, <1>1, <1>2 DEF Holds
    <2> QED BY Zenon, <2>1, <2>2
  <1>4. ASSUME NEW j \in Keys \ {k}, NEW w PROVE Holds(u, j, w) <=> Holds(t, j, w)
    <2>1. ASSUME NEW i \in 0 .. n - 1, u[i] = [key |-> j, value |-> w] PROVE t[i] = [key |-> j, value |-> w]
      <3>1. u[i].key = j
        BY <2>1
      <3> QED BY <1>1, <2>1, <3>1
    <2>2. ASSUME NEW i \in 0 .. n - 1, t[i] = [key |-> j, value |-> w] PROVE u[i] = [key |-> j, value |-> w]
      <3>1. t[i].key = j
        BY <2>2
      <3> QED BY Zenon, <1>1, <2>2, <3>1 DEF HashOK
    <2> QED BY Zenon, <1>2, <2>1, <2>2 DEF Holds
  <1> QED BY Zenon, <1>3, <1>4 DEF u

\* find returns what the table holds for a key.
LEMMA FindIs ==
    ASSUME HashOK, NEW n, NEW t, Table(t, n), Reachable(t), HasRoom(t), NEW k \in Keys
    PROVE  /\ Has(t, k) <=> Contains(t, k)
           /\ Has(t, k) => /\ t[Position(t, k)].value \in Values
                           /\ \A w : Holds(t, k, w) <=> w = t[Position(t, k)].value
           /\ ~ Has(t, k) => \A w : ~ Holds(t, k, w)
  <1> DEFINE p == Position(t, k)
  <1>1. /\ DOMAIN t = 0 .. n - 1 /\ \A i \in 0 .. n - 1 : t[i] \in Entries
    BY Zenon, TableFacts
  <1>2. p \in 0 .. n - 1
    BY Zenon, ScanStops
  <1>3. \A i \in 0 .. n - 1 : t[i].key = k => i = p
    BY Zenon, <1>1 DEF Reachable, HashOK
  <1>4. Has(t, k) <=> t[p].key = k
    BY Zenon DEF Has
  <1> HIDE DEF p
  <1>5. Has(t, k) <=> Contains(t, k)
    BY Zenon, <1>1, <1>2, <1>3, <1>4 DEF Contains
  <1>6. \A w : Holds(t, k, w) => Contains(t, k)
    BY DEF Holds, Contains
  <1>7. ASSUME Has(t, k) PROVE t[p].value \in Values /\ \A w : Holds(t, k, w) <=> w = t[p].value
    <2>1. t[p].key = k /\ k # NoKey
      BY Zenon, <1>4, <1>7 DEF HashOK
    <2>2. t[p].value \in Values /\ t[p] = [key |-> k, value |-> t[p].value]
      BY Zenon, <1>1, <1>2, <2>1, EntryFacts
    <2>3. Holds(t, k, t[p].value)
      BY Zenon, <1>1, <1>2, <2>2 DEF Holds
    <2>4. ASSUME NEW w, Holds(t, k, w) PROVE w = t[p].value
      <3>1. PICK i \in 0 .. n - 1 : t[i] = [key |-> k, value |-> w]
        BY Zenon, <1>1, <2>4 DEF Holds
      <3>2. t[i].key = k /\ t[i].value = w
        BY <3>1
      <3> QED BY Zenon, <1>3, <3>2
    <2> QED BY Zenon, <2>2, <2>3, <2>4
  <1> QED BY Zenon, <1>5, <1>6, <1>7 DEF p

\* The entries of a table can be counted, and there is an empty slot if they are
\* fewer than the slots.
LEMMA OccupiedFinite ==
    ASSUME NEW n, NEW t, Table(t, n)
    PROVE  /\ IsFiniteSet(Occupied(t)) /\ Cardinality(Occupied(t)) \in Nat
           /\ Cardinality(Occupied(t)) <= n
           /\ Cardinality(Occupied(t)) < n => HasRoom(t)
  <1>1. DOMAIN t = 0 .. n - 1 /\ n \in Nat \ {0}
    BY Zenon, TableFacts
  <1>2. IsFiniteSet(0 .. n - 1) /\ Cardinality(0 .. n - 1) = n
    BY <1>1, FS_Interval
  <1>3. Occupied(t) \in SUBSET (0 .. n - 1)
    BY Zenon, <1>1 DEF Occupied
  <1>4. IsFiniteSet(Occupied(t)) /\ Cardinality(Occupied(t)) <= n
    <2>1. IsFiniteSet(Occupied(t)) /\ Cardinality(Occupied(t)) <= Cardinality(0 .. n - 1)
      <3> DEFINE S == 0 .. n - 1
                 T == Occupied(t)
      <3>1. IsFiniteSet(S) /\ T \in SUBSET S
        BY Zenon, <1>2, <1>3
      <3> HIDE DEF S, T
      <3>2. IsFiniteSet(T) /\ Cardinality(T) <= Cardinality(S)
        BY Zenon, <3>1, FS_Subset
      <3> QED BY Zenon, <3>2 DEF S, T
    <2> QED BY Zenon, <1>2, <2>1
  <1>5. Cardinality(Occupied(t)) \in Nat
    BY Zenon, <1>4, FS_CardinalityType
  <1>6. ASSUME Cardinality(Occupied(t)) < n PROVE HasRoom(t)
    <2>1. Occupied(t) # 0 .. n - 1
      BY <1>1, <1>2, <1>6
    <2> QED BY Zenon, <1>1, <2>1 DEF Occupied, HasRoom
  <1> QED BY Zenon, <1>4, <1>5, <1>6

\* insert adds one entry if the key is not there, as num_entries says, and none if
\* it is.
LEMMA PutCount ==
    ASSUME HashOK, NEW n, NEW t, Table(t, n), Reachable(t), HasRoom(t), NEW k \in Keys, NEW v \in Values
    PROVE  Cardinality(Occupied(Put(t, k, v)))
             <= IF Has(t, k) THEN Cardinality(Occupied(t)) ELSE Cardinality(Occupied(t)) + 1
  <1> DEFINE p == Position(t, k)
             u == Put(t, k, v)
  <1>1. /\ Table(u, n) /\ p \in 0 .. n - 1
        /\ u[p] = [key |-> k, value |-> v]
        /\ \A i \in 0 .. n - 1 : i # p => u[i] = t[i]
    BY PutChanges
  <1>2. DOMAIN t = 0 .. n - 1 /\ DOMAIN u = 0 .. n - 1
    BY Zenon, <1>1, TableFacts
  <1>3. Has(t, k) <=> t[p].key = k
    BY Zenon DEF Has
  <1>4. IsFiniteSet(Occupied(t)) /\ Cardinality(Occupied(t)) \in Nat
    BY Zenon, OccupiedFinite
  <1> HIDE DEF u, p
  <1>5. Occupied(u) = Occupied(t) \cup {p}
    <2>1. u[p].key = k /\ k # NoKey
      BY <1>1 DEF HashOK
    <2> QED BY Zenon, <1>1, <1>2, <2>1 DEF Occupied
  <1>6. Has(t, k) => p \in Occupied(t)
    BY Zenon, <1>1, <1>2, <1>3 DEF Occupied, HashOK
  <1>7. Cardinality(Occupied(u)) = IF p \in Occupied(t) THEN Cardinality(Occupied(t))
                                   ELSE Cardinality(Occupied(t)) + 1
    BY Zenon, <1>4, <1>5, FS_AddElement
  <1> QED BY <1>4, <1>6, <1>7 DEF u

\* A table that only has entries of another one has no more of them: what grow has
\* moved is never more than num_entries.
LEMMA CountInto ==
    ASSUME NEW n, NEW t, Table(t, n), Reachable(t), NEW m, NEW u, Table(u, m),
           \A i \in Occupied(t) : \E j \in DOMAIN u : u[j] = t[i]
    PROVE  Cardinality(Occupied(t)) <= Cardinality(Occupied(u))
  <1> DEFINE f == [i \in Occupied(t) |-> CHOOSE j \in DOMAIN u : u[j] = t[i]]
  <1>1. \A i \in Occupied(t) : f[i] \in DOMAIN u /\ u[f[i]] = t[i]
    OBVIOUS
  <1>2. \A i \in Occupied(t) : f[i] \in Occupied(u)
    BY Zenon, <1>1 DEF Occupied
  <1>3. ASSUME NEW i \in Occupied(t), NEW j \in Occupied(t), f[i] = f[j] PROVE i = j
    <2>1. t[i] = t[j]
      BY Zenon, <1>1, <1>3
    <2>2. Position(t, t[i].key) = i /\ Position(t, t[j].key) = j
      BY Zenon DEF Reachable, Occupied
    <2> QED BY Zenon, <2>1, <2>2
  <1>4. f \in [Occupied(t) -> Occupied(u)]
    BY Zenon, <1>2
  <1> HIDE DEF f
  <1>5. f \in Injection(Occupied(t), Occupied(u))
    BY Zenon, <1>3, <1>4 DEF Injection, IsInjective
  <1>6. IsFiniteSet(Occupied(u))
    BY Zenon, OccupiedFinite
  <1> QED BY Zenon, <1>5, <1>6, FS_Injection

\* The slots that grow allocates are well formed and empty.
LEMMA FreshIs ==
    ASSUME NEW n \in Nat \ {0}
    PROVE  /\ Table(Fresh(n), n) /\ Reachable(Fresh(n)) /\ Stored(Fresh(n)) /\ HasRoom(Fresh(n))
           /\ Cardinality(Occupied(Fresh(n))) = 0
           /\ \A i \in DOMAIN Fresh(n) : Fresh(n)[i].key = NoKey
  <1>1. Fresh(n) \in [0 .. n - 1 -> Entries] /\ DOMAIN Fresh(n) = 0 .. n - 1
    BY Zenon DEF Fresh, Entries
  <1>2. \A i \in 0 .. n - 1 : Fresh(n)[i].key = NoKey
    BY Zenon DEF Fresh, Empty
  <1>3. Occupied(Fresh(n)) = {}
    BY Zenon, <1>1, <1>2 DEF Occupied
  <1>4. HasRoom(Fresh(n))
    <2>1. 0 \in 0 .. n - 1
      OBVIOUS
    <2> QED BY Zenon, <1>1, <1>2, <2>1 DEF HasRoom
  <1> QED BY Zenon, <1>1, <1>2, <1>3, <1>4, FS_EmptySet DEF Table, Reachable, Stored

\* insert leaves a well formed table, with num_entries counted up for a new key.
LEMMA PutWellFormed ==
    ASSUME HashOK, NEW n, NEW t, NEW max \in Nat, WellFormed(t, n, max), HasRoom(t),
           NEW k \in Keys, NEW v \in Values, v # NoValue
    PROVE  WellFormed(Put(t, k, v), n, IF Has(t, k) THEN max ELSE max + 1)
  <1> DEFINE p == Position(t, k)
             u == Put(t, k, v)
  <1>1. Table(t, n) /\ Reachable(t) /\ Stored(t) /\ Cardinality(Occupied(t)) <= max
    BY Zenon DEF WellFormed
  <1>2. /\ Table(u, n) /\ p \in 0 .. n - 1
        /\ u[p] = [key |-> k, value |-> v]
        /\ \A i \in 0 .. n - 1 : i # p => u[i] = t[i]
    BY <1>1, PutChanges
  <1>3. DOMAIN t = 0 .. n - 1 /\ DOMAIN u = 0 .. n - 1
    BY Zenon, <1>1, <1>2, TableFacts
  <1>4. Reachable(u)
    BY Zenon, <1>1, PutReachable
  <1>5. Cardinality(Occupied(u))
             <= IF Has(t, k) THEN Cardinality(Occupied(t)) ELSE Cardinality(Occupied(t)) + 1
    BY Zenon, <1>1, PutCount
  <1>6. Cardinality(Occupied(t)) \in Nat /\ Cardinality(Occupied(u)) \in Nat
    BY Zenon, <1>1, <1>2, OccupiedFinite
  <1> HIDE DEF u, p
  <1>7. Stored(u)
    <2>1. u[p].value # NoValue
      BY <1>2
    <2> QED BY Zenon, <1>1, <1>2, <1>3, <2>1 DEF Stored
  <1>8. Cardinality(Occupied(u)) <= IF Has(t, k) THEN max ELSE max + 1
    BY <1>1, <1>5, <1>6
  <1> QED BY Zenon, <1>2, <1>4, <1>7, <1>8 DEF u, WellFormed

-----------------------------------------------------------------------------
(* What a table holds.                                                     *)

\* The content of a table for a key is the value it holds,
LEMMA ContentIs ==
    ASSUME NEW t, NEW k, NEW v \in Values, \A w : Holds(t, k, w) <=> w = v
    PROVE  Content(t, k) = v
  <1> DEFINE c == CHOOSE w \in Values : Holds(t, k, w)
  <1>1. Holds(t, k, v)
    OBVIOUS
  <1>2. Holds(t, k, c)
    BY Zenon, <1>1
  <1>3. c = v
    BY Zenon, <1>2
  <1> QED BY Zenon, <1>1, <1>3 DEF Content

\* and the default value if it holds none.
LEMMA NoContent ==
    ASSUME NEW t, NEW k, \A w : ~ Holds(t, k, w)
    PROVE  Content(t, k) = NoValue
  BY Zenon DEF Content

\* Tables that hold the same have the same content.
LEMMA SameContent ==
    ASSUME NEW t, NEW u, NEW k, \A w : Holds(t, k, w) <=> Holds(u, k, w)
    PROVE  Content(t, k) = Content(u, k)
  BY Zenon DEF Content

\* find returns the content of a table, and insert finds the key in it exactly if
\* that is not the default value.
LEMMA ContentFound ==
    ASSUME HashOK, NEW n, NEW t, Table(t, n), Reachable(t), HasRoom(t), NEW k \in Keys
    PROVE  /\ Find(t, k) = Content(t, k)
           /\ Stored(t) => (Has(t, k) <=> Content(t, k) # NoValue)
           /\ Content(t, k) \in Values
  <1> DEFINE p == Position(t, k)
  <1>1. /\ Has(t, k) => t[p].value \in Values /\ \A w : Holds(t, k, w) <=> w = t[p].value
        /\ ~ Has(t, k) => \A w : ~ Holds(t, k, w)
    BY Zenon, FindIs
  <1>2. p \in DOMAIN t
    <2>1. p \in 0 .. n - 1 /\ DOMAIN t = 0 .. n - 1
      BY Zenon, ScanStops, TableFacts
    <2> QED BY Zenon, <2>1
  <1>3. Has(t, k) => t[p].key = k /\ k # NoKey
    BY Zenon DEF Has, HashOK
  <1>4. Find(t, k) = IF Has(t, k) THEN t[p].value ELSE NoValue
    BY Zenon DEF Find
  <1> HIDE DEF p
  <1>5. CASE Has(t, k)
    <2>1. Content(t, k) = t[p].value
      BY Zenon, <1>1, <1>5, ContentIs
    <2>2. Stored(t) => t[p].value # NoValue
      BY Zenon, <1>2, <1>3, <1>5 DEF Stored
    <2> QED BY Zenon, <1>1, <1>4, <1>5, <2>1, <2>2
  <1>6. CASE ~ Has(t, k)
    <2>1. Content(t, k) = NoValue
      BY Zenon, <1>1, <1>6, NoContent
    <2> QED BY Zenon, <1>4, <1>6, <2>1 DEF Values
  <1> QED BY Zenon, <1>5, <1>6

\* insert changes the content for its key only.
LEMMA PutContent ==
    ASSUME HashOK, NEW n, NEW t, Table(t, n), Reachable(t), HasRoom(t), NEW k \in Keys, NEW v \in Values
    PROVE  /\ Content(Put(t, k, v), k) = v
           /\ \A j \in Keys \ {k} : Content(Put(t, k, v), j) = Content(t, j)
  <1>1. /\ \A w : Holds(Put(t, k, v), k, w) <=> w = v
        /\ \A j \in Keys \ {k} : \A w : Holds(Put(t, k, v), j, w) <=> Holds(t, j, w)
    BY Zenon, PutHolds
  <1>2. Content(Put(t, k, v), k) = v
    BY Zenon, <1>1, ContentIs
  <1>3. ASSUME NEW j \in Keys \ {k} PROVE Content(Put(t, k, v), j) = Content(t, j)
    <2>1. \A w : Holds(Put(t, k, v), j, w) <=> Holds(t, j, w)
      BY Zenon, <1>1
    <2> QED BY Zenon, <2>1, SameContent
  <1> QED BY Zenon, <1>2, <1>3

-----------------------------------------------------------------------------
(* The table that there is at first.                                       *)

\* The first n + 1 values of Filled.
Filling(n, f) ==
    /\ f = [i \in 0 .. n |-> f[i]]
    /\ f[0] = Fresh(2^DefaultScale)
    /\ \A i \in 1 .. n : f[i] = Put(f[i - 1], Before[i].key, Before[i].value)

\* The stores before the behaviour starts can be done one after the other,
LEMMA FillingExists ==
    ASSUME NEW n \in Nat
    PROVE  \E f : Filling(n, f)
  <1> DEFINE Bad == {i \in Nat : ~ \E f : Filling(i, f)}
  <1> SUFFICES ASSUME Bad # {} PROVE FALSE
    OBVIOUS
  <1>1. Bad \in SUBSET Nat
    OBVIOUS
  <1>2. PICK m \in Bad : \A e \in Bad : m <= e
    <2> HIDE DEF Bad
    <2> QED BY Zenon, <1>1, Smallest
  <1>3. m \in Nat /\ ~ \E f : Filling(m, f)
    OBVIOUS
  <1>4. CASE m = 0
    <2> DEFINE f == [i \in 0 .. 0 |-> Fresh(2^DefaultScale)]
    <2>1. f = [i \in 0 .. 0 |-> f[i]] /\ f[0] = Fresh(2^DefaultScale) /\ 1 .. 0 = {}
      OBVIOUS
    <2> HIDE DEF f
    <2>2. Filling(0, f)
      BY Zenon, <2>1 DEF Filling
    <2> QED BY Zenon, <1>3, <1>4, <2>2
  <1>5. CASE m # 0
    <2>1. m - 1 \in Nat /\ m - 1 \notin Bad
      BY <1>2, <1>3, <1>5
    <2>2. PICK g : Filling(m - 1, g)
      BY Zenon, <2>1
    <2> DEFINE f == [i \in 0 .. m |-> IF i < m THEN g[i]
                                      ELSE Put(g[m - 1], Before[m].key, Before[m].value)]
    <2>3. /\ f = [i \in 0 .. m |-> f[i]]
          /\ \A i \in 0 .. m - 1 : f[i] = g[i]
          /\ f[m] = Put(g[m - 1], Before[m].key, Before[m].value)
      BY <1>3
    <2> HIDE DEF f
    <2>4. g[0] = Fresh(2^DefaultScale) /\ \A i \in 1 .. m - 1 : g[i] = Put(g[i - 1], Before[i].key, Before[i].value)
      BY Zenon, <2>2 DEF Filling
    <2>5. f[0] = Fresh(2^DefaultScale)
      <3>1. 0 \in 0 .. m - 1
        BY <1>3, <1>5
      <3> QED BY Zenon, <2>3, <2>4, <3>1
    <2>6. ASSUME NEW i \in 1 .. m PROVE f[i] = Put(f[i - 1], Before[i].key, Before[i].value)
      <3>1. CASE i = m
        <4>1. m - 1 \in 0 .. m - 1
          BY <1>3, <1>5
        <4>2. f[m - 1] = g[m - 1]
          BY Zenon, <2>3, <4>1
        <4> QED BY Zenon, <2>3, <3>1, <4>2
      <3>2. CASE i # m
        <4>1. i \in 0 .. m - 1 /\ i - 1 \in 0 .. m - 1 /\ i \in 1 .. m - 1
          BY <1>3, <3>2
        <4>2. f[i] = g[i] /\ f[i - 1] = g[i - 1]
          BY Zenon, <2>3, <4>1
        <4> QED BY Zenon, <2>4, <4>1, <4>2
      <3> QED BY Zenon, <3>1, <3>2
    <2>7. Filling(m, f)
      BY Zenon, <2>3, <2>5, <2>6 DEF Filling
    <2> QED BY Zenon, <1>3, <2>7
  <1> QED BY Zenon, <1>4, <1>5

\* and in one way.
LEMMA FillingUnique ==
    ASSUME NEW n \in Nat, NEW m \in Nat, NEW f, NEW g, Filling(n, f), Filling(m, g),
           NEW i \in 0 .. n, i <= m
    PROVE  f[i] = g[i]
  <1> DEFINE Bad == {j \in 0 .. n : j <= m /\ f[j] # g[j]}
  <1> SUFFICES ASSUME Bad # {} PROVE FALSE
    OBVIOUS
  <1>1. Bad \in SUBSET Nat
    OBVIOUS
  <1>2. PICK j \in Bad : \A e \in Bad : j <= e
    <2> HIDE DEF Bad
    <2> QED BY Zenon, <1>1, Smallest
  <1>3. j \in 0 .. n /\ j <= m /\ f[j] # g[j]
    OBVIOUS
  <1>4. f[0] = g[0]
    BY Zenon DEF Filling
  <1>5. j \in 1 .. n /\ j \in 1 .. m /\ j - 1 \in 0 .. n /\ j - 1 <= m
    BY <1>3, <1>4
  <1>6. f[j - 1] = g[j - 1]
    BY <1>2, <1>5
  <1>7. f[j] = Put(f[j - 1], Before[j].key, Before[j].value)
    BY Zenon, <1>5 DEF Filling
  <1>8. g[j] = Put(g[j - 1], Before[j].key, Before[j].value)
    BY Zenon, <1>5 DEF Filling
  <1> QED BY Zenon, <1>3, <1>6, <1>7, <1>8

\* The table that there is at first is what its recursive definition says: insert,
\* once for each entry that was stored before.
LEMMA FilledIs ==
    /\ Filled[0] = Fresh(2^DefaultScale)
    /\ \A n \in Nat : Filled[n + 1] = Put(Filled[n], Before[n + 1].key, Before[n + 1].value)
  <1> DEFINE of(n) == CHOOSE f : Filling(n, f)
             F == [n \in Nat |-> of(n)[n]]
             Body(f) == [n \in Nat |-> IF n = 0 THEN Fresh(2^DefaultScale)
                                       ELSE Put(f[n - 1], Before[n].key, Before[n].value)]
  <1>1. \A n \in Nat : Filling(n, of(n))
    BY Zenon, FillingExists
  <1> HIDE DEF of
  <1>2. F[0] = Fresh(2^DefaultScale)
    <2>1. of(0)[0] = Fresh(2^DefaultScale)
      BY Zenon, <1>1 DEF Filling
    <2> QED BY Zenon, <2>1
  <1>3. ASSUME NEW n \in Nat \ {0} PROVE F[n] = Put(F[n - 1], Before[n].key, Before[n].value)
    <2>1. n \in 1 .. n /\ n - 1 \in Nat /\ n - 1 \in 0 .. n /\ n - 1 <= n - 1
      OBVIOUS
    <2>2. of(n)[n] = Put(of(n)[n - 1], Before[n].key, Before[n].value)
      BY Zenon, <1>1, <2>1 DEF Filling
    <2>3. of(n)[n - 1] = of(n - 1)[n - 1]
      BY <1>1, <2>1, FillingUnique
    <2>4. F[n] = of(n)[n] /\ F[n - 1] = of(n - 1)[n - 1]
      BY Zenon, <2>1
    <2> QED BY Zenon, <2>2, <2>3, <2>4
  <1> HIDE DEF F
  <1>4. F = Body(F)
    <2>1. F = [n \in Nat |-> F[n]]
      BY Zenon DEF F
    <2>2. \A n \in Nat : F[n] = IF n = 0 THEN Fresh(2^DefaultScale)
                                ELSE Put(F[n - 1], Before[n].key, Before[n].value)
      BY Zenon, <1>2, <1>3
    <2> QED BY Zenon, <2>1, <2>2
  <1>5. Filled = CHOOSE f : f = Body(f)
    BY Zenon DEF Filled
  <1>6. Filled = Body(Filled)
    <2> HIDE DEF Body
    <2> QED BY Zenon, <1>4, <1>5
  <1>7. Filled[0] = Fresh(2^DefaultScale)
    BY Zenon, <1>6
  <1>8. ASSUME NEW n \in Nat PROVE Filled[n + 1] = Put(Filled[n], Before[n + 1].key, Before[n + 1].value)
    <2>1. n + 1 \in Nat /\ n + 1 # 0 /\ (n + 1) - 1 = n
      OBVIOUS
    <2>2. Filled[n + 1] = Put(Filled[(n + 1) - 1], Before[n + 1].key, Before[n + 1].value)
      BY Zenon, <1>6, <2>1
    <2> QED BY Zenon, <2>1, <2>2
  <1> QED BY Zenon, <1>7, <1>8

-----------------------------------------------------------------------------
(* Filling a table, and moving its entries.                                *)

\* The values that are stored, and the default value, are values.
LEMMA ValuesOK ==
    /\ NoValue \in Values
    /\ \A o \in Operations : o.value \in Values
    /\ \A i \in DOMAIN Before : Before[i].value \in Values
  BY Zenon DEF Values

\* HASH_TABLE_MAX_SIZES: a table that is not too full, or that has one entry more,
\* has an empty slot; and one that is twice as big is not too full then.
LEMMA MaxIs ==
    ASSUME NEW s, 2^s \in Nat, 2^s > 4
    PROVE  /\ MaxEntries(s) \in Nat /\ MaxEntries(s) + 1 < 2^s
           /\ 2^(s + 1) = 2 * 2^s => MaxEntries(s) + 1 <= MaxEntries(s + 1)
  <1>1. ASSUME NEW n \in Nat, n > 4
        PROVE  /\ (3 * n) \div 4 \in Nat /\ (3 * n) \div 4 + 1 < n
               /\ (3 * n) \div 4 + 1 <= (3 * (2 * n)) \div 4
    BY <1>1
  <1> QED BY Zenon, <1>1 DEF MaxEntries

\* A table with fewer entries than slots has an empty slot, where the searches of
\* find and insert end.
LEMMA WellFormedRoom ==
    ASSUME NEW n, NEW t, NEW max \in Nat, WellFormed(t, n, max), max < n
    PROVE  HasRoom(t)
  <1>1. Table(t, n) /\ Cardinality(Occupied(t)) <= max /\ n \in Nat
    BY Zenon DEF WellFormed, Table
  <1>2. Cardinality(Occupied(t)) \in Nat /\ (Cardinality(Occupied(t)) < n => HasRoom(t))
    BY Zenon, <1>1, OccupiedFinite
  <1> QED BY <1>1, <1>2

\* The table that there is at first is well formed, and num_entries is right.
LEMMA FilledWellFormed ==
    ASSUME TableOK, SizesOK, PowersOK(MaxScale), NEW n \in 0 .. Len(Before)
    PROVE  WellFormed(Filled[n], 2^DefaultScale, n)
  <1> DEFINE N == 2^DefaultScale
  <1>1. N \in Nat /\ N > 4 /\ DefaultScale \in Nat /\ Len(Before) <= MaxEntries(DefaultScale) + 1
    BY DEF PowersOK, SizesOK, TableOK
  <1>2. MaxEntries(DefaultScale) \in Nat /\ MaxEntries(DefaultScale) + 1 < N
    BY Zenon, <1>1, MaxIs
  <1>3. Len(Before) \in Nat /\ Len(Before) < N /\ DOMAIN Before = 1 .. Len(Before)
    BY <1>1, <1>2 DEF TableOK
  <1>4. \A i \in 1 .. Len(Before) : Before[i].key \in Keys /\ Before[i].value \in Values /\ Before[i].value # NoValue
    <2> DEFINE X == [key : Keys, value : Values \ {NoValue}]
    <2>1. Before \in Seq(X)
      BY Zenon DEF TableOK
    <2>2. \A i \in 1 .. Len(Before) : Before[i] \in X
      <3> HIDE DEF X
      <3> QED BY <2>1
    <2> QED BY Zenon, <2>2
  <1>5. HashOK
    BY Zenon DEF TableOK
  <1> HIDE DEF N
  <1>6. WellFormed(Filled[0], N, 0)
    <2>1. N \in Nat \ {0}
      BY <1>1
    <2>2. Filled[0] = Fresh(N)
      BY Zenon, FilledIs DEF N
    <2> QED BY <2>1, <2>2, FreshIs DEF WellFormed
  <1>7. ASSUME NEW m \in Nat, m + 1 <= Len(Before), WellFormed(Filled[m], N, m)
        PROVE  WellFormed(Filled[m + 1], N, m + 1)
    <2> DEFINE k == Before[m + 1].key
               v == Before[m + 1].value
    <2>1. m + 1 \in 1 .. Len(Before) /\ m < N
      BY <1>1, <1>3, <1>7
    <2>2. k \in Keys /\ v \in Values /\ v # NoValue
      BY Zenon, <1>4, <2>1
    <2>3. HasRoom(Filled[m])
      BY Zenon, <1>7, <2>1, WellFormedRoom
    <2>4. WellFormed(Put(Filled[m], k, v), N, IF Has(Filled[m], k) THEN m ELSE m + 1)
      <3> HIDE DEF k, v
      <3> QED BY Zenon, <1>5, <1>7, <2>2, <2>3, PutWellFormed
    <2>5. Filled[m + 1] = Put(Filled[m], k, v)
      BY Zenon, FilledIs
    <2>6. WellFormed(Filled[m + 1], N, IF Has(Filled[m], k) THEN m ELSE m + 1)
      BY Zenon, <2>4, <2>5
    <2> HIDE DEF k
    <2>7. Cardinality(Occupied(Filled[m + 1])) \in Nat
      BY Zenon, <2>6, OccupiedFinite DEF WellFormed
    <2> QED BY <2>6, <2>7 DEF WellFormed
  <1> DEFINE Bad == {i \in 0 .. Len(Before) : ~ WellFormed(Filled[i], N, i)}
  <1>8. SUFFICES ASSUME Bad # {} PROVE FALSE
    BY Zenon, <1>1 DEF N
  <1>9. Bad \in SUBSET Nat
    BY <1>3
  <1>10. PICK m \in Bad : \A e \in Bad : m <= e
    <2> HIDE DEF Bad
    <2> QED BY Zenon, <1>8, <1>9, Smallest
  <1>11. m \in Nat /\ m <= Len(Before) /\ m # 0 /\ ~ WellFormed(Filled[m], N, m)
    BY <1>3, <1>6
  <1>12. m - 1 \in Nat /\ m - 1 \in 0 .. Len(Before) /\ ~ (m <= m - 1) /\ (m - 1) + 1 = m
    BY <1>3, <1>11
  <1>13. WellFormed(Filled[m - 1], N, m - 1)
    BY Zenon, <1>10, <1>12
  <1> QED BY Zenon, <1>7, <1>11, <1>12, <1>13

\* grow: passing over an empty slot.
LEMMA MoveEmpty ==
    ASSUME NEW t, NEW u, NEW i \in Nat, Moved(t, u, i), DOMAIN u \in SUBSET Nat, u[i].key = NoKey
    PROVE  Moved(t, u, i + 1)
  <1>1. ASSUME NEW s \in DOMAIN t, t[s].key # NoKey
        PROVE  \E j \in DOMAIN u : j < i + 1 /\ t[s] = u[j]
    <2>1. PICK j \in DOMAIN u : j < i /\ t[s] = u[j]
      BY Zenon, <1>1 DEF Moved
    <2>2. j < i + 1
      BY <2>1
    <2> QED BY Zenon, <2>1, <2>2
  <1>2. ASSUME NEW j \in DOMAIN u, j < i + 1, u[j].key # NoKey
        PROVE  Holds(t, u[j].key, u[j].value)
    <2>1. j # i
      BY Zenon, <1>2
    <2>2. j < i
      BY <1>2, <2>1
    <2> QED BY Zenon, <1>2, <2>2 DEF Moved
  <1> QED BY Zenon, <1>1, <1>2 DEF Moved

\* grow: moving one more entry, with insert, into the new slots.
LEMMA MoveOne ==
    ASSUME HashOK, NEW n, NEW t, Table(t, n), Reachable(t), HasRoom(t), NEW m, NEW u, Table(u, m),
           Reachable(u), NEW i \in 0 .. m - 1, Moved(t, u, i), u[i].key # NoKey
    PROVE  Moved(Put(t, u[i].key, u[i].value), u, i + 1)
  <1> DEFINE k == u[i].key
             v == u[i].value
             p == Position(t, k)
             r == Put(t, k, v)
  <1>1. DOMAIN u = 0 .. m - 1 /\ m \in Nat \ {0} /\ \A j \in 0 .. m - 1 : u[j] \in Entries
    BY Zenon, TableFacts
  <1>2. k \in Keys /\ v \in Values /\ u[i] = [key |-> k, value |-> v]
    BY Zenon, <1>1, EntryFacts
  <1>3. /\ Table(r, n) /\ p \in 0 .. n - 1
        /\ r[p] = [key |-> k, value |-> v]
        /\ \A s \in 0 .. n - 1 : s # p => r[s] = t[s]
    <2> HIDE DEF k, v
    <2> QED BY <1>2, PutChanges
  <1>4. /\ \A w : Holds(r, k, w) <=> w = v
        /\ \A j \in Keys \ {k} : \A w : Holds(r, j, w) <=> Holds(t, j, w)
    <2> HIDE DEF k, v
    <2> QED BY <1>2, PutHolds
  <1>5. DOMAIN r = 0 .. n - 1 /\ DOMAIN t = 0 .. n - 1
    BY Zenon, <1>3, TableFacts
  <1> HIDE DEF r, p
  <1>6. ASSUME NEW s \in DOMAIN r, r[s].key # NoKey
        PROVE  \E j \in DOMAIN u : j < i + 1 /\ r[s] = u[j]
    <2>1. CASE s = p
      <3>1. i \in DOMAIN u /\ i < i + 1 /\ r[s] = u[i]
        BY <1>1, <1>2, <1>3, <2>1
      <3> QED BY Zenon, <3>1
    <2>2. CASE s # p
      <3>1. s \in DOMAIN t /\ r[s] = t[s]
        BY Zenon, <1>3, <1>5, <2>2
      <3>2. PICK j \in DOMAIN u : j < i /\ t[s] = u[j]
        BY Zenon, <1>6, <3>1 DEF Moved
      <3>3. j < i + 1
        BY <1>1, <3>2
      <3> QED BY Zenon, <3>1, <3>2, <3>3
    <2> QED BY Zenon, <2>1, <2>2
  <1>7. ASSUME NEW j \in DOMAIN u, j < i + 1, u[j].key # NoKey
        PROVE  Holds(r, u[j].key, u[j].value)
    <2>1. CASE j = i
      BY Zenon, <1>4, <2>1
    <2>2. CASE j # i
      <3>1. j < i
        BY <1>1, <1>7, <2>2
      <3>2. u[j].key \in Keys
        BY Zenon, <1>1, <1>7, EntryFacts
      <3>3. u[j].key # k
        BY Zenon, <1>1, <1>7, <2>2 DEF Reachable
      <3>4. Holds(t, u[j].key, u[j].value)
        BY Zenon, <1>7, <3>1 DEF Moved
      <3> QED BY Zenon, <1>4, <3>2, <3>3, <3>4
    <2> QED BY Zenon, <2>1, <2>2
  <1> QED BY Zenon, <1>6, <1>7 DEF Moved, r

\* grow: nothing is moved at first.
LEMMA MovedNothing ==
    ASSUME NEW t, \A s \in DOMAIN t : t[s].key = NoKey, NEW u, DOMAIN u \in SUBSET Nat
    PROVE  Moved(t, u, 0)
  <1>1. \A j \in DOMAIN u : ~ (j < 0)
    OBVIOUS
  <1> QED BY Zenon, <1>1 DEF Moved

\* A table holds one value for a key, as a key is in one slot.
LEMMA HoldsOnce ==
    ASSUME HashOK, NEW u, Reachable(u), NEW k \in Keys, NEW w, NEW x, Holds(u, k, w), Holds(u, k, x)
    PROVE  w = x
  <1>1. PICK i \in DOMAIN u : u[i] = [key |-> k, value |-> w]
    BY Zenon DEF Holds
  <1>2. PICK j \in DOMAIN u : u[j] = [key |-> k, value |-> x]
    BY Zenon DEF Holds
  <1>3. u[i].key = k /\ u[j].key = k /\ k # NoKey /\ u[i].value = w /\ u[j].value = x
    BY <1>1, <1>2 DEF HashOK
  <1>4. i = j
    BY Zenon, <1>3 DEF Reachable
  <1> QED BY Zenon, <1>3, <1>4

\* grow: a key that was moved has the value that it had, and when all slots were
\* moved that is so for every key.
LEMMA MovedIsContent ==
    ASSUME HashOK, NEW n, NEW t, Table(t, n), NEW m, NEW u, Table(u, m), Reachable(u),
           NEW i, Moved(t, u, i), NEW k \in Keys
    PROVE  /\ \A w : Holds(t, k, w) => Holds(u, k, w)
           /\ (\A j \in DOMAIN u : j < i) => \A w : Holds(u, k, w) => Holds(t, k, w)
           /\ (\E w \in Values : Holds(t, k, w)) => Content(t, k) = Content(u, k)
  <1>1. ASSUME NEW w, Holds(t, k, w) PROVE Holds(u, k, w)
    <2>1. PICK s \in DOMAIN t : t[s] = [key |-> k, value |-> w]
      BY Zenon, <1>1 DEF Holds
    <2>2. t[s].key # NoKey
      BY <2>1 DEF HashOK
    <2>3. PICK j \in DOMAIN u : t[s] = u[j]
      BY Zenon, <2>2 DEF Moved
    <2> QED BY Zenon, <2>1, <2>3 DEF Holds
  <1>2. ASSUME \A j \in DOMAIN u : j < i, NEW w, Holds(u, k, w) PROVE Holds(t, k, w)
    <2>1. PICK j \in DOMAIN u : u[j] = [key |-> k, value |-> w]
      BY Zenon, <1>2 DEF Holds
    <2>2. u[j].key = k /\ u[j].value = w /\ k # NoKey
      BY <2>1 DEF HashOK
    <2> QED BY Zenon, <1>2, <2>2 DEF Moved
  <1>3. ASSUME NEW w \in Values, Holds(t, k, w) PROVE Content(t, k) = Content(u, k)
    <2>1. Holds(u, k, w)
      BY Zenon, <1>1, <1>3
    <2>2. \A x : Holds(u, k, x) <=> x = w
      BY Zenon, <2>1, HoldsOnce
    <2>3. \A x : Holds(t, k, x) <=> x = w
      BY Zenon, <1>1, <1>3, <2>2
    <2> QED BY Zenon, <2>2, <2>3, ContentIs
  <1> QED BY Zenon, <1>1, <1>2, <1>3

-----------------------------------------------------------------------------
(* The steps.                                                              *)

\* locked_hash_table: one CPU at a time is between lock and unlock.
LEMMA OneInside ==
    ASSUME CallsOK, NEW c \in Threads, NEW d \in Threads, tablePc[c] \in Inside, tablePc[d] \in Inside
    PROVE  c = d
  BY Zenon DEF CallsOK

\* The table is well formed and has an empty slot, also after one more insert: the
\* test of num_entries in store comes before it.
LEMMA SlotsHaveRoom ==
    ASSUME TableOK, PowersOK(MaxScale), SlotsOK
    PROVE  /\ scale \in Nat /\ scale \in 0 .. MaxScale /\ 2^scale \in Nat /\ 2^(scale + 1) = 2 * 2^scale
           /\ MaxEntries(scale) \in Nat /\ MaxEntries(scale) + 1 < 2^scale
           /\ MaxEntries(scale) + 1 <= MaxEntries(scale + 1)
           /\ Table(slots, 2^scale) /\ Reachable(slots) /\ Stored(slots) /\ HasRoom(slots)
           /\ HashOK
  <1>1. scale \in Nat /\ scale \in 0 .. MaxScale /\ HashOK
    BY DEF SlotsOK, TableOK
  <1>2. 2^scale \in Nat /\ 2^(scale + 1) = 2 * 2^scale
    BY Zenon, <1>1 DEF PowersOK
  <1>3. MaxEntries(scale) \in Nat /\ MaxEntries(scale) + 1 < 2^scale /\ MaxEntries(scale) + 1 <= MaxEntries(scale + 1)
    BY Zenon, <1>1, <1>2, MaxIs DEF SlotsOK
  <1>4. WellFormed(slots, 2^scale, numEntries) /\ numEntries \in Nat /\ numEntries < 2^scale
    BY <1>2, <1>3 DEF SlotsOK
  <1>5. HasRoom(slots)
    BY Zenon, <1>2, <1>4, WellFormedRoom
  <1> QED BY Zenon, <1>1, <1>2, <1>3, <1>4, <1>5 DEF WellFormed

\* grow allocates slots for which num_entries is not too many.
LEMMA GrowStarts ==
    ASSUME TableOK, PowersOK(MaxScale), SlotsOK, NEW t, NEW max \in Nat,
           WellFormed(t, 2^scale, max), max <= MaxEntries(scale) + 1, Grow(t)
    PROVE  /\ scale' \in DefaultScale .. MaxScale /\ 2^scale' > 4
           /\ WellFormed(slots', 2^scale', max)
           /\ max <= MaxEntries(scale')
           /\ scale' - 1 \in DefaultScale .. MaxScale
           /\ WellFormed(old', 2^(scale' - 1), max)
           /\ index' \in 0 .. 2^(scale' - 1)
           /\ Moved(slots', old', index')
  <1>1. /\ scale \in Nat /\ 2^scale \in Nat /\ 2^(scale + 1) = 2 * 2^scale
        /\ MaxEntries(scale) \in Nat /\ MaxEntries(scale) + 1 <= MaxEntries(scale + 1)
    BY SlotsHaveRoom
  <1>2. scale \in DefaultScale .. MaxScale /\ 2^scale > 4 /\ DefaultScale \in Nat /\ MaxScale \in Nat
    BY Zenon DEF SlotsOK, TableOK
  <1>3. scale < MaxScale /\ old' = t /\ slots' = Fresh(2 * NumSlots(t)) /\ scale' = scale + 1 /\ index' = 0
    BY Zenon DEF Grow
  <1>4. DOMAIN t = 0 .. 2^scale - 1 /\ NumSlots(t) = 2^scale
    BY Zenon, TableFacts DEF WellFormed
  <1>5. scale' - 1 = scale /\ scale' \in DefaultScale .. MaxScale
    BY <1>1, <1>2, <1>3
  <1>6. slots' = Fresh(2^scale') /\ 2^scale' \in Nat \ {0} /\ 2^scale' > 4
    BY <1>1, <1>2, <1>3, <1>4
  <1>7. WellFormed(slots', 2^scale', max) /\ \A s \in DOMAIN slots' : slots'[s].key = NoKey
    BY <1>6, FreshIs DEF WellFormed
  <1>8. DOMAIN old' \in SUBSET Nat
    BY <1>3, <1>4
  <1>9. Moved(slots', old', 0)
    BY Zenon, <1>7, <1>8, MovedNothing
  <1>10. max <= MaxEntries(scale')
    <2>1. MaxEntries(scale') \in Nat
      BY Zenon, <1>6, MaxIs
    <2> QED BY <1>1, <1>3, <2>1
  <1>11. index' \in 0 .. 2^(scale' - 1)
    BY <1>1, <1>3, <1>5
  <1>12. WellFormed(old', 2^(scale' - 1), max)
    BY Zenon, <1>3, <1>5
  <1> QED BY Zenon, <1>2, <1>3, <1>5, <1>6, <1>7, <1>9, <1>10, <1>11, <1>12

\* A CPU is in load or store only while it has the lock, whatever the others do.
LEMMA CallsStep ==
    ASSUME TableOK, PowersOK(MaxScale), SlotsOK, CallsOK, [TableNext]_tableVars
    PROVE  CallsOK'
  <1> USE DEF CallsOK, Inside, Goto
  <1>1. CASE UNCHANGED tableVars
    BY <1>1 DEF tableVars
  <1>2. ASSUME NEW c \in Threads, Invoke(c) PROVE CallsOK'
    BY Zenon, <1>2 DEF Invoke
  <1>3. ASSUME NEW c \in Threads, Lock(c) PROVE CallsOK'
    BY Zenon, <1>3 DEF Lock, TableOK
  <1>4. ASSUME NEW c \in Threads, Load(c) PROVE CallsOK'
    <2>1. op[c].key \in Keys
      BY Zenon, <1>4 DEF Load, TableOK
    <2>2. Find(slots, op[c].key) \in Values
      <3>1. Table(slots, 2^scale) /\ Reachable(slots) /\ HasRoom(slots) /\ HashOK
        BY Zenon, SlotsHaveRoom
      <3> QED BY <2>1, <3>1, ContentFound
    <2> QED BY Zenon, <1>4, <2>2 DEF Load
  <1>5. ASSUME NEW c \in Threads, Transfer(c) PROVE CallsOK'
    BY Zenon, <1>5 DEF Transfer
  <1>6. ASSUME NEW c \in Threads, Grown(c) PROVE CallsOK'
    BY Zenon, <1>6 DEF Grown, Growing
  <1>7. ASSUME NEW c \in Threads, StoreFull(c) PROVE CallsOK'
    BY Zenon, <1>7 DEF StoreFull, Grow
  <1>8. ASSUME NEW c \in Threads, Store(c) PROVE CallsOK'
    BY Zenon, <1>8 DEF Store
  <1>9. ASSUME NEW c \in Threads, Insert(c) PROVE CallsOK'
    BY Zenon, <1>9 DEF Insert
  <1>10. ASSUME NEW c \in Threads, Unlock(c) PROVE CallsOK'
    BY Zenon, <1>10, ValuesOK DEF Unlock
  <1> QED BY Zenon, <1>1, <1>2, <1>3, <1>4, <1>5, <1>6, <1>7, <1>8, <1>9, <1>10 DEF TableNext, TableWork

\* A step that leaves the slots alone leaves them right.
LEMMA QuietStep ==
    ASSUME SlotsOK, OldOK, CallsOK, NEW c \in Threads, ~ Growing(c),
           NEW x \in {"idle", "lock", "load", "store", "insert", "unlock"},
           tablePc' = [tablePc EXCEPT ![c] = x], x = "insert" => numEntries <= MaxEntries(scale),
           UNCHANGED <<slots, numEntries, scale, old, index>>
    PROVE  SlotsOK' /\ OldOK'
  <1>0. tablePc \in [Threads -> {"idle", "lock"} \cup Inside]
    BY Zenon DEF CallsOK
  <1>1. \A d \in Threads : tablePc'[d] = IF d = c THEN x ELSE tablePc[d]
    BY Zenon, <1>0
  <1>2. IsGrowing' <=> IsGrowing
    BY Zenon, <1>1 DEF IsGrowing, Growing
  <1>3. SlotsOK'
    BY Zenon, <1>1 DEF SlotsOK
  <1>4. OldOK'
    BY Zenon, <1>2 DEF OldOK
  <1> QED BY Zenon, <1>3, <1>4

\* A CPU that starts to grow the table, in store because it is full or in insert
\* because the entry is far away, leaves it right.
LEMMA StartStep ==
    ASSUME TableOK, PowersOK(MaxScale), SlotsOK, CallsOK, NEW c \in Threads, NEW x \in {"grow", "regrow"},
           tablePc[c] \in Inside, tablePc' = [tablePc EXCEPT ![c] = x], NEW t, Grow(t), numEntries' \in Nat,
           WellFormed(t, 2^scale, numEntries'), numEntries' <= MaxEntries(scale) + 1
    PROVE  SlotsOK' /\ OldOK'
  <1>0. tablePc \in [Threads -> {"idle", "lock"} \cup Inside]
    BY Zenon DEF CallsOK
  <1>1. tablePc'[c] = x
    BY Zenon, <1>0
  <1>2. IsGrowing'
    BY Zenon, <1>1 DEF IsGrowing, Growing
  <1> DEFINE max == numEntries'
  <1>3. /\ scale' \in DefaultScale .. MaxScale /\ 2^scale' > 4
        /\ WellFormed(slots', 2^scale', max)
        /\ max <= MaxEntries(scale')
        /\ scale' - 1 \in DefaultScale .. MaxScale
        /\ WellFormed(old', 2^(scale' - 1), max)
        /\ index' \in 0 .. 2^(scale' - 1)
        /\ Moved(slots', old', index')
    <2> HIDE DEF max
    <2>1. max \in Nat /\ WellFormed(t, 2^scale, max) /\ max <= MaxEntries(scale) + 1
      BY Zenon DEF max
    <2> QED BY Zenon, <2>1, GrowStarts
  <1>4. MaxEntries(scale') \in Nat
    <2>1. scale' \in 0 .. MaxScale
      BY <1>3 DEF TableOK
    <2>2. 2^scale' \in Nat
      BY Zenon, <2>1 DEF PowersOK
    <2> QED BY Zenon, <1>3, <2>2, MaxIs
  <1>5. SlotsOK'
    <2>1. max \in Nat /\ max <= MaxEntries(scale') + 1
      BY <1>3, <1>4
    <2> QED BY Zenon, <1>3, <2>1 DEF SlotsOK
  <1>6. OldOK'
    BY Zenon, <1>2, <1>3 DEF OldOK
  <1> QED BY Zenon, <1>5, <1>6

\* One step of the loop of grow leaves the old and the new slots right.
LEMMA TransferStep ==
    ASSUME TableOK, PowersOK(MaxScale), SlotsOK, OldOK, CallsOK, NEW c \in Threads, Transfer(c)
    PROVE  SlotsOK' /\ OldOK'
  <1>0. UNCHANGED <<tableLock, numEntries, scale, old, tablePc, op, result>> /\ index' = index + 1
    BY Zenon DEF Transfer
  <1>1. IsGrowing /\ IsGrowing'
    BY Zenon, <1>0 DEF Transfer, Growing, IsGrowing
  <1> DEFINE m == 2^(scale - 1)
             n == 2^scale
  <1>2. /\ scale - 1 \in DefaultScale .. MaxScale
        /\ WellFormed(old, m, numEntries)
        /\ index \in 0 .. m
        /\ Moved(slots, old, index)
    BY Zenon, <1>1 DEF OldOK
  <1>3. Table(slots, n) /\ Reachable(slots) /\ Stored(slots) /\ HasRoom(slots) /\ HashOK
    BY Zenon, SlotsHaveRoom
  <1>4. Table(old, m) /\ Reachable(old) /\ Stored(old) /\ Cardinality(Occupied(old)) <= numEntries
    BY Zenon, <1>2 DEF WellFormed
  <1>5. /\ DOMAIN old = 0 .. m - 1 /\ m \in Nat \ {0} /\ \A j \in 0 .. m - 1 : old[j] \in Entries
    BY Zenon, <1>4, TableFacts
  <1> HIDE DEF m, n
  <1>6. index \in 0 .. m - 1
    BY Zenon, <1>5 DEF Transfer
  <1>7. index' \in 0 .. m
    BY <1>0, <1>5, <1>6
  <1>8. Table(slots', n) /\ Reachable(slots') /\ Stored(slots') /\ Moved(slots', old, index + 1)
    <2>1. CASE old[index].key = NoKey
      <3>1. slots' = slots
        BY Zenon, <2>1 DEF Transfer
      <3>2. index \in Nat /\ DOMAIN old \in SUBSET Nat
        BY <1>5, <1>6
      <3> QED BY <1>2, <1>3, <2>1, <3>1, <3>2, MoveEmpty
    <2>2. CASE old[index].key # NoKey
      <3> DEFINE k == old[index].key
                 v == old[index].value
      <3>1. slots' = Put(slots, k, v)
        BY Zenon, <2>2 DEF Transfer
      <3>2. k \in Keys /\ v \in Values /\ v # NoValue
        BY Zenon, <1>3, <1>4, <1>5, <1>6, <2>2, EntryFacts DEF Stored
      <3>3. Moved(slots', old, index + 1)
        BY Zenon, <1>2, <1>3, <1>4, <1>6, <2>2, <3>1, MoveOne
      <3>4. WellFormed(slots, n, numEntries) /\ numEntries \in Nat
        BY DEF SlotsOK, n
      <3> HIDE DEF k, v
      <3>5. WellFormed(Put(slots, k, v), n, IF Has(slots, k) THEN numEntries ELSE numEntries + 1)
        BY Zenon, <1>3, <3>2, <3>4, PutWellFormed
      <3> QED BY Zenon, <3>1, <3>3, <3>5 DEF WellFormed
    <2> QED BY Zenon, <2>1, <2>2
  <1>9. Cardinality(Occupied(slots')) <= numEntries
    <2>1. \A i \in Occupied(slots') : \E j \in DOMAIN old : old[j] = slots'[i]
      BY Zenon, <1>8 DEF Moved, Occupied
    <2>2. Cardinality(Occupied(slots')) <= Cardinality(Occupied(old))
      BY Zenon, <1>4, <1>8, <2>1, CountInto
    <2>3. Cardinality(Occupied(slots')) \in Nat /\ Cardinality(Occupied(old)) \in Nat
      BY Zenon, <1>4, <1>8, OccupiedFinite
    <2> QED BY <1>4, <2>2, <2>3 DEF SlotsOK
  <1>10. WellFormed(slots', n, numEntries)
    BY Zenon, <1>8, <1>9 DEF WellFormed
  <1>11. SlotsOK'
    BY Zenon, <1>0, <1>10 DEF SlotsOK, n
  <1>12. OldOK'
    BY Zenon, <1>0, <1>1, <1>2, <1>7, <1>8 DEF OldOK, m
  <1> QED BY Zenon, <1>11, <1>12

\* The end of grow leaves the slots right.
LEMMA GrownStep ==
    ASSUME SlotsOK, CallsOK, NEW c \in Threads, Grown(c)
    PROVE  SlotsOK' /\ OldOK'
  <1>0. tablePc \in [Threads -> {"idle", "lock"} \cup Inside]
    BY Zenon DEF CallsOK
  <1>1. /\ UNCHANGED <<slots, numEntries, scale>> /\ old' = <<>> /\ index' = 0
        /\ tablePc' = [tablePc EXCEPT ![c] = IF @ = "grow" THEN "insert" ELSE "unlock"]
        /\ tablePc[c] \in {"grow", "regrow"}
    BY Zenon DEF Grown, Growing
  <1>2. \A d \in Threads \ {c} : tablePc'[d] = tablePc[d] /\ tablePc[d] \notin Inside
    BY Zenon, <1>0, <1>1, OneInside DEF Inside
  <1>3. tablePc'[c] \in {"insert", "unlock"}
    BY Zenon, <1>0, <1>1
  <1>4. ~ IsGrowing'
    BY Zenon, <1>2, <1>3 DEF IsGrowing, Growing, Inside
  <1>5. OldOK'
    BY Zenon, <1>1, <1>4 DEF OldOK
  <1>6. numEntries <= MaxEntries(scale)
    BY Zenon, <1>1 DEF SlotsOK
  <1>7. SlotsOK'
    BY Zenon, <1>1, <1>6 DEF SlotsOK
  <1> QED BY Zenon, <1>5, <1>7

\* insert, with either policy, leaves well formed slots and num_entries right.
LEMMA InsertedIs ==
    ASSUME TableOK, PowersOK(MaxScale), SlotsOK, NEW o \in Operations, o.kind # "load",
           numEntries <= MaxEntries(scale)
    PROVE  LET max == IF Has(slots, o.key) THEN numEntries ELSE numEntries + 1
           IN  /\ max \in Nat /\ max <= MaxEntries(scale) + 1
               /\ WellFormed(Inserted(o), 2^scale, max)
  <1> DEFINE n == 2^scale
  <1>1. o.key \in Keys /\ o.value \in Values /\ o.value # NoValue
    BY Zenon DEF TableOK
  <1>2. HasRoom(slots) /\ HashOK /\ MaxEntries(scale) \in Nat
    BY Zenon, SlotsHaveRoom
  <1>3. WellFormed(slots, n, numEntries) /\ numEntries \in Nat
    BY Zenon DEF SlotsOK
  <1> HIDE DEF n
  <1>4. WellFormed(Put(slots, o.key, o.value), n, IF Has(slots, o.key) THEN numEntries ELSE numEntries + 1)
    BY Zenon, <1>1, <1>2, <1>3, PutWellFormed
  <1>5. ~ Writes(o) => Has(slots, o.key)
    BY Zenon DEF Writes
  <1>6. WellFormed(Inserted(o), n, IF Has(slots, o.key) THEN numEntries ELSE numEntries + 1)
    BY Zenon, <1>3, <1>4, <1>5 DEF Inserted
  <1> QED BY <1>2, <1>3, <1>6 DEF n

\* insert leaves the slots right, also if it starts to grow the table.
LEMMA InsertStep ==
    ASSUME TableOK, PowersOK(MaxScale), SlotsOK, OldOK, CallsOK, NEW c \in Threads, Insert(c)
    PROVE  SlotsOK' /\ OldOK'
  <1> DEFINE o == op[c]
             t == Inserted(o)
             far == MaxScan < Scan(slots, o.key)
  <1>0. tablePc \in [Threads -> {"idle", "lock"} \cup Inside] /\ tablePc[c] = "insert" /\ "insert" \in Inside
    BY Zenon DEF CallsOK, Insert, Goto, Inside
  <1>1. o \in Operations /\ o.kind # "load" /\ numEntries <= MaxEntries(scale)
    BY Zenon, <1>0 DEF CallsOK, SlotsOK
  <1>2. /\ numEntries' = IF Has(slots, o.key) THEN numEntries ELSE numEntries + 1
        /\ tablePc' = [tablePc EXCEPT ![c] = IF far THEN "regrow" ELSE "unlock"]
        /\ IF far THEN Grow(t) ELSE slots' = t /\ UNCHANGED <<scale, old, index>>
    BY Zenon DEF Insert, Goto
  <1> HIDE DEF o, far
  <1>3. numEntries' \in Nat /\ numEntries' <= MaxEntries(scale) + 1 /\ WellFormed(t, 2^scale, numEntries')
    BY Zenon, <1>1, <1>2, InsertedIs
  <1> HIDE DEF t
  <1>4. CASE far
    <2>1. Grow(t) /\ tablePc' = [tablePc EXCEPT ![c] = "regrow"]
      BY Zenon, <1>2, <1>4
    <2> QED BY Zenon, <1>0, <1>3, <2>1, StartStep
  <1>5. CASE ~ far
    <2>1. slots' = t /\ UNCHANGED <<scale, old, index>> /\ tablePc' = [tablePc EXCEPT ![c] = "unlock"]
      BY Zenon, <1>2, <1>5
    <2>2. tablePc'[c] = "unlock" /\ \A d \in Threads \ {c} : tablePc'[d] = tablePc[d] /\ tablePc[d] \notin Inside
      BY Zenon, <1>0, <2>1, OneInside
    <2>3. ~ IsGrowing /\ ~ IsGrowing'
      BY Zenon, <1>0, <2>2 DEF IsGrowing, Growing, Inside
    <2>4. OldOK'
      BY Zenon, <2>1, <2>3 DEF OldOK
    <2>5. \A d \in Threads : tablePc'[d] \notin {"insert", "grow", "regrow"}
      BY Zenon, <2>2 DEF Inside
    <2>6. SlotsOK'
      BY Zenon, <1>3, <2>1, <2>5 DEF SlotsOK
    <2> QED BY Zenon, <2>4, <2>6
  <1> QED BY Zenon, <1>4, <1>5

\* store, if the table is too full, starts to grow it.
LEMMA StoreFullStep ==
    ASSUME TableOK, PowersOK(MaxScale), SlotsOK, CallsOK, NEW c \in Threads, StoreFull(c)
    PROVE  SlotsOK' /\ OldOK'
  <1>1. /\ tablePc[c] \in Inside /\ tablePc' = [tablePc EXCEPT ![c] = "grow"]
        /\ Grow(slots) /\ numEntries' = numEntries
    BY Zenon DEF StoreFull, Goto, Inside
  <1>2. WellFormed(slots, 2^scale, numEntries') /\ numEntries' \in Nat /\ numEntries' <= MaxEntries(scale) + 1
    BY Zenon, <1>1 DEF SlotsOK
  <1> QED BY Zenon, <1>1, <1>2, StartStep

\* The invariant holds at first,
LEMMA TableInvInit ==
    ASSUME TableOK, SizesOK, PowersOK(MaxScale), TableInit
    PROVE  TableInv
  <1>1. CallsOK
    BY Zenon, ValuesOK DEF TableInit, CallsOK, Inside
  <1>2. ~ IsGrowing /\ \A c \in Threads : tablePc[c] = "idle"
    BY Zenon DEF TableInit, IsGrowing, Growing
  <1>3. Len(Before) \in Nat
    BY DEF TableOK
  <1>4. WellFormed(Filled[Len(Before)], 2^DefaultScale, Len(Before))
    BY <1>3, FilledWellFormed
  <1>5. slots = Filled[Len(Before)] /\ numEntries = Len(Before) /\ scale = DefaultScale /\ old = <<>> /\ index = 0
    BY Zenon DEF TableInit
  <1>6. SlotsOK
    <2>1. scale \in DefaultScale .. MaxScale
      BY <1>5 DEF SizesOK, TableOK
    <2>2. 2^scale > 4 /\ numEntries <= MaxEntries(scale) + 1
      BY Zenon, <1>5 DEF SizesOK
    <2> QED BY Zenon, <1>2, <1>3, <1>4, <1>5, <2>1, <2>2 DEF SlotsOK
  <1> QED BY Zenon, <1>1, <1>2, <1>5, <1>6 DEF TableInv, OldOK

\* every step of a CPU in load, store, insert and grow preserves it,
LEMMA TableInvStep ==
    ASSUME TableOK, PowersOK(MaxScale), TableInv, [TableNext]_tableVars
    PROVE  TableInv'
  <1>0. CallsOK /\ SlotsOK /\ OldOK
    BY Zenon DEF TableInv
  <1>1. CallsOK'
    BY Zenon, <1>0, CallsStep
  <1>2. SlotsOK' /\ OldOK'
    <2> DEFINE rest == <<slots, numEntries, scale, old, index>>
    <2>1. CASE UNCHANGED tableVars
      <3>1. UNCHANGED <<rest, tablePc>>
        BY Zenon, <2>1 DEF tableVars
      <3> QED BY Zenon, <1>0, <3>1 DEF SlotsOK, OldOK, IsGrowing, Growing
    <2>2. ASSUME NEW c \in Threads, Invoke(c) PROVE SlotsOK' /\ OldOK'
      <3>1. tablePc' = [tablePc EXCEPT ![c] = "lock"] /\ UNCHANGED rest /\ ~ Growing(c)
        BY Zenon, <2>2 DEF Invoke, Goto, Growing
      <3> QED BY Zenon, <1>0, <3>1, QuietStep
    <2>3. ASSUME NEW c \in Threads, Lock(c) PROVE SlotsOK' /\ OldOK'
      <3>1. /\ \/ tablePc' = [tablePc EXCEPT ![c] = "load"]
               \/ tablePc' = [tablePc EXCEPT ![c] = "store"]
            /\ UNCHANGED rest /\ ~ Growing(c)
        BY Zenon, <2>3 DEF Lock, Goto, Growing
      <3>2. CASE tablePc' = [tablePc EXCEPT ![c] = "load"]
        BY Zenon, <1>0, <3>1, <3>2, QuietStep
      <3>3. CASE tablePc' = [tablePc EXCEPT ![c] = "store"]
        BY Zenon, <1>0, <3>1, <3>3, QuietStep
      <3> QED BY Zenon, <3>1, <3>2, <3>3
    <2>4. ASSUME NEW c \in Threads, Load(c) PROVE SlotsOK' /\ OldOK'
      <3>1. tablePc' = [tablePc EXCEPT ![c] = "unlock"] /\ UNCHANGED rest /\ ~ Growing(c)
        BY Zenon, <2>4 DEF Load, Goto, Growing
      <3> QED BY Zenon, <1>0, <3>1, QuietStep
    <2>5. ASSUME NEW c \in Threads, Store(c) PROVE SlotsOK' /\ OldOK'
      <3>1. /\ tablePc' = [tablePc EXCEPT ![c] = "insert"] /\ UNCHANGED rest /\ ~ Growing(c)
            /\ numEntries <= MaxEntries(scale)
        BY Zenon, <2>5 DEF Store, Goto, Growing
      <3> QED BY Zenon, <1>0, <3>1, QuietStep
    <2>6. ASSUME NEW c \in Threads, Unlock(c) PROVE SlotsOK' /\ OldOK'
      <3>1. tablePc' = [tablePc EXCEPT ![c] = "idle"] /\ UNCHANGED rest /\ ~ Growing(c)
        BY Zenon, <2>6 DEF Unlock, Goto, Growing
      <3> QED BY Zenon, <1>0, <3>1, QuietStep
    <2>7. ASSUME NEW c \in Threads, Transfer(c) \/ Grown(c) \/ StoreFull(c) \/ Insert(c)
          PROVE  SlotsOK' /\ OldOK'
      BY <1>0, <2>7, TransferStep, GrownStep, StoreFullStep, InsertStep
    <2> QED BY <2>1, <2>2, <2>3, <2>4, <2>5, <2>6, <2>7 DEF TableNext, TableWork
  <1> QED BY Zenon, <1>1, <1>2 DEF TableInv

\* and it implies that whatever is stored is found.
LEMMA TableInvImplies ==
    ASSUME TableOK, PowersOK(MaxScale), TableInv
    PROVE  StoredIsFound
  <1>1. CallsOK /\ SlotsOK /\ OldOK
    BY Zenon DEF TableInv
  <1>2. /\ 2^scale \in Nat /\ scale \in 0 .. MaxScale
        /\ Table(slots, 2^scale) /\ Reachable(slots) /\ HasRoom(slots) /\ HashOK
    BY Zenon, <1>1, SlotsHaveRoom
  <1>3. NumSlots(slots) = 2^scale /\ DOMAIN slots = 0 .. 2^scale - 1 /\ slots \in [0 .. 2^scale - 1 -> Entries]
    BY Zenon, <1>2, TableFacts DEF Table
  <1>4. /\ old = <<>> \/ old \in [0 .. 2^(scale - 1) - 1 -> Entries]
        /\ index \in 0 .. 2^scale
    <2>1. CASE IsGrowing
      <3>1. old \in [0 .. 2^(scale - 1) - 1 -> Entries] /\ index \in 0 .. 2^(scale - 1) /\ scale - 1 \in DefaultScale .. MaxScale
        BY Zenon, <1>1, <2>1 DEF OldOK, WellFormed, Table
      <3>2. scale - 1 \in 0 .. MaxScale /\ (scale - 1) + 1 = scale
        BY <1>2, <3>1 DEF TableOK
      <3>3. 2^(scale - 1) \in Nat /\ 2^scale = 2 * 2^(scale - 1)
        BY Zenon, <3>2 DEF PowersOK
      <3> QED BY <3>1, <3>3
    <2>2. CASE ~ IsGrowing
      BY <1>1, <1>2, <2>2 DEF OldOK
    <2> QED BY Zenon, <2>1, <2>2
  <1>5. TableTypeOK
    BY Zenon, <1>1, <1>3, <1>4 DEF TableTypeOK, CallsOK, SlotsOK, Inside
  <1>6. EntriesAreReachable
    BY Zenon, <1>2 DEF EntriesAreReachable, Reachable
  <1>7. ProbesEnd
    BY Zenon, <1>2 DEF ProbesEnd, HasRoom
  <1> QED BY Zenon, <1>5, <1>6, <1>7 DEF StoredIsFound

\* For any keys, hashes, operations and number of CPUs: whatever load, store, insert
\* and grow do, and while grow moves the entries, every entry of the table is where
\* find looks for it, a key is there once, and there is an empty slot, so that the
\* loops of find and insert end.
THEOREM StoredAlwaysFound ==
    ASSUME TableOK, SizesOK, PowersOK(MaxScale)
    PROVE  TableSpec => []StoredIsFound
  <1>1. TableInit => TableInv
    BY Zenon, TableInvInit
  <1>2. TableInv /\ [TableNext]_tableVars => TableInv'
    BY Zenon, TableInvStep
  <1>3. TableInv => StoredIsFound
    BY Zenon, TableInvImplies
  <1> QED BY <1>1, <1>2, <1>3, PTL DEF TableSpec

-----------------------------------------------------------------------------
(* The map that the table shows.                                           *)

\* The value of a key, if the table is t and the old one u.
Either(t, u, k) == IF \E v \in Values : Holds(t, k, v) THEN Content(t, k) ELSE Content(u, k)

\* Between calls of grow, the table is the new slots.
LEMMA EitherStable ==
    ASSUME NEW t, NEW k
    PROVE  Either(t, <<>>, k) = Content(t, k)
  <1>1. \A v : ~ Holds(<<>>, k, v)
    BY DEF Holds
  <1>2. Content(<<>>, k) = NoValue
    BY Zenon, <1>1, NoContent
  <1> QED BY <1>2, Zenon DEF Either, Content

\* During grow, the table is still what the old slots hold.
LEMMA EitherGrowing ==
    ASSUME HashOK, NEW n, NEW t, Table(t, n), NEW m, NEW u, Table(u, m), Reachable(u),
           NEW i, Moved(t, u, i), NEW k \in Keys
    PROVE  Either(t, u, k) = Content(u, k)
  <1>1. (\E w \in Values : Holds(t, k, w)) => Content(t, k) = Content(u, k)
    BY Zenon, MovedIsContent
  <1> QED BY <1>1, Zenon DEF Either

\* At the end of grow, the new slots hold what the old ones did.
LEMMA MovedAll ==
    ASSUME HashOK, NEW n, NEW t, Table(t, n), NEW m, NEW u, Table(u, m), Reachable(u),
           NEW i, Moved(t, u, i), NEW k \in Keys, \A j \in DOMAIN u : j < i
    PROVE  Content(t, k) = Content(u, k)
  <1>1. \A w : Holds(t, k, w) <=> Holds(u, k, w)
    BY Zenon, MovedIsContent
  <1> QED BY Zenon, <1>1, SameContent

\* What the map holds is what the slots do or, during grow, what the old ones do.
LEMMA ValueNow ==
    ASSUME TableOK, PowersOK(MaxScale), TableInv, NEW k \in Keys
    PROVE  /\ ~ IsGrowing => ValueOf(k) = Content(slots, k)
           /\ IsGrowing => ValueOf(k) = Content(old, k)
  <1>1. SlotsOK /\ OldOK
    BY Zenon DEF TableInv
  <1>2. Table(slots, 2^scale) /\ HashOK
    BY Zenon, <1>1, SlotsHaveRoom
  <1>3. ValueOf(k) = Either(slots, old, k)
    BY Zenon DEF ValueOf, Either
  <1>4. CASE ~ IsGrowing
    <2>1. old = <<>>
      BY Zenon, <1>1, <1>4 DEF OldOK
    <2> QED BY Zenon, <1>3, <1>4, <2>1, EitherStable
  <1>5. CASE IsGrowing
    <2>1. Table(old, 2^(scale - 1)) /\ Reachable(old) /\ Moved(slots, old, index)
      BY Zenon, <1>1, <1>5 DEF OldOK, WellFormed
    <2> QED BY <1>2, <1>3, <1>5, <2>1, EitherGrowing
  <1> QED BY Zenon, <1>4, <1>5

\* What ValueNow says of every key.
ValuesNow ==
    \A k \in Keys : /\ ~ IsGrowing => ValueOf(k) = Content(slots, k)
                    /\ IsGrowing => ValueOf(k) = Content(old, k)

\* The map of AtomicMap that the slots show, and the phases of the calls.
Shown == [k \in Keys |-> ValueOf(k)]
Phases == [c \in Threads |-> Phase(c)]

\* How a step of a CPU changes the phases of the calls.
LEMMA PhaseStep ==
    ASSUME CallsOK, NEW c \in Threads, NEW x, tablePc' = [tablePc EXCEPT ![c] = x]
    PROVE  /\ Phases' = [Phases EXCEPT ![c] = IF x = "idle" THEN "idle"
                                     ELSE IF x \in {"unlock", "regrow"} THEN "done" ELSE "called"]
           /\ Phases[c] = Phase(c)
  <1>1. tablePc \in [Threads -> {"idle", "lock"} \cup Inside]
    BY Zenon DEF CallsOK
  <1>2. \A d \in Threads : tablePc'[d] = IF d = c THEN x ELSE tablePc[d]
    BY Zenon, <1>1
  <1> QED BY Zenon, <1>2 DEF Phases, Phase

\* A step that leaves the slots alone leaves the map alone.
LEMMA MapSame ==
    ASSUME UNCHANGED <<slots, old>>
    PROVE  Shown' = Shown
  BY Zenon DEF Shown, ValueOf, Content

\* A call of load or store is a call of the map's.
LEMMA InvokeMaps ==
    ASSUME CallsOK, NEW c \in Threads, Invoke(c)
    PROVE  Map!Call(c)
  <1>1. /\ tablePc[c] = "idle" /\ tablePc' = [tablePc EXCEPT ![c] = "lock"]
        /\ UNCHANGED <<slots, old, result>> /\ \E o \in Operations : op' = [op EXCEPT ![c] = o]
    BY Zenon DEF Invoke, Goto
  <1>2. Phases' = [Phases EXCEPT ![c] = "called"] /\ Phases[c] = "idle"
    <2>1. Phase(c) = "idle"
      BY Zenon, <1>1 DEF Phase
    <2>2. tablePc' = [tablePc EXCEPT ![c] = "lock"]
      BY Zenon, <1>1
    <2>3. /\ Phases' = [Phases EXCEPT ![c] = IF "lock" = "idle" THEN "idle"
                                   ELSE IF "lock" \in {"unlock", "regrow"} THEN "done" ELSE "called"]
          /\ Phases[c] = Phase(c)
      BY Zenon, <2>2, PhaseStep
    <2> QED BY Zenon, <2>1, <2>3
  <1>3. Shown' = Shown
    BY Zenon, <1>1, MapSame
  <1> QED BY Zenon, <1>1, <1>2, <1>3 DEF Map!Call, Shown, Phases

\* The unlock and return of load and store return from the map.
LEMMA UnlockMaps ==
    ASSUME CallsOK, NEW c \in Threads, Unlock(c)
    PROVE  Map!Return(c)
  <1>1. /\ tablePc[c] = "unlock" /\ tablePc' = [tablePc EXCEPT ![c] = "idle"]
        /\ UNCHANGED <<slots, old>> /\ op' = [op EXCEPT ![c] = NoOp]
        /\ result' = [result EXCEPT ![c] = NoValue]
    BY Zenon DEF Unlock, Goto
  <1>2. Phases' = [Phases EXCEPT ![c] = "idle"] /\ Phases[c] = "done"
    BY Zenon, <1>1, PhaseStep DEF Phase
  <1>3. Shown' = Shown
    BY Zenon, <1>1, MapSame
  <1> QED BY Zenon, <1>1, <1>2, <1>3 DEF Map!Return, Map!NoOp, NoOp, Shown, Phases

\* load takes effect when it searches: it returns what the map holds.
LEMMA LoadMaps ==
    ASSUME TableOK, PowersOK(MaxScale), TableInv, ValuesNow, NEW c \in Threads, Load(c)
    PROVE  Map!Do(c)
  <1>0. CallsOK /\ SlotsOK
    BY Zenon DEF TableInv
  <1>1. /\ tablePc[c] = "load" /\ tablePc' = [tablePc EXCEPT ![c] = "unlock"]
        /\ UNCHANGED <<slots, old, op>>
        /\ result' = [result EXCEPT ![c] = Find(slots, op[c].key)]
    BY Zenon DEF Load, Goto
  <1>2. Phases' = [Phases EXCEPT ![c] = "done"] /\ Phases[c] = "called"
    BY Zenon, <1>0, <1>1, PhaseStep DEF Phase
  <1>3. Shown' = Shown
    BY Zenon, <1>1, MapSame
  <1>4. op[c] \in Operations /\ op[c].kind = "load" /\ op[c].key \in Keys
    BY Zenon, <1>0, <1>1 DEF CallsOK, TableOK
  <1>5. ~ IsGrowing
    BY Zenon, <1>0, <1>1, OneInside DEF IsGrowing, Growing, Inside
  <1>6. Find(slots, op[c].key) = Shown[op[c].key]
    <2>1. Find(slots, op[c].key) = Content(slots, op[c].key)
      BY Zenon, <1>0, <1>4, SlotsHaveRoom, ContentFound
    <2> QED BY Zenon, <1>4, <1>5, <2>1 DEF ValuesNow, Shown
  <1>7. Shown' = [Shown EXCEPT ![op[c].key] = Shown[op[c].key]]
    BY Zenon, <1>3, <1>4 DEF Shown
  <1> QED BY <1>1, <1>2, <1>4, <1>6, <1>7 DEF Map!Do, Map!After, Shown, Phases

\* insert, with either policy, changes the value of its key or nothing.
LEMMA InsertedContent ==
    ASSUME TableOK, PowersOK(MaxScale), SlotsOK, NEW o \in Operations, o.kind # "load", NEW k \in Keys
    PROVE  /\ Writes(o) <=> o.kind = "overwrite" \/ Content(slots, o.key) = NoValue
           /\ Content(Inserted(o), k) = IF k = o.key /\ Writes(o) THEN o.value ELSE Content(slots, k)
  <1>1. o.key \in Keys /\ o.value \in Values
    BY Zenon DEF TableOK
  <1>2. Table(slots, 2^scale) /\ Reachable(slots) /\ Stored(slots) /\ HasRoom(slots) /\ HashOK
    BY Zenon, SlotsHaveRoom
  <1>3. Has(slots, o.key) <=> Content(slots, o.key) # NoValue
    BY Zenon, <1>1, <1>2, ContentFound
  <1>4. Content(Put(slots, o.key, o.value), k) = IF k = o.key THEN o.value ELSE Content(slots, k)
    BY <1>1, <1>2, PutContent
  <1> QED BY <1>3, <1>4, Zenon DEF Writes, Inserted

\* store takes effect when insert writes, or sees that there is nothing to write,
\* also if grow then moves the entry.
LEMMA InsertMaps ==
    ASSUME TableOK, PowersOK(MaxScale), TableInv, ValuesNow, ValuesNow', NEW c \in Threads, Insert(c)
    PROVE  Map!Do(c)
  <1> DEFINE o == op[c]
             t == Inserted(o)
             far == MaxScan < Scan(slots, o.key)
             x == IF far THEN "regrow" ELSE "unlock"
  <1>0. CallsOK /\ SlotsOK /\ tablePc \in [Threads -> {"idle", "lock"} \cup Inside]
    BY DEF TableInv, CallsOK
  <1>1. /\ tablePc[c] = "insert" /\ tablePc' = [tablePc EXCEPT ![c] = x]
        /\ IF far THEN Grow(t) ELSE slots' = t /\ UNCHANGED <<scale, old, index>>
        /\ op' = op /\ result' = [result EXCEPT ![c] = IF Writes(o) THEN Written ELSE Skipped]
    BY Zenon DEF Insert, Goto
  <1>2. Phases' = [Phases EXCEPT ![c] = "done"] /\ Phases[c] = "called"
    <2>1. Phase(c) = "called" /\ x \in {"unlock", "regrow"} /\ x # "idle"
      BY <1>1 DEF Phase
    <2> HIDE DEF x
    <2> QED BY Zenon, <1>0, <1>1, <2>1, PhaseStep
  <1>3. o \in Operations /\ o.kind \in {"overwrite", "keep"} /\ o.key \in Keys
    BY Zenon, <1>0, <1>1 DEF CallsOK, TableOK
  <1>4. tablePc'[c] = x /\ \A d \in Threads \ {c} : tablePc'[d] = tablePc[d] /\ tablePc[d] \notin Inside
    BY Zenon, <1>0, <1>1, OneInside DEF Inside
  <1>5. ~ IsGrowing /\ (IsGrowing' <=> far)
    BY <1>1, <1>4 DEF IsGrowing, Growing, Inside
  <1> HIDE DEF far, x, t
  <1>6. \A k \in Keys : ValueOf(k) = Content(slots, k)
    BY Zenon, <1>5 DEF ValuesNow
  <1>7. \A k \in Keys : ValueOf(k)' = Content(t, k)
    <2>1. far => old' = t
      BY Zenon, <1>1 DEF Grow
    <2>2. ASSUME NEW k \in Keys PROVE ValueOf(k)' = Content(t, k)
      <3>1. far => ValueOf(k)' = Content(old', k)
        BY <1>5 DEF ValuesNow, Content
      <3>2. ~ far => ValueOf(k)' = Content(slots', k)
        BY Zenon, <1>5 DEF ValuesNow, Content
      <3> QED BY Zenon, <1>1, <2>1, <3>1, <3>2
    <2> QED BY Zenon, <2>2
  <1>8. Writes(o) <=> o.kind = "overwrite" \/ Shown[o.key] = NoValue
    BY Zenon, <1>0, <1>3, <1>6, InsertedContent DEF Shown
  <1>9. Shown' = [Shown EXCEPT ![o.key] = IF Writes(o) THEN o.value ELSE Shown[o.key]]
    <2>1. \A k \in Keys : Content(t, k) = IF k = o.key /\ Writes(o) THEN o.value ELSE Content(slots, k)
      BY <1>0, <1>3, InsertedContent DEF t
    <2>2. \A k \in Keys : ValueOf(k)' = IF k = o.key /\ Writes(o) THEN o.value ELSE ValueOf(k)
      BY Zenon, <1>6, <1>7, <2>1
    <2> QED BY Zenon, <1>3, <2>2 DEF Shown
  <1>10. Map!After(o) = IF Writes(o) THEN o.value ELSE Shown[o.key]
    BY Zenon, <1>3, <1>8 DEF Map!After, Shown
  <1>11. result' = [result EXCEPT ![c] = IF o.kind = "load" THEN Shown[o.key]
                       ELSE IF o.kind = "overwrite" \/ Shown[o.key] = NoValue THEN Written ELSE Skipped]
    BY Zenon, <1>1, <1>3, <1>8
  <1> QED BY Zenon, <1>1, <1>2, <1>9, <1>10, <1>11 DEF Map!Do, Shown, Phases

\* The steps of grow, and those that only take the lock or compare num_entries,
\* change nothing that the map shows.
LEMMA QuietMaps ==
    ASSUME TableOK, PowersOK(MaxScale), TableInv, TableInv', ValuesNow, ValuesNow', NEW c \in Threads,
           Lock(c) \/ Store(c) \/ StoreFull(c) \/ Transfer(c) \/ Grown(c)
    PROVE  Shown' = Shown /\ Phases' = Phases /\ UNCHANGED <<op, result>>
  <1>0. CallsOK /\ SlotsOK /\ OldOK /\ SlotsOK' /\ tablePc \in [Threads -> {"idle", "lock"} \cup Inside]
    BY Zenon DEF TableInv, CallsOK
  <1>1. CASE Lock(c) \/ Store(c)
    <2>1. UNCHANGED <<slots, old, op, result>>
      BY Zenon, <1>1 DEF Lock, Store
    <2>2. /\ tablePc[c] \in {"lock", "store"}
          /\ \E x \in {"load", "store", "insert"} : tablePc' = [tablePc EXCEPT ![c] = x]
      BY Zenon, <1>1 DEF Lock, Store, Goto
    <2>3. Phases' = Phases
      BY Zenon, <1>0, <2>2 DEF Phases, Phase
    <2> QED BY Zenon, <2>1, <2>3, MapSame
  <1>2. CASE StoreFull(c)
    <2>1. /\ tablePc[c] = "store" /\ tablePc' = [tablePc EXCEPT ![c] = "grow"] /\ old' = slots
          /\ UNCHANGED <<op, result>>
      BY Zenon, <1>2 DEF StoreFull, Goto, Grow
    <2>2. Phases' = Phases
      BY Zenon, <1>0, <2>1 DEF Phases, Phase
    <2>3. ~ IsGrowing
      BY Zenon, <1>0, <2>1, OneInside DEF IsGrowing, Growing, Inside
    <2>4. IsGrowing'
      BY Zenon, <1>0, <2>1 DEF IsGrowing, Growing
    <2>5. ASSUME NEW k \in Keys PROVE ValueOf(k)' = ValueOf(k)
      <3>1. ValueOf(k)' = Content(old', k)
        BY Zenon, <2>4 DEF ValuesNow, Content
      <3>2. ValueOf(k) = Content(slots, k)
        BY Zenon, <2>3 DEF ValuesNow
      <3> QED BY Zenon, <2>1, <3>1, <3>2
    <2> QED BY Zenon, <2>1, <2>2, <2>5 DEF Shown
  <1>3. CASE Transfer(c)
    <2>1. UNCHANGED <<tablePc, old, op, result>>
      BY Zenon, <1>3 DEF Transfer
    <2>2. Phases' = Phases
      BY Zenon, <2>1 DEF Phases, Phase
    <2>3. IsGrowing /\ IsGrowing'
      BY Zenon, <1>3, <2>1 DEF Transfer, IsGrowing, Growing
    <2>4. ASSUME NEW k \in Keys PROVE ValueOf(k)' = ValueOf(k)
      <3>1. ValueOf(k)' = Content(old', k)
        BY Zenon, <2>3 DEF ValuesNow, Content
      <3>2. ValueOf(k) = Content(old, k)
        BY Zenon, <2>3 DEF ValuesNow
      <3> QED BY Zenon, <2>1, <3>1, <3>2
    <2> QED BY Zenon, <2>1, <2>2, <2>4 DEF Shown
  <1>4. CASE Grown(c)
    <2>1. /\ tablePc[c] \in {"grow", "regrow"} /\ index \notin DOMAIN old
          /\ tablePc' = [tablePc EXCEPT ![c] = IF @ = "grow" THEN "insert" ELSE "unlock"]
          /\ UNCHANGED <<slots, op, result>>
      BY Zenon, <1>4 DEF Grown, Growing
    <2>2. \A d \in Threads \ {c} : tablePc'[d] = tablePc[d] /\ tablePc[d] \notin Inside
      BY Zenon, <1>0, <2>1, OneInside DEF Inside
    <2>3. tablePc'[c] = IF tablePc[c] = "grow" THEN "insert" ELSE "unlock"
      BY Zenon, <1>0, <2>1
    <2>4. Phases' = Phases
      BY <2>1, <2>2, <2>3 DEF Phases, Phase
    <2>5. IsGrowing /\ ~ IsGrowing'
      BY <2>1, <2>2, <2>3 DEF IsGrowing, Growing, Inside
    <2>6. /\ Table(old, 2^(scale - 1)) /\ Reachable(old) /\ Moved(slots, old, index)
          /\ index \in 0 .. 2^(scale - 1)
      BY Zenon, <1>0, <2>5 DEF OldOK, WellFormed
    <2>7. \A j \in DOMAIN old : j < index
      <3>1. DOMAIN old = 0 .. 2^(scale - 1) - 1 /\ 2^(scale - 1) \in Nat
        BY Zenon, <2>6, TableFacts DEF Table
      <3> QED BY <2>1, <2>6, <3>1
    <2>8. ASSUME NEW k \in Keys PROVE ValueOf(k)' = ValueOf(k)
      <3>1. ValueOf(k)' = Content(slots', k)
        BY Zenon, <2>5 DEF ValuesNow, Content
      <3>2. ValueOf(k) = Content(old, k)
        BY Zenon, <2>5 DEF ValuesNow
      <3>3. Table(slots, 2^scale) /\ HashOK
        BY Zenon, <1>0, SlotsHaveRoom
      <3>4. Content(slots, k) = Content(old, k)
        BY <2>6, <2>7, <3>3, MovedAll
      <3> QED BY <2>1, <3>1, <3>2, <3>4
    <2> QED BY Zenon, <2>1, <2>4, <2>8 DEF Shown
  <1> QED BY Zenon, <1>1, <1>2, <1>3, <1>4

\* The table that there is at first shows the map that there is at first.
LEMMA MapInit ==
    ASSUME TableOK, SizesOK, PowersOK(MaxScale), TableInit
    PROVE  Map!Init
  <1>1. TableInv
    BY Zenon, TableInvInit
  <1>2. slots = Filled[Len(Before)] /\ old = <<>>
    BY Zenon DEF TableInit
  <1>3. ~ IsGrowing
    BY Zenon DEF TableInit, IsGrowing, Growing
  <1>4. ASSUME NEW k \in Keys PROVE ValueOf(k) = Find(slots, k)
    <2>1. ValueOf(k) = Content(slots, k)
      BY Zenon, <1>1, <1>3, ValueNow
    <2>2. SlotsOK
      BY Zenon, <1>1 DEF TableInv
    <2> QED BY Zenon, <2>1, <2>2, SlotsHaveRoom, ContentFound
  <1>5. [c \in Threads |-> Phase(c)] = [c \in Threads |-> "idle"]
    BY Zenon DEF TableInit, Phase
  <1> QED BY <1>2, <1>4, <1>5, Zenon DEF Map!Init, Map!NoOp, NoOp, TableInit

\* For any keys, hashes, operations and number of CPUs: load and store of a
\* locked_hash_table, with either policy, are atomic operations on a map, although
\* grow moves the entries one at a time in the middle of a store.
THEOREM TableImplementsMap ==
    ASSUME TableOK, SizesOK, PowersOK(MaxScale)
    PROVE  TableSpec => ImplementsMap
  <1>1. TableInit => TableInv /\ Map!Init
    BY Zenon, TableInvInit, MapInit
  <1>2. TableInv /\ [TableNext]_tableVars => TableInv'
    BY Zenon, TableInvStep
  <1>3. TableInv => ValuesNow
    BY Zenon, ValueNow DEF ValuesNow
  <1>4. TableInv /\ TableInv' /\ ValuesNow /\ ValuesNow' /\ [TableNext]_tableVars => [Map!Next]_Map!vars
    <2> SUFFICES ASSUME TableInv, TableInv', ValuesNow, ValuesNow', [TableNext]_tableVars
                 PROVE  [Map!Next]_Map!vars
      OBVIOUS
    <2>1. CASE UNCHANGED tableVars
      BY Zenon, <2>1 DEF tableVars, Map!vars, ValueOf, Content, Phase
    <2>2. ASSUME NEW c \in Threads, Invoke(c) \/ Unlock(c) \/ Load(c) \/ Insert(c) PROVE Map!Next
      BY <2>2, InvokeMaps, UnlockMaps, LoadMaps, InsertMaps DEF Map!Next, TableInv
    <2>3. ASSUME NEW c \in Threads, Lock(c) \/ Store(c) \/ StoreFull(c) \/ Transfer(c) \/ Grown(c)
          PROVE  UNCHANGED Map!vars
      BY Zenon, <2>3, QuietMaps DEF Map!vars, Shown, Phases
    <2> QED BY Zenon, <2>1, <2>2, <2>3 DEF TableNext, TableWork
  <1> QED BY <1>1, <1>2, <1>3, <1>4, PTL DEF TableSpec, ImplementsMap, Map!Spec

=============================================================================
