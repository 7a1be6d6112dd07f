---------------------------- MODULE LinearProbing ---------------------------
(***************************************************************************)
(* Open addressing with linear probing, as the hash tables of Granary do   *)
(* it: hash_table (hash_table.h) and cpu_private_code_cache                *)
(* (cpu_code_cache.cc).  Entries are never removed.                        *)
(***************************************************************************)
EXTENDS Integers, FiniteSets

CONSTANTS
    Keys,
    Hash     \* Hash[k] is the hash of the key k.

NoKey == "no key"   \* The default key.
NoValue == "null"      \* The default value.

\* What is assumed of the constants.
HashOK == Hash \in [Keys -> Nat] /\ NoKey \notin Keys

Empty == [key |-> NoKey, value |-> NoValue]

\* n empty slots.
Fresh(n) == [i \in 0 .. n - 1 |-> Empty]

NumSlots(slots) == Cardinality(DOMAIN slots)

\* The slot that is looked at after d others.
Slot(k, d, n) == (Hash[k] + d) % n

\* How far the search for k goes: to k or to an empty slot.
Stops(slots, k) ==
    LET n == NumSlots(slots)
    IN  {d \in 0 .. n - 1 : slots[Slot(k, d, n)].key \in {NoKey, k}}

Scan(slots, k) ==
    CHOOSE d \in Stops(slots, k) : \A e \in Stops(slots, k) : d <= e

Position(slots, k) == Slot(k, Scan(slots, k), NumSlots(slots))

Has(slots, k) == slots[Position(slots, k)].key = k

\* find: the value of k, or the default one.
Find(slots, k) ==
    IF Has(slots, k) THEN slots[Position(slots, k)].value ELSE NoValue

\* The slots after k is stored.
Put(slots, k, v) ==
    [slots EXCEPT ![Position(slots, k)] = [key |-> k, value |-> v]]

\* What the slots hold, wherever it is.
Holds(slots, k, v) == \E i \in DOMAIN slots : slots[i] = [key |-> k, value |-> v]

Contains(slots, k) == \E i \in DOMAIN slots : slots[i].key = k

=============================================================================
