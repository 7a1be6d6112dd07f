------------------------------ MODULE AtomicMap -----------------------------
(***************************************************************************)
(* A map that is loaded from and stored to atomically: what the users of   *)
(* locked_hash_table rely on.                                              *)
(***************************************************************************)
CONSTANTS
    Cpus,
    Keys,
    Operations,  \* The operations: [kind, key, value].
    Initial,     \* What the map holds at first.
    Null,        \* The value of a key that is not in the map.
    Written,     \* What a store returns: that it wrote,
    Skipped      \* or that it did not.

VARIABLES
    map,         \* The value of each key.
    phase,       \* "idle", "called" or "done".
    op,          \* The operation of each CPU.
    result       \* Its result.

vars == <<map, phase, op, result>>

NoOp == [kind |-> "none"]

Init ==
    /\ map = Initial
    /\ phase = [c \in Cpus |-> "idle"]
    /\ op = [c \in Cpus |-> NoOp]
    /\ result = [c \in Cpus |-> Null]

Call(c) ==
    /\ phase[c] = "idle"
    /\ phase' = [phase EXCEPT ![c] = "called"]
    /\ \E o \in Operations : op' = [op EXCEPT ![c] = o]
    /\ UNCHANGED <<map, result>>

\* The value that o leaves in the map.
After(o) ==
    IF o.kind = "overwrite" \/ (o.kind = "keep" /\ map[o.key] = Null)
    THEN o.value
    ELSE map[o.key]

\* The operation takes effect.
Do(c) ==
    /\ phase[c] = "called"
    /\ phase' = [phase EXCEPT ![c] = "done"]
    /\ map' = [map EXCEPT ![op[c].key] = After(op[c])]
    /\ result' = [result EXCEPT ![c] =
                    IF op[c].kind = "load" THEN map[op[c].key]
                    ELSE IF op[c].kind = "overwrite" \/ map[op[c].key] = Null
                    THEN Written ELSE Skipped]
    /\ UNCHANGED op

Return(c) ==
    /\ phase[c] = "done"
    /\ phase' = [phase EXCEPT ![c] = "idle"]
    /\ result' = [result EXCEPT ![c] = Null]
    /\ op' = [op EXCEPT ![c] = NoOp]
    /\ UNCHANGED map

Next == \E c \in Cpus : Call(c) \/ Do(c) \/ Return(c)

Spec == Init /\ [][Next]_vars

=============================================================================
