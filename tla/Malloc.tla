-------------------------------- MODULE Malloc ------------------------------
(***************************************************************************)
(* What a memory allocator promises to its callers: an object that is      *)
(* handed out overlaps none of the others and is big enough.               *)
(***************************************************************************)
EXTENDS Integers

CONSTANTS
    Size,      \* Memory is 0 .. Size - 1.
    Requests   \* The sizes that are asked for.

VARIABLE held  \* The objects that are handed out: [addr, size].

Bytes(o) == o.addr .. o.addr + o.size - 1

Init == held = {}

Grant(o) ==
    /\ o.size \in Requests
    /\ Bytes(o) \subseteq 0 .. Size - 1
    /\ \A p \in held : Bytes(o) \cap Bytes(p) = {}
    /\ held' = held \cup {o}

Release(o) ==
    /\ o \in held
    /\ held' = held \ {o}

Next ==
    \/ \E o \in [addr : 0 .. Size - 1, size : Requests] : Grant(o)
    \/ \E o \in held : Release(o)

Spec == Init /\ [][Next]_held

=============================================================================
