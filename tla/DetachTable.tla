----------------------------- MODULE DetachTable ----------------------------
(***************************************************************************)
(* Detach points (detach.cc): the addresses at which Granary lets go of    *)
(* the program, and what runs there instead.  They are kept in two tables, *)
(* one for each context, of the type cpu_private_code_cache                *)
(* (cpu_code_cache.cc), which grows by distance only and whose find looks  *)
(* at a bounded number of slots.                                           *)
(***************************************************************************)
EXTENDS LinearProbing, Sequences

CONSTANTS
    Wrappers,       \* FUNCTION_WRAPPERS: [address, app, host].
    Points,         \* Detach points: [address, redirect, context].
    HostAddresses,  \* The keys that is_host_address says yes to.
    Kernel,         \* CONFIG_ENV_KERNEL
    MaxScan,        \* MAX_SCAN
    MinEntries      \* MIN_DEFAULT_ENTRIES

Contexts == {"app", "host"}

VARIABLES
    table,   \* DETACH_HASH_TABLE; no slots before the first store.
    index,   \* i, in the initialiser of the tables.
    todo,    \* The detach points that are not added yet.
    added    \* What the tables should hold (a history variable).

vars == <<table, index, todo, added>>

Init ==
    /\ table = [x \in Contexts |-> <<>>]
    /\ index = 1
    /\ todo = Points
    /\ added = [x \in Contexts |-> [k \in Keys |-> NoValue]]

-----------------------------------------------------------------------------
(* cpu_private_code_cache.                                                 *)

\* grow: the entries are inserted into twice as many slots.
grow(old) ==
    LET n == NumSlots(old)
        Copied[i \in 0 .. n] ==
            IF i = 0 THEN Fresh(2 * n)
            ELSE LET slots == Copied[i - 1]
                 IN  IF old[i - 1].key = NoKey THEN slots
                     ELSE Put(slots, old[i - 1].key, old[i - 1].value)
    IN  Copied[n]

insert(slots, k, v) ==
    IF MaxScan < Scan(slots, k) THEN grow(Put(slots, k, v)) ELSE Put(slots, k, v)

\* store, with HASH_OVERWRITE_PREV_ENTRY.
store(slots, k, v) == insert(IF slots = <<>> THEN Fresh(MinEntries) ELSE slots, k, v)

\* find, which gives up after MAX_SCAN slots.
find(slots, k) ==
    IF slots # <<>> /\ Has(slots, k) /\ Scan(slots, k) < MaxScan
    THEN Find(slots, k)
    ELSE NoValue

-----------------------------------------------------------------------------
(* detach.cc.                                                              *)

Stored(x, k, v) == IF v = NoValue THEN table[x] ELSE store(table[x], k, v)

Noted(x, k, v) == IF v = NoValue THEN added[x] ELSE [added[x] EXCEPT ![k] = v]

\* The initialiser of the tables goes through the wrappers in order.
AddWrapper ==
    /\ index <= Len(Wrappers)
    /\ LET w == Wrappers[index]
       IN  IF w.address = NoValue THEN UNCHANGED <<table, added>>
           ELSE /\ table' = [x \in Contexts |-> Stored(x, w.address, w[x])]
                /\ added' = [x \in Contexts |-> Noted(x, w.address, w[x])]
    /\ index' = index + 1
    /\ UNCHANGED todo

\* add_detach_target, called by the initialisers of other files.
add_detach_target(p) ==
    /\ index > Len(Wrappers)
    /\ table' = [table EXCEPT ![p.context] = store(@, p.address, p.redirect)]
    /\ added' = [added EXCEPT ![p.context][p.address] = p.redirect]
    /\ todo' = todo \ {p}
    /\ UNCHANGED index

\* In the kernel, application code detaches only to host code.
MayDetach(k, x) == Kernel /\ x = "app" => k \in HostAddresses

find_detach_target(k, x) ==
    IF MayDetach(k, x) THEN find(table[x], k) ELSE NoValue

Next == AddWrapper \/ \E p \in todo : add_detach_target(p)

Spec == Init /\ [][Next]_vars

-----------------------------------------------------------------------------
(* Properties.                                                             *)

\* Both tables keep every target that was added, with the redirection that was
\* added last, at a place that its probes reach, across growing.
NothingForgotten ==
    \A x \in Contexts, k \in Keys :
        IF added[x][k] = NoValue THEN table[x] = <<>> \/ ~Contains(table[x], k)
        ELSE Has(table[x], k) /\ Find(table[x], k) = added[x][k]

\* A detach target is found: find_detach_target returns "a translated target
\* address, or nullptr if this isn't a detach target".
DetachTargetsAreFound ==
    \A x \in Contexts, k \in Keys :
        MayDetach(k, x) => find_detach_target(k, x) = added[x][k]

=============================================================================
