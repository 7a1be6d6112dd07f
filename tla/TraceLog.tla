------------------------------ MODULE TraceLog ------------------------------
(***************************************************************************)
(* The log of executed basic blocks (trace_log.cc): a ring of items that   *)
(* are also linked, latest first, from TRACE.  CPUs take items by          *)
(* incrementing NUM_TRACE_ENTRIES and link them by compare-and-swap; an    *)
(* item is taken again after LogEntries more.                              *)
(***************************************************************************)
EXTENDS Integers, Sequences

CONSTANTS LogCpus,
          LogEntries,  \* CONFIG_DEBUG_NUM_TRACE_LOG_ENTRIES
          MaxEntries   \* bound on the blocks that are executed

\* What is assumed of the constants.
TraceOK == LogEntries \in Nat \ {0}

VARIABLES TRACE,              \* the head of the log, 0 for nullptr
          NUM_TRACE_ENTRIES,
          LOGS,               \* the ring
          logging,            \* where each CPU is in add_entry
          linked,             \* the entries that were linked, latest first
          overrun             \* an item was taken while a CPU was still linking it

traceVars == <<TRACE, NUM_TRACE_ENTRIES, LOGS, logging, linked, overrun>>

Items == 1 .. LogEntries
ItemOf(entry) == ((entry - 1) % LogEntries) + 1

TraceInit ==
    /\ TRACE = 0 /\ NUM_TRACE_ENTRIES = 0
    /\ LOGS = [s \in Items |-> [prev |-> 0, addr |-> 0]]
    /\ logging = [c \in LogCpus |-> [pc |-> "run", entry |-> 0, prev |-> 0]]
    /\ linked = <<>> /\ overrun = FALSE

-----------------------------------------------------------------------------

\* A block begins: add_entry takes an item and writes the address. The block
\* that is logged is told by the number of its entry.
TakeItem(c) ==
    /\ logging[c].pc = "run" /\ NUM_TRACE_ENTRIES < MaxEntries
    /\ NUM_TRACE_ENTRIES' = NUM_TRACE_ENTRIES + 1
    /\ LOGS' = [LOGS EXCEPT ![ItemOf(NUM_TRACE_ENTRIES')].addr = NUM_TRACE_ENTRIES']
    /\ logging' = [logging EXCEPT ![c] = [pc |-> "load", entry |-> NUM_TRACE_ENTRIES', prev |-> 0]]
    /\ overrun' = (overrun \/ \E d \in LogCpus : /\ logging[d].pc # "run"
                                                 /\ ItemOf(logging[d].entry) = ItemOf(NUM_TRACE_ENTRIES'))
    /\ UNCHANGED <<TRACE, linked>>

LoadHead(c) ==
    /\ logging[c].pc = "load"
    /\ LOGS' = [LOGS EXCEPT ![ItemOf(logging[c].entry)].prev = TRACE]
    /\ logging' = [logging EXCEPT ![c].pc = "swap", ![c].prev = TRACE]
    /\ UNCHANGED <<TRACE, NUM_TRACE_ENTRIES, linked, overrun>>

\* As SwapHead would be if it retried without loading the head again.
SwapHead_KeepPrev(c) ==
    /\ logging[c].pc = "swap"
    /\ TRACE' = ItemOf(logging[c].entry)
    /\ linked' = <<logging[c].entry>> \o linked
    /\ logging' = [logging EXCEPT ![c].pc = "run"]
    /\ UNCHANGED <<NUM_TRACE_ENTRIES, LOGS, overrun>>

\* The weak compare-and-swap: another try after it fails.
SwapHead(c) ==
    /\ logging[c].pc = "swap"
    /\ \/ /\ TRACE = logging[c].prev
          /\ TRACE' = ItemOf(logging[c].entry)
          /\ linked' = <<logging[c].entry>> \o linked
          /\ logging' = [logging EXCEPT ![c].pc = "run"]
       \/ /\ logging' = [logging EXCEPT ![c].pc = "load"]
          /\ UNCHANGED <<TRACE, linked>>
    /\ UNCHANGED <<NUM_TRACE_ENTRIES, LOGS, overrun>>

TraceNext == \E c \in LogCpus : TakeItem(c) \/ LoadHead(c) \/ SwapHead(c)

TraceSpec == TraceInit /\ [][TraceNext]_traceVars

-----------------------------------------------------------------------------

\* The item that a reader of the log comes to in k steps from the head.
ItemAfter[k \in Nat] ==
    IF k = 0 THEN TRACE
    ELSE LET item == ItemAfter[k - 1] IN IF item = 0 THEN 0 ELSE LOGS[item].prev

\* The first n entries that the reader sees: fewer where the log ends before.
Shown(n) == [k \in {i \in 1 .. n : ItemAfter[i - 1] # 0} |-> LOGS[ItemAfter[k - 1]].addr]

\* The entries, from the head, whose items have not been taken again.
Kept == {k \in DOMAIN linked : \A j \in 1 .. k : NUM_TRACE_ENTRIES - linked[j] < LogEntries}

\* Unless the ring overran a CPU (the code relies on its size for that), the log
\* shows the blocks that were logged, latest first, back to the first whose item
\* has been taken again.
LogIsRight ==
    LET n == IF Kept = {} THEN 0 ELSE CHOOSE k \in Kept : \A j \in Kept : j <= k
    IN  ~overrun => Shown(n) = SubSeq(linked, 1, n)
=============================================================================
