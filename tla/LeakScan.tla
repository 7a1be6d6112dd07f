------------------------------ MODULE LeakScan ------------------------------
(***************************************************************************)
(* The leak detector (leak_detector/descriptor.cc, thread.cc and the        *)
(* scanner in leakpolicy_scan.c): descriptors of the objects that the       *)
(* program allocates, and the thread that scans memory for pointers to them *)
(* and reports those that nothing points to, with interrupts disabled on    *)
(* its own CPU only; and, with state of its own, the walk over the page     *)
(* tables by which the thread finds the words to scan.                      *)
(***************************************************************************)
EXTENDS Integers, Sequences, FiniteSets

CONSTANTS Objects,         \* 1 .. n; an object's index is that of its descriptor
          Globals,         \* words outside of the objects, such as 0 and -1
          MaxScans         \* bound: how often the scan thread wakes up

\* What is assumed of the constants.
ConstantsOK == Objects = 1 .. Cardinality(Objects) /\ Globals \cap Objects = {}

VARIABLES desc,            \* the descriptors
          memory,          \* the pointer in every word; each object has one
          execution_state, \* whether there was an allocation in this epoch
          scan, scans,     \* the scan, and how many there were
          before           \* the descriptors when it began, until the program moves

vars == <<desc, memory, execution_state, scan, scans, before>>

NULL == 99
Words == Globals \cup Objects

\* valid: DESCRIPTORS has a pointer to it, which it keeps when it is freed.
NoDescriptor == [valid |-> FALSE, is_active |-> FALSE, is_reachable |-> FALSE, accessed |-> FALSE]
NoScan == [pc |-> "idle", at |-> 0, leaked |-> {}]

Init ==
    /\ desc = [i \in Objects |-> NoDescriptor]
    /\ memory = [w \in Words |-> NULL]
    /\ execution_state = FALSE
    /\ scan = NoScan /\ scans = 0
    /\ before = desc

\* The program moves: what the scan began with is not what it goes on with.
Moves == before' = IF scan.pc = "idle" THEN before ELSE [i \in Objects |-> NoDescriptor]
Quiet == before # [i \in Objects |-> NoDescriptor]

-----------------------------------------------------------------------------
(* The program and its wrappers                                            *)

Allocate(i) ==
    /\ ~desc[i].is_active
    /\ desc' = [desc EXCEPT ![i] = [NoDescriptor EXCEPT !.valid = TRUE, !.is_active = TRUE]]
    /\ execution_state' = TRUE
    /\ Moves
    /\ UNCHANGED <<memory, scan, scans>>

\* The object is zeroed, and the descriptor but for bits that are not set to
\* anything before they are stored; is_reachable is one.
Free(i) ==
    /\ desc[i].is_active
    /\ \E bit \in BOOLEAN : desc' = [desc EXCEPT ![i] = [NoDescriptor EXCEPT !.valid = TRUE, !.is_reachable = bit]]
    /\ memory' = [memory EXCEPT ![i] = NULL]
    /\ Moves
    /\ UNCHANGED <<execution_state, scan, scans>>

\* granary_access_descriptor_<reg>; the program may hold the pointer in a register.
granary_access_descriptor(i) ==
    /\ desc[i].is_active
    /\ desc' = [desc EXCEPT ![i].accessed = TRUE]
    /\ Moves
    /\ UNCHANGED <<memory, execution_state, scan, scans>>

Store(w) ==
    /\ w \in Objects => desc[w].is_active
    /\ \E p \in {NULL} \cup {i \in Objects : desc[i].is_active} : memory' = [memory EXCEPT ![w] = p]
    /\ Moves
    /\ UNCHANGED <<desc, execution_state, scan, scans>>

-----------------------------------------------------------------------------
(* leak_policy_scan_callback                                               *)

\* Bits that are not set to anything are stored too, but none that the report
\* still tells apart.
set_state(d) == [d EXCEPT !.is_reachable = TRUE]

\* The descriptor is marked, and the scan goes on from there: through every
\* descriptor that is found and is not marked yet. The loop runs up to and
\* including the size, so it reads the word that follows the object too.
scan_descriptor(d, i) ==
    LET Found(m) == {memory[w] : w \in {m, m + 1} \cap Objects} \ {NULL}
        S[n \in Objects \cup {0}] ==
            IF n = 0 THEN {i}
            ELSE S[n - 1] \cup {j \in UNION {Found(m) : m \in S[n - 1]} : d[j].valid /\ ~d[j].is_reachable}
    IN  [j \in Objects |-> IF j \in S[Cardinality(Objects)] THEN set_state(d[j]) ELSE d[j]]

StartScan ==
    /\ scan.pc = "idle" /\ scans < MaxScans
    /\ scans' = scans + 1
    /\ execution_state' = FALSE
    /\ scan' = IF execution_state THEN [pc |-> "epoch", at |-> 1, leaked |-> {}] ELSE scan
    /\ before' = desc
    /\ UNCHANGED <<desc, memory>>

Advance(next) == IF scan.at < Cardinality(Objects) THEN [scan EXCEPT !.at = @ + 1]
                 ELSE [scan EXCEPT !.pc = next, !.at = 1]

\* As EpochStep would be if it only began a new epoch.
EpochStep_ClearOnly ==
    /\ scan.pc = "epoch"
    /\ desc' = [desc EXCEPT ![scan.at].accessed = FALSE]
    /\ scan' = IF scan.at = Cardinality(Objects) THEN [pc |-> "walk", at |-> -1, leaked |-> {}] ELSE Advance("walk")
    /\ UNCHANGED <<memory, execution_state, scans, before>>

\* What was accessed since the last scan is reachable.
EpochStep ==
    /\ scan.pc = "epoch"
    /\ LET i == scan.at
           cleared == [desc EXCEPT ![i].accessed = FALSE]
       IN  desc' = IF ~desc[i].valid \/ ~desc[i].accessed THEN desc
                   ELSE IF desc[i].is_reachable THEN cleared ELSE scan_descriptor(cleared, i)
    /\ scan' = IF scan.at = Cardinality(Objects) THEN [pc |-> "walk", at |-> -1, leaked |-> {}] ELSE Advance("walk")
    /\ UNCHANGED <<memory, execution_state, scans, before>>

\* A pointer that is found in memory, if it is within its object; the bounds in
\* a descriptor that was freed are those of nothing.
watchpoint_callback(w) ==
    LET i == memory[w]
    IN  IF i = NULL THEN {desc}
        ELSE IF ~desc[i].valid \/ desc[i].is_reachable THEN {desc}
        ELSE {scan_descriptor(desc, i)} \cup (IF desc[i].is_active THEN {} ELSE {desc})

\* kernel_pagetable_walk: every word that it reads, those of objects
\* included.
WalkStep ==
    /\ scan.pc = "walk"
    /\ desc' \in IF scan.at \in Words THEN watchpoint_callback(scan.at) ELSE {desc}
    /\ scan' = Advance("report")
    /\ UNCHANGED <<memory, execution_state, scans, before>>

ReportStep ==
    /\ scan.pc = "report"
    /\ LET i == scan.at
           leaked == desc[i].valid /\ ~desc[i].is_reachable /\ desc[i].is_active
       IN  scan' = [Advance("done") EXCEPT !.leaked = IF leaked THEN @ \cup {i} ELSE @]
    /\ UNCHANGED <<desc, memory, execution_state, scans, before>>

\* The scan thread waits.
EndScan ==
    /\ scan.pc = "done"
    /\ scan' = NoScan
    /\ UNCHANGED <<desc, memory, execution_state, scans, before>>

Next ==
    \/ \E i \in Objects : Allocate(i) \/ Free(i) \/ granary_access_descriptor(i)
    \/ \E w \in Words : Store(w)
    \/ StartScan \/ EpochStep \/ WalkStep \/ ReportStep \/ EndScan

Spec == Init /\ [][Next]_vars

-----------------------------------------------------------------------------

\* If the program does not move during a scan, the scan reports exactly the
\* objects that no word in memory points to and that were not accessed since
\* the scan before, of those that no scan has found reachable yet.
ScanIsRight ==
    scan.pc = "done" /\ Quiet =>
        scan.leaked = {i \in Objects : /\ before[i].is_active /\ ~before[i].is_reachable
                                       /\ ~before[i].accessed
                                       /\ \A w \in Words : memory[w] # i}

-----------------------------------------------------------------------------
(* kernel_pagetable_walk (leak_detector/kernel/leakpolicy_scan.c): runs of   *)
(* entries with the same protection are put together, and a run of pages    *)
(* that are writable and not executable is scanned once it ends. Addresses  *)
(* are numbers of pages.                                                    *)

CONSTANTS Tables,    \* the page tables: sequences of entries in the order of the walk;
                     \* the first and the last page of the address space are holes
          Markers    \* address_markers: where the areas of the address space begin

VARIABLES table,     \* the entries to walk
          at,        \* the next one
          st,        \* struct pg_state
          scanned    \* the words that were read: the first of a page, and the rest

walkVars == <<table, at, st, scanned>>

\* An entry is a hole, a page (of many pages, if it is large), or a table, whose
\* entries follow.
Entry(kind, prot, level, addr, pages) ==
    [kind |-> kind, prot |-> prot, level |-> level, addr |-> addr, pages |-> pages]

NoState == [level |-> 0, current_prot |-> "none", start_address |-> 0, current_address |-> 0, marker |-> 1]

WalkInit ==
    /\ table \in Tables
    /\ at = 1
    /\ st = NoState
    /\ scanned = {}

\* The words from start up to end, that at end included.
scan_kernel_memory(start, end) ==
    {<<p, part>> \in (start .. end) \X {"first", "rest"} : p = end => part = "first"}

\* The first entry only starts a run. A later one ends the run if it has another
\* protection or level, or if it begins another area.
note_page(s, prot, level) ==
    LET passed == s.marker < Len(Markers) /\ s.current_address >= Markers[s.marker + 1]
        starts == [s EXCEPT !.current_prot = prot, !.level = level]
        ends == s.level # 0 /\ (prot # s.current_prot \/ level # s.level \/ passed)
    IN  [state |-> IF s.level = 0 THEN starts
                   ELSE IF ends THEN [starts EXCEPT !.start_address = s.current_address,
                                                    !.marker = IF passed THEN @ + 1 ELSE @]
                   ELSE s,
         words |-> IF ends /\ s.current_prot = "rw_nx"
                   THEN scan_kernel_memory(s.start_address, s.current_address) ELSE {}]

Note(noted) == st' = noted.state /\ scanned' = scanned \cup noted.words

\* The body of the loops of walk_pgd_level, walk_pud_level, walk_pmd_level and
\* walk_pte_level. A hole leaves the current address alone.
walk_level ==
    /\ at <= Len(table)
    /\ LET e == table[at]
           here == [st EXCEPT !.current_address = e.addr]
       IN  \/ e.kind = "table" /\ st' = here /\ UNCHANGED scanned
           \/ e.kind = "page" /\ Note(note_page(here, e.prot, e.level))
           \/ e.kind = "hole" /\ Note(note_page(st, "none", e.level))
    /\ at' = at + 1
    /\ UNCHANGED table

\* The end of the tables is address 0 once it is brought to its canonical form.
walk_pgd_level_End ==
    /\ at = Len(table) + 1
    /\ Note(note_page([st EXCEPT !.current_address = 0], "none", 0))
    /\ at' = at + 1
    /\ UNCHANGED table

kernel_pagetable_walk == walk_level \/ walk_pgd_level_End

WalkSpec == WalkInit /\ [][kernel_pagetable_walk]_walkVars

-----------------------------------------------------------------------------

Pages(P(_)) ==
    UNION {table[k].addr .. table[k].addr + table[k].pages - 1 : k \in {j \in DOMAIN table : P(table[j])}}
Writable(e) == e.kind = "page" /\ e.prot = "rw_nx"
Mapped(e) == e.kind = "page"
Ended == at > Len(table) + 1

\* Of every entry that is writable and not executable all words are scanned if the
\* page after it is mapped too; and what is scanned is nothing but such pages and
\* the first words of the pages that follow them.
RunsAreScanned ==
    LET w == Pages(Writable)
        m == Pages(Mapped)
    IN  /\ Ended => \A k \in DOMAIN table :
             Writable(table[k]) /\ table[k].addr + table[k].pages \in m =>
                 (table[k].addr .. table[k].addr + table[k].pages - 1) \X {"first", "rest"} \subseteq scanned
        /\ \A word \in scanned : word[1] \in w \/ (word[2] = "first" /\ word[1] - 1 \in w)

\* "Flush out the last page": every page that is writable and not executable is
\* scanned once the walk has ended.
EveryPageIsScanned ==
    Ended => \A p \in Pages(Writable) : <<p, "rest">> \in scanned
=============================================================================
