------------------------------ MODULE Bringup -------------------------------
(***************************************************************************)
(* How Granary takes over a running kernel: init, cpu_state::init_early    *)
(* and init_late, create_idt, create_interrupt_entrypoint,                 *)
(* create_syscall_entrypoint and the shadow system call table, with        *)
(* CONFIG_FEATURE_HANDLE_INTERRUPTS and CONFIG_FEATURE_INSTRUMENT_HOST.    *)
(* Every CPU keeps taking interrupts and making system calls meanwhile,    *)
(* and resolves system calls lazily afterwards.                            *)
(*                                                                         *)
(* The code of a handler is a sequence of instructions in the order in     *)
(* which it runs: a "jmp" just goes on to the next one.                    *)
(***************************************************************************)
EXTENDS Integers, Sequences, FiniteSets

CONSTANTS BootCpus,
          Vectors,     \* 0 .. n
          NativeIdts,  \* the possible contents of the kernel's table
          NativeOf,    \* the function of each entry of the system call table
          NMI, SYSCALL, LastVector \* vectors that have their own treatment

VARIABLES delayed,     \* CONFIG_DELAYED_TAKEOVER
          native,      \* the kernel's table: per vector [host, code]
          base,        \* where each CPU's IDTR points to it
          boot,        \* what the CPU that initialises does next
          state,       \* CPU_STATES
          reg,         \* the tables that each CPU uses
          idt,         \* GLOBAL_IDT
          prev,        \* PREV_IDTR, PREV_IDTR_GEN
          protected,   \* GLOBAL_IDT is read-only
          gen,         \* LAST_SYSCALL_ENTRYPOINT, LAST_GEN_SYSCALL_ENTRYPOINT
          table,       \* SYSCALL_TABLE
          translated,  \* functions of system calls in the code cache
          run          \* what each CPU does

bootVars == <<delayed, native, base, boot, state, reg, idt, prev, protected, gen,
          table, translated, run>>

Instructions == {"push", "call 1", "call 2", "jmp", "jcc", "iret"}

\* What is assumed of the constants: there are a CPU, an entry of the system call
\* table and a vector, and a handler ends in an iret.
BootOK ==
    /\ IsFiniteSet(BootCpus) /\ BootCpus # {}
    /\ \E n \in Vectors : n \in Nat /\ Vectors = 0 .. n
    /\ NativeOf \in Seq(STRING) /\ NativeOf # <<>>
    /\ \A table0 \in NativeIdts, v \in Vectors :
          /\ table0[v].code \in Seq(Instructions)
          /\ \E i \in DOMAIN table0[v].code : table0[v].code[i] = "iret"

Entries == DOMAIN NativeOf
Null == "null"

-----------------------------------------------------------------------------
(* Copies of the kernel's entry code                                       *)

Calls == {"call 1", "call 2"}
IsCall(in) == in \in Calls
Translated == [in \in Calls |-> IF in = "call 1" THEN "translated 1" ELSE "translated 2"]

Nullptr == <<>>

\* The instructions that the loop decodes: up to an iret, or to a jump after
\* a call.
Decoded(code) ==
    LET stops == {i \in DOMAIN code :
                    \/ code[i] = "iret"
                    \/ code[i] = "jmp" /\ \E k \in 1 .. i - 1 : IsCall(code[k])}
    IN  SubSeq(code, 1, CHOOSE i \in stops : \A k \in stops : i <= k)

\* Without the jumps, which were followed.
Straight(code) ==
    LET kept == {i \in DOMAIN code : code[i] # "jmp"}
    IN  [n \in 1 .. Cardinality(kept) |->
            code[CHOOSE i \in kept : Cardinality({k \in kept : k <= i}) = n]]

\* The jumps are removed; the last call is redirected.
EntryCopy(code) ==
    LET c == Straight(Decoded(code))
        IsLast(i) == IsCall(c[i]) /\ \A k \in i + 1 .. Len(c) : ~IsCall(c[k])
    IN  [i \in DOMAIN c |-> IF IsLast(i) THEN Translated[c[i]] ELSE c[i]]

\* seen_jump is not initialised: an entry point that ends in an iret may be
\* copied as well as left alone.
create_interrupt_entrypoint(code) ==
    LET calls == \E i \in DOMAIN Decoded(code) : IsCall(Decoded(code)[i])
    IN  CASE ~calls -> {Nullptr}
          [] Decoded(code)[Len(Decoded(code))] = "jmp" -> {EntryCopy(code)}
          [] OTHER -> {Nullptr, EntryCopy(code)}

\* Gates: a handler, and whether emit_interrupt_routine's code precedes it.
Gate(code, routine) == [code |-> code, routine |-> routine]

\* The gates that create_idt may make of a vector's gate.
GatesFor(v) ==
    LET n == native[v]
        new == IF v \in {NMI, SYSCALL} THEN {Nullptr} ELSE create_interrupt_entrypoint(n.code)
    IN  IF ~n.host THEN {Gate(n.code, FALSE)}
        ELSE {Gate(IF c = Nullptr THEN n.code ELSE c,
                   v \notin {NMI, SYSCALL} /\ v <= LastVector) : c \in new}

-----------------------------------------------------------------------------

Boot(at, cpu, i) == [at |-> at, cpu |-> cpu, i |-> i]
NoState == [idtr |-> Null, lstar |-> Null, native_idtr |-> Null, id |-> -1]
NoGate == Gate(Nullptr, FALSE)
Idle == [at |-> "user", e |-> 0]
NumCpus == Cardinality(BootCpus)
NEXT_CPU_ID == Cardinality({c \in BootCpus : state[c] # NoState})
CpuOrder ==
    CHOOSE f \in [1 .. NumCpus -> BootCpus] : \A j, k \in 1 .. NumCpus : f[j] = f[k] => j = k

BootInit ==
    /\ delayed \in BOOLEAN
    /\ native \in NativeIdts
    /\ base \in [BootCpus -> {"idt_table", "fixmap"}]
    /\ boot = Boot("init_early", 1, 0)
    /\ state = [c \in BootCpus |-> NoState]
    /\ reg = [c \in BootCpus |-> [idtr |-> "native", lstar |-> "native"]]
    /\ idt = [v \in Vectors |-> NoGate]
    /\ prev = [idtr |-> Null, gen |-> Null]
    /\ protected = FALSE
    /\ gen = [last |-> Null, gen |-> Null]
    /\ table = [e \in Entries |-> Null]
    /\ translated = {}
    /\ run = [c \in BootCpus |-> Idle]

\* As alloc_cpu_state would be if it trusted the address in the IDTR.
alloc_cpu_state_AnyBase(c) ==
    /\ boot.at = "init_early" /\ state[c] = NoState
    /\ state' = [state EXCEPT ![c] = [@ EXCEPT !.native_idtr = base[c], !.id = NEXT_CPU_ID]]
    /\ UNCHANGED <<delayed, native, base, boot, reg, idt, prev, protected, gen, table, translated, run>>

\* Run on each CPU. An IDTR that does not point to the kernel is not trusted.
alloc_cpu_state(c) ==
    /\ boot.at = "init_early" /\ state[c] = NoState
    /\ state' = [state EXCEPT ![c] = [@ EXCEPT !.native_idtr = "idt_table", !.id = NEXT_CPU_ID]]
    /\ UNCHANGED <<delayed, native, base, boot, reg, idt, prev, protected, gen, table, translated, run>>

init_early ==
    /\ boot.at = "init_early" /\ \A c \in BootCpus : state[c] # NoState
    /\ boot' = Boot("static", 1, 1)
    /\ UNCHANGED <<delayed, native, base, state, reg, idt, prev, protected, gen, table, translated, run>>

\* One entry of the static initialiser, which the list of init runs.
duplicate_syscall_table ==
    /\ boot.at = "static"
    /\ table' = [table EXCEPT ![boot.i] = IF delayed THEN "native" ELSE "routine"]
    /\ boot' = IF boot.i = Len(NativeOf) THEN Boot("create_idt", 1, 0)
               ELSE [boot EXCEPT !.i = @ + 1]
    /\ UNCHANGED <<delayed, native, base, state, reg, idt, prev, protected, gen, translated, run>>

-----------------------------------------------------------------------------
(* init_late, for one CPU after the other                                  *)

Current == CpuOrder[boot.cpu]

\* The beginning of create_idt: the table is cleared and copied.
create_idt ==
    /\ boot.at = "create_idt"
    /\ LET n == state[Current].native_idtr
       IN  IF n = prev.idtr
           THEN /\ state' = [state EXCEPT ![Current].idtr = prev.gen]
                /\ boot' = [boot EXCEPT !.at = "create_syscall_entrypoint"]
                /\ UNCHANGED <<idt, prev>>
           ELSE IF prev.idtr # Null
           THEN /\ boot' = [boot EXCEPT !.at = "assertion failed"]
                /\ UNCHANGED <<state, idt, prev>>
           ELSE /\ prev' = [prev EXCEPT !.idtr = n]
                /\ idt' = [v \in Vectors |-> Gate(native[v].code, FALSE)]
                /\ boot' = [boot EXCEPT !.at = "vectors", !.i = 0]
                /\ UNCHANGED state
    /\ UNCHANGED <<delayed, native, base, reg, protected, gen, table, translated, run>>

\* One pass through the loop of create_idt, and what follows the last one.
SetGate ==
    /\ boot.at = "vectors"
    /\ \E g \in GatesFor(boot.i) : idt' = [idt EXCEPT ![boot.i] = g]
    /\ IF boot.i + 1 \in Vectors
       THEN /\ boot' = [boot EXCEPT !.i = @ + 1]
            /\ UNCHANGED <<state, prev>>
       ELSE /\ prev' = [prev EXCEPT !.gen = "granary"]
            /\ state' = [state EXCEPT ![Current].idtr = "granary"]
            /\ boot' = [boot EXCEPT !.at = "create_syscall_entrypoint"]
    /\ UNCHANGED <<delayed, native, base, reg, protected, gen, table, translated, run>>

\* The end of an iteration of init_late.
create_syscall_entrypoint ==
    /\ boot.at = "create_syscall_entrypoint"
    /\ gen' = [last |-> "native", gen |-> "granary"]
    /\ state' = [state EXCEPT ![Current].lstar = gen'.gen]
    /\ protected' = TRUE
    /\ boot' = IF boot.cpu < NumCpus THEN Boot("create_idt", boot.cpu + 1, 0)
               ELSE Boot("set_percpu", 0, 1)
    /\ UNCHANGED <<delayed, native, base, reg, idt, prev, table, translated, run>>

\* Run on each CPU.
set_percpu(c) ==
    /\ boot.at = "set_percpu"
    /\ reg[c].idtr = "native"
    /\ reg' = [reg EXCEPT ![c] = [idtr |-> state[c].idtr, lstar |-> state[c].lstar]]
    /\ UNCHANGED <<delayed, native, base, boot, state, idt, prev, protected, gen, table, translated, run>>

init_late ==
    /\ boot.at = "set_percpu" /\ \A c \in BootCpus : reg[c].idtr # "native"
    /\ boot' = Boot(IF delayed THEN "takeover" ELSE "initialised", 0, 1)
    /\ UNCHANGED <<delayed, native, base, state, reg, idt, prev, protected, gen, table, translated, run>>

-----------------------------------------------------------------------------
(* System calls                                                            *)

\* As granary_takeover_next_syscall_entry would be if it stopped one short.
granary_takeover_next_syscall_entry_Short ==
    /\ boot.at = "takeover"
    /\ IF boot.i >= Len(NativeOf)
       THEN /\ boot' = Boot("initialised", 0, 1)
            /\ UNCHANGED table
       ELSE /\ table' = [table EXCEPT ![boot.i] = "routine"]
            /\ boot' = [boot EXCEPT !.i = @ + 1]
    /\ UNCHANGED <<delayed, native, base, state, reg, idt, prev, protected, gen, translated, run>>

\* granary_initialise calls it, with pauses, until nothing is left.
granary_takeover_next_syscall_entry ==
    /\ boot.at = "takeover"
    /\ IF boot.i > Len(NativeOf)
       THEN /\ boot' = Boot("initialised", 0, 1)
            /\ UNCHANGED table
       ELSE /\ table' = [table EXCEPT ![boot.i] = "routine"]
            /\ boot' = [boot EXCEPT !.i = @ + 1]
    /\ UNCHANGED <<delayed, native, base, state, reg, idt, prev, protected, gen, translated, run>>

\* The processor enters the kernel through the CPU's MSR_LSTAR.
Syscall(c) ==
    /\ run[c] = Idle
    /\ reg[c].lstar # "native"
    /\ \E e \in Entries : run' = [run EXCEPT ![c] = [at |-> "dispatch", e |-> e]]
    /\ UNCHANGED <<delayed, native, base, boot, state, reg, idt, prev, protected, gen, table, translated>>

\* Translated code calls through the shadow table.
Dispatch(c) ==
    /\ run[c].at \in {"dispatch", "jump"}
    /\ run' = [run EXCEPT ![c] =
                CASE table[@.e] = Null -> [@ EXCEPT !.at = "lost"]
                  [] table[@.e] = "routine" -> [@ EXCEPT !.at = "takeover"]
                  [] OTHER -> Idle]
    /\ UNCHANGED <<delayed, native, base, boot, state, reg, idt, prev, protected, gen, table, translated>>

\* The routine of the entry: it ends in a jump through the same entry.
takeover_syscall(c) ==
    /\ run[c].at = "takeover"
    /\ table' = [table EXCEPT ![run[c].e] = "translation"]
    /\ translated' = translated \cup {NativeOf[run[c].e]}
    /\ run' = [run EXCEPT ![c].at = "jump"]
    /\ UNCHANGED <<delayed, native, base, boot, state, reg, idt, prev, protected, gen>>

-----------------------------------------------------------------------------

Initialise ==
    \/ init_early \/ duplicate_syscall_table \/ create_idt \/ SetGate
    \/ create_syscall_entrypoint \/ init_late \/ granary_takeover_next_syscall_entry
    \/ \E c \in BootCpus : alloc_cpu_state(c) \/ set_percpu(c)

Resolve(c) == Dispatch(c) \/ takeover_syscall(c)

BootNext == Initialise \/ \E c \in BootCpus : Syscall(c) \/ Resolve(c)

BootFairness == WF_bootVars(Initialise) /\ \A c \in BootCpus : WF_bootVars(Resolve(c))

BootSpec == BootInit /\ [][BootNext]_bootVars /\ BootFairness

-----------------------------------------------------------------------------
(* Properties                                                              *)

\* What a handler does up to where create_interrupt_entrypoint stops.
Effects(code) == Straight(Decoded(code))

\* The code of a gate does what the kernel's handler of the vector does, the
\* call into the kernel's own handler excepted, which may be translated.
Serves(gate, v) ==
    \/ gate.code = native[v].code
    \/ LET e == Effects(native[v].code)
       IN  /\ Len(gate.code) = Len(e)
           /\ \A i \in DOMAIN e :
                \/ gate.code[i] = e[i]
                \/ /\ IsCall(e[i]) /\ gate.code[i] = Translated[e[i]]
                   /\ \A k \in i + 1 .. Len(e) : ~IsCall(e[k])

\* An interrupt is served at every moment of the take over, whichever table the
\* CPU uses: the gate is there, it leads to what the kernel's gate leads to,
\* and the CPU has the state whose private stack the interrupt routine needs.
InterruptsAreServed ==
    \A c \in BootCpus : reg[c].idtr # "native" =>
        /\ reg[c].idtr = "granary" /\ state[c] # NoState
        /\ \A v \in Vectors : idt[v] # NoGate /\ Serves(idt[v], v)

\* CPUs that share the kernel's table share Granary's: it is built once, also
\* when some of them see it at another address, and its pages are never
\* written after kernel_make_page_read_only.
IdtIsBuiltOnce ==
    /\ boot.at # "assertion failed"
    /\ protected => boot.at # "vectors"

\* A system call never goes through an entry of the shadow table that is not
\* filled in, and one that was taken over resolves to its translation: while
\* other CPUs take over the same entry, or another one of the same function.
SyscallsResolve ==
    \A c \in BootCpus :
        /\ run[c].at # "lost"
        /\ run[c].at = "jump" => table[run[c].e] = "translation"

\* Every CPU uses Granary's tables, and no entry of the system call table is
\* native.
TakenOver ==
    /\ \A c \in BootCpus : reg[c].idtr = "granary" /\ reg[c].lstar = "granary"
    /\ \A e \in Entries : table[e] \in {"routine", "translation"}

Dispatched(c) == run[c].at = "dispatch"
Served(c) == run[c].at = "user"

\* An IDTR and an entry of the system call table are native or Granary's.
BootTypeOK ==
    /\ \A c \in BootCpus : reg[c].idtr \in {"native", "granary", Null}
    /\ \A e \in Entries : table[e] \in {Null, "native", "routine", "translation"}
    /\ translated \subseteq {NativeOf[e] : e \in Entries}

\* While CPUs take over the tables of the kernel, interrupts and system calls
\* are served at every moment, and the interrupt table is built once.
TakeOverIsSafe == BootTypeOK /\ InterruptsAreServed /\ IdtIsBuiltOnce /\ SyscallsResolve
=============================================================================
