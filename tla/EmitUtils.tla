----------------------------- MODULE EmitUtils ------------------------------
(***************************************************************************)
(* What emitted code is made of and what it runs on.                       *)
(*                                                                         *)
(* The processor: the part of an x86-64 that emitted code relies on, which *)
(* is registers, flags, the interrupt flag and memory, with symbolic       *)
(* values. A value is a term <<name, number, arguments>>, so that two      *)
(* states are equal only if every result was computed from the same        *)
(* inputs. Stack addresses are the terms Sp(n); a slot is 8 bytes.         *)
(*                                                                         *)
(* The register_manager of register.cc: a walk over instructions in        *)
(* reverse order that finds dead registers, and the zombies (spill         *)
(* registers) that are handed out from them; a manager is a record of two  *)
(* sets, where live and undead are bit sets in the code, one pair for the  *)
(* general purpose and one for the XMM registers.                          *)
(*                                                                         *)
(* The building blocks of emit_utils.cc, as the sequences of instructions  *)
(* that they insert.                                                       *)
(***************************************************************************)
EXTENDS Integers, Sequences, FiniteSets, SequencesExt

(* The processor                                                           *)

CONSTANTS Order,        \* the general purpose registers by their number
          Xmm,          \* the XMM registers by their number
          StackSlots    \* the stack is the slots 0 .. StackSlots - 1

Regs == Range(Order) \cup Range(Xmm)

V(name) == <<name, 0, <<>>>>
Sp(n) == <<"sp", n, <<>>>>
Term(name, args) == <<name, 0, args>>
Junk == V("junk")
Far == V("far")         \* an address that is 4GB away from the code cache

Operand(k, r, d, v, w) == [k |-> k, r |-> r, d |-> d, v |-> v, w |-> w]
R(r) == Operand("reg", r, 0, Junk, 64)
R8(r) == Operand("reg", r, 0, Junk, 8)
M(r, d) == Operand("mem", r, d, Junk, 64)
Imm(v) == Operand("imm", "none", 0, v, 64)
FarMem == Operand("far", "none", 0, Far, 64)
Pc(n) == Operand("pc", "none", n, Junk, 64)
None == Operand("none", "none", 0, Junk, 64)

I(op, d, s) == [op |-> op, d |-> d, s |-> s]
mov(d, s) == I("mov", d, s)
lea(d, s) == I("lea", d, s)
push(s) == I("push", None, s)
pop(d) == I("pop", d, None)
add(d, s) == I("add", d, s)
cti == I("cti", None, None)

Branches == {"cti", "jb", "ret", "calls"}

\* The operands that an instruction writes and reads, in the order of the
\* decoder.
Dsts(in) ==
    CASE in.op \in Branches \cup {"cli", "nop", "find", "test"} -> <<>>
      [] in.op = "push" -> <<R("rsp"), M("rsp", -1)>>
      [] in.op = "pop"  -> <<in.d, R("rsp")>>
      [] in.op = "movs" -> <<M("rdi", 0), R("rsi"), R("rdi")>>
      [] in.op = "rep_movs" -> <<M("rdi", 0), R("rsi"), R("rdi"), R("rcx")>>
      [] in.op = "rep_cmps" -> <<R("rsi"), R("rdi"), R("rcx")>>
      [] in.op = "xlat" -> <<R8("rax")>>
      [] OTHER          -> <<in.d>>

Srcs(in) ==
    CASE in.op \in Branches \cup {"cli", "nop", "find"} -> <<>>
      [] in.op = "push" -> <<in.s, R("rsp")>>
      [] in.op = "pop"  -> <<R("rsp"), M("rsp", 0)>>
      [] in.op \in {"add", "bsf", "adc", "test"} -> <<in.s, in.d>>
      [] in.op = "inc"  -> <<in.d>>
      [] in.op = "movs" -> <<M("rsi", 0), R("rsi"), R("rdi")>>
      [] in.op = "rep_movs" -> <<M("rsi", 0), R("rsi"), R("rdi"), R("rcx")>>
      [] in.op = "rep_cmps" -> <<M("rsi", 0), M("rdi", 0), R("rsi"), R("rdi"), R("rcx")>>
      [] in.op = "xlat" -> <<M("rbx", 0), R("rax")>>
      [] OTHER          -> <<in.s>>

\* The address of a memory operand.
Address(st, o) ==
    IF o.k = "far" THEN o.v
    ELSE LET b == st.reg[o.r] IN IF b[1] = "sp" THEN Sp(b[2] + o.d) ELSE b

Read(st, o) ==
    CASE o.k = "reg" -> st.reg[o.r]
      [] o.k = "imm" -> o.v
      [] o.k \in {"mem", "far"} ->
            LET a == Address(st, o)
            IN  IF a \in DOMAIN st.mem THEN st.mem[a] ELSE V("wild")
      [] OTHER -> Junk

\* A store to an address that is not the program's goes wrong.
Write(st, o, v) ==
    IF o.k = "reg"
    THEN [st EXCEPT !.reg[o.r] = IF o.w = 64 THEN v ELSE Term("low", <<@, v>>)]
    ELSE LET a == Address(st, o)
         IN  IF a \in DOMAIN st.mem THEN [st EXCEPT !.mem[a] = v]
             ELSE [st EXCEPT !.wild = TRUE]

Top(st) == st.reg["rsp"][2]

Push(st, v) ==
    LET n == Top(st) - 1
    IN  IF n < 0 THEN [st EXCEPT !.wild = TRUE]
        ELSE [st EXCEPT !.reg["rsp"] = Sp(n), !.mem[Sp(n)] = v]

Pop(st, o) ==
    LET v == Read(st, M("rsp", 0))
    IN  Write([st EXCEPT !.reg["rsp"] = Sp(Top(st) + 1)], o, v)

\* What is below the stack pointer, and below the redzone, is lost whenever
\* another piece of code runs on this stack.
Scribble(st, redzone) ==
    [st EXCEPT !.mem = [a \in DOMAIN st.mem |->
        IF a[1] = "sp" /\ a[2] < Top(st) - redzone THEN Junk ELSE st.mem[a]]]

\* One instruction.  For "call", d is what the callee clobbers: a set of
\* registers, the flags and the stack below.  "seen" keeps the registers at a
\* comparison or a call.
Step(st, in) ==
    CASE in.op = "mov"  -> Write(st, in.d, Read(st, in.s))
      [] in.op = "lea"  -> Write(st, in.d, Address(st, in.s))
      [] in.op = "push" -> Push(st, Read(st, in.s))
      [] in.op = "pop"  -> Pop(st, in.d)
      [] in.op = "add"  ->
            [Write(st, in.d, Term("add", <<Read(st, in.d), Read(st, in.s)>>))
                EXCEPT !.flags = Term("flags", <<Read(st, in.d), Read(st, in.s)>>)]
      [] in.op = "xchg" -> Write(Write(st, in.d, Read(st, in.s)), in.s, Read(st, in.d))
      [] in.op = "mangle" -> [Write(st, in.d, Term("mangled", <<Read(st, in.d)>>))
                                EXCEPT !.flags = Junk]
      [] in.op = "lahf" -> Write(st, R("rax"), Term("ah", <<st.reg["rax"], st.flags>>))
      [] in.op = "sahf" ->
            [st EXCEPT !.flags = IF st.reg["rax"][1] = "ah"
                                 THEN st.reg["rax"][3][2] ELSE Junk]
      [] in.op = "pushf" -> Push(st, Term("rflags", <<st.flags, st.ints>>))
      [] in.op = "popf" ->
            LET f == Read(st, M("rsp", 0))
            IN  IF f[1] # "rflags" THEN [st EXCEPT !.wild = TRUE]
                ELSE [Pop(st, R("none")) EXCEPT !.flags = f[3][1], !.ints = f[3][2]]
      [] in.op = "cli"  -> [st EXCEPT !.ints = V("off")]
      [] in.op = "and16" -> [st EXCEPT !.reg["rsp"] = Sp(Top(st) - (Top(st) % 2)),
                                       !.flags = Junk]
      [] in.op = "cmp"  -> [st EXCEPT !.flags = Junk, !.seen = Append(@, st.reg)]
      [] in.op = "call" ->
            [Scribble(st, 0) EXCEPT
                !.reg = [r \in DOMAIN st.reg |-> IF r \in in.d THEN Junk ELSE st.reg[r]],
                !.flags = Junk,
                !.seen = Append(@, st.reg)]
      [] OTHER -> st

Run(st, code) == FoldLeft(Step, st, code)

\* The state in which the program reaches an instruction, with n slots used.
Start(n) ==
    [reg   |-> [r \in Regs \cup {"none"} |->
                    IF r = "rsp" THEN Sp(StackSlots - n) ELSE V(r)],
     mem   |-> [a \in {Sp(i) : i \in 0 .. StackSlots - 1} \cup {Far, V("rbx")} |->
                    Term("at", <<a>>)],
     flags |-> V("flags"),
     ints  |-> V("on"),
     seen  |-> <<>>,
     wild  |-> FALSE]

\* The program cannot tell two states apart: the registers, the flags, the
\* interrupt flag and the memory that is not free stack are the same.  The
\* stack is in use from slot low on.
Same(s, t, low) ==
    /\ ~s.wild
    /\ \A r \in Regs : s.reg[r] = t.reg[r]
    /\ s.flags = t.flags /\ s.ints = t.ints
    /\ \A a \in DOMAIN s.mem :
            (a[1] = "sp" => a[2] >= low) => s.mem[a] = t.mem[a]

-----------------------------------------------------------------------------

(* The register manager                                                    *)

ForceLive == {"rsp"}

revive_all == [live |-> Regs, undead |-> {}]

kill_all == [live |-> ForceLive, undead |-> {}]

\* REG_TO_REG64: the register that a register is a part of.
Family(o) == o.r

\* REG_TO_REG64 and REG_TO_REG32: the operand is all of a register, or its lower
\* half, which is extended with zeros when it is written.
IsWide(o) == o.w >= 32

\* Writing less than 32 bits of a register does not kill it.
kill_64(m, o) ==
    IF ~IsWide(o) THEN m
    ELSE [live |-> (m.live \ {Family(o)}) \cup ForceLive,
          undead |-> m.undead \ {Family(o)}]

revive_64(m, r) == [live |-> m.live \cup {r}, undead |-> m.undead \ {r}]

HasReg(o) == o.k \in {"reg", "mem"}

kill(m, o) == IF HasReg(o) THEN kill_64(m, o) ELSE m

revive(m, o) == IF HasReg(o) THEN revive_64(m, Family(o)) ELSE m

\* revive_64 for registers, and revive for operands, in any order.
ReviveRegs(m, rs) == [live |-> m.live \cup rs, undead |-> m.undead \ rs]

ReviveOperands(m, os) == ReviveRegs(m, {Family(o) : o \in {x \in Range(os) : HasReg(x)}})

ReviveInstruction(m, in) ==
    IF in.op = "nop" THEN m ELSE ReviveOperands(m, Dsts(in) \o Srcs(in))

kill_dests(m, in) == FoldLeft(kill, m, Dsts(in))

\* A register that is the base of a destination stays alive whatever the order
\* of the destinations; the destination of a bit scan may keep its value, and
\* so may the registers of a string instruction with a repeat prefix.
visit_dests(m, in) ==
    LET ds == Dsts(in)
        bases == {o.r : o \in {x \in Range(ds) : x.k = "mem"}}
        Dest(n, o) == CASE o.k # "reg"    -> n
                        [] in.op = "bsf"  -> revive(n, o)
                        [] OTHER          -> kill(n, o)
        n == FoldLeft(Dest, m, ds)
        k == [live |-> n.live \cup bases \cup ForceLive, undead |-> n.undead \ bases]
    IN  IF in.op \in {"rep_movs", "rep_cmps"}
        THEN ReviveRegs(k, {"rsi", "rdi", "rcx"})
        ELSE k

\* Nothing is known of the code that a branch leads to.
visit(m, in) ==
    CASE in.op = "nop" -> m
      [] in.op \in Branches -> revive_all
      [] OTHER -> ReviveOperands(visit_dests(m, in), Srcs(in))

\* The first register that is neither live nor handed out, or "null".
Zombie(m) ==
    LET free == {i \in 1 .. Len(Order) : Order[i] \notin m.live \cup m.undead}
    IN  IF free = {} THEN "null"
        ELSE Order[CHOOSE i \in free : \A j \in free : i <= j]

TakeZombie(m) ==
    IF Zombie(m) = "null" THEN m ELSE [m EXCEPT !.undead = @ \cup {Zombie(m)}]

\* All zombies in the order in which they are handed out.
Zombies(m) == SelectSeq(Order, LAMBDA r : r \notin m.live \cup m.undead)

-----------------------------------------------------------------------------

(* Saving the flags                                                        *)

insert_save_arithmetic_flags_after(live) ==
    IF live
    THEN <<push(R("rax")), push(R("rax")), I("lahf", None, None),
           mov(M("rsp", 1), R("rax")), pop(R("rax"))>>
    ELSE <<I("lahf", None, None), push(R("rax"))>>

insert_restore_arithmetic_flags_after(live) ==
    IF live
    THEN <<push(R("rax")), mov(R("rax"), M("rsp", 1)), I("sahf", None, None),
           pop(R("rax")), lea(R("rsp"), M("rsp", 1))>>
    ELSE <<pop(R("rax")), I("sahf", None, None)>>

insert_save_flags_after(kernel, live) ==
    IF kernel THEN <<I("pushf", None, None), I("cli", None, None)>>
    ELSE insert_save_arithmetic_flags_after(live)

insert_restore_flags_after(kernel, live) ==
    IF kernel THEN <<I("popf", None, None)>>
    ELSE insert_restore_arithmetic_flags_after(live)

-----------------------------------------------------------------------------
(* Saving registers and the alignment of the stack                         *)

\* What the ABI lets a function clobber.
CallerSaved == Regs \ {"rsp", "rbx"}

\* Granary itself is compiled without SSE (GR_FLOAT_FLAGS in the Makefile).
GranaryClobbers == CallerSaved \ Range(Xmm)

\* save_and_restore_registers: the registers are pushed in the order of the
\* zombies, around the code in the middle.
save_and_restore_registers(rm, middle) ==
    LET zs == Zombies(rm)
    IN  [i \in 1 .. Len(zs) |-> push(R(zs[i]))] \o middle
        \o [i \in 1 .. Len(zs) |-> pop(R(zs[Len(zs) + 1 - i]))]

\* Below the stack pointer, two slots for each register.
save_and_restore_xmm_registers(rm, middle) ==
    LET zs == SelectSeq(Xmm, LAMBDA r : r \notin rm.live)
        n  == Len(zs)
    IN  (IF n > 0 THEN <<lea(R("rsp"), M("rsp", -2 * n))>> ELSE <<>>)
        \o [i \in 1 .. n |-> mov(M("rsp", 2 * (i - 1)), R(zs[i]))] \o middle
        \o [i \in 1 .. n |-> mov(R(zs[i]), M("rsp", 2 * (i - 1)))]
        \o (IF n > 0 THEN <<lea(R("rsp"), M("rsp", 2 * n))>> ELSE <<>>)

\* The old stack pointer is at rsp[8] afterwards, aligned before or not.
insert_align_stack_after ==
    <<push(R("rsp")), push(M("rsp", 0)), I("and16", None, None)>>

insert_restore_old_stack_alignment_after == <<mov(R("rsp"), M("rsp", 1))>>

=============================================================================
