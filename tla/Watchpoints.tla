---------------------------- MODULE Watchpoints -----------------------------
(***************************************************************************)
(* The watchpoints client (clients/watchpoints/instrument.h, .cc): an      *)
(* address is watched if its distinguishing bit says so; every memory      *)
(* operand is tested before it is used, and masked if it is watched.  A    *)
(* behaviour is one block of the program, instrumented and then executed   *)
(* one instruction at a time, with interrupts in between.                  *)
(***************************************************************************)
EXTENDS EmitUtils

CONSTANTS Blocks,       \* blocks of the program
          Watched       \* sets of registers that hold watched addresses

VARIABLES job,          \* the block, the environment, what is watched
          phase,        \* how far it is: "new", "spilled", "tracked", "visited", "running"
          code,         \* instrumented instructions still to be executed
          st            \* the machine

vars == <<job, phase, code, st>>

\* An address is a term with its distinguishing bits as the last argument:
\* nothing if it is not watched.
Tag == V("watched")
UserTag == V("user")

Marks(v) == SelectSeq(v[3], LAMBDA x : x \in {Tag, UserTag})
Plain(v) == <<v[1], v[2], SelectSeq(v[3], LAMBDA x : x # Tag)>>
is_watched_address(v) == Tag \in Range(v[3])

Plus(v, n) == <<v[1], v[2] + n, v[3]>>

\* bswap; mov16; bswap: all the high order bits are set, or cleared.
Mask(v, kernel) == IF kernel /\ UserTag \in Range(v[3]) THEN V("bad") ELSE Plain(v)

\* Bits 48 and 47 of an address.
Bit(v, n, kernel) ==
    IF n = 48 THEN kernel = (Marks(v) = <<>>)
    ELSE kernel /\ UserTag \notin Range(v[3])

-----------------------------------------------------------------------------
(* The machine, with the addresses of the program in it                    *)

Ea(s, o) == Plus(s.reg[o.r], o.d)

\* Without the client no address is watched.
Access(s, o) == IF s.native THEN Plain(Ea(s, o)) ELSE Ea(s, o)

At(s, a) == IF a \in DOMAIN s.mem THEN s.mem[a] ELSE Term("at", <<a>>)

Load(s, o) ==
    CASE o.k = "reg" -> s.reg[o.r]
      [] o.k = "imm" -> o.v
      [] OTHER -> At(s, Access(s, o))

Store(s, o, v) ==
    IF o.k = "reg"
    THEN [s EXCEPT !.reg[o.r] = IF o.w = 64 THEN v ELSE Term("low", <<@, v>>)]
    ELSE LET a == Access(s, o)
         IN  [s EXCEPT !.mem = [x \in DOMAIN s.mem \cup {a} |-> IF x = a THEN v ELSE s.mem[x]]]

Index(b, i) == <<"index", 0, <<Plain(b), Term("zx", <<i>>)>> \o Marks(b)>>

\* The count of a repeated instruction is 1, or 0 if the register rcx says so.
Effect(s, in) ==
    LET none == s.reg["rcx"] = V("zero")
        Mem(r) == Load(s, M(r, 0))
        Advance(t) == [t EXCEPT !.reg["rsi"] = Plus(@, 1), !.reg["rdi"] = Plus(@, 1)]
        Moved == Advance(Store(s, M("rdi", 0), Mem("rsi")))
    IN
    CASE in.op \in {"mov", "xmov"} -> Store(s, in.d, Load(s, in.s))
      [] in.op = "lea"  -> Store(s, in.d, Ea(s, in.s))
      [] in.op = "push" -> Store([s EXCEPT !.reg["rsp"] = Plus(@, -1)], M("rsp", 0), Load(s, in.s))
      [] in.op = "pop"  -> Store([s EXCEPT !.reg["rsp"] = Plus(@, 1)], in.d, Load(s, M("rsp", 0)))
      [] in.op = "test" -> [s EXCEPT !.flags = Term("cmp", <<Load(s, in.d), Load(s, in.s)>>)]
      [] in.op = "adc"  ->
            LET v == Term("adc", <<Load(s, in.d), Load(s, in.s), s.flags>>)
            IN  [Store(s, in.d, v) EXCEPT !.flags = Term("carry", <<v>>)]
      [] in.op = "inc"  -> Store(s, in.d, Term("inc", <<Load(s, in.d)>>))
      [] in.op = "movs" -> Moved
      [] in.op = "rep_movs" -> IF none THEN s ELSE Moved
      [] in.op = "rep_cmps" ->
            IF none THEN s
            ELSE [Advance(s) EXCEPT !.flags = Term("cmp", <<Mem("rsi"), Mem("rdi")>>)]
      [] in.op = "xlat" -> Store(s, R8("rax"), At(s, Plain(Index(s.reg["rbx"], s.reg["rax"]))))
      [] in.op = "index" -> Store(s, in.d, Index(s.reg["rbx"], s.reg["rax"]))
      [] in.op = "bt"   ->
            [s EXCEPT !.flags = V(IF Bit(s.reg[in.d.r], in.s.d, s.kernel) THEN "1" ELSE "0")]
      [] in.op = "setb" -> Store(s, R8(in.d.r), s.flags)
      [] in.op = "restore" -> [s EXCEPT !.flags = s.reg[in.d.r][3][2]]
      [] in.op = "mask" -> [s EXCEPT !.reg[in.d.r] = Mask(@, s.kernel)]
      [] in.op = "remark" ->
            [s EXCEPT !.reg[in.d.r] = <<@[1], @[2], @[3] \o Marks(s.reg[in.s.r])>>]
      [] in.op = "watcher" -> [s EXCEPT !.seen = Append(@, s.reg[in.d.r])]
      [] in.op = "jump" -> IF s.flags = in.s.v THEN [s EXCEPT !.skip = in.d.d] ELSE s
      [] OTHER -> s

\* Instructions without a memory operand, that only instrumented code has.
Helpers == {"lea", "index", "bt", "setb", "restore", "mask", "remark", "watcher", "jump", "label"}

MemoryOperands(in) ==
    SelectSeq(IF in.op \in Helpers THEN <<>> ELSE Dsts(in) \o Srcs(in), LAMBDA o : o.k = "mem")

\* A watched address is not canonical: the processor faults on it.
Faults(s, in) ==
    \E o \in Range(MemoryOperands(in)) : LET a == Access(s, o)
                                         IN  a[1] = "bad" \/ is_watched_address(a)

Do(s, in) ==
    CASE s.skip # 0 -> IF in.op = "label" /\ in.d.d = s.skip THEN [s EXCEPT !.skip = 0] ELSE s
      [] Faults(s, in) -> [s EXCEPT !.wild = TRUE]
      [] OTHER -> Effect(s, in)

-----------------------------------------------------------------------------
(* Finding the memory operands                                             *)

\* Stack addresses, and with a frame pointer those as well, are not watched.
Interesting(o, kernel) == o.r # "rsp" /\ ~(kernel /\ o.r = "rbp")

\* One operand that is both read and written is found once.
find_memory_operand(in, kernel) ==
    FoldLeft(LAMBDA found, o : IF Contains(found, o) THEN found ELSE Append(found, o), <<>>,
             SelectSeq(MemoryOperands(in), LAMBDA o : Interesting(o, kernel)))

IsString(in) == in.op \in {"movs", "rep_movs", "rep_cmps"}

\* As can_replace would be if every operand were an explicit one.
can_replace_All(in, o) == in.op # "xlat"

\* An operand may be implicit, and then cannot be replaced, unless something of
\* it must have been encoded or the instruction is a well known one.
can_replace(in, o) ==
    /\ in.op # "xlat"
    /\ \/ o.r \in {"r8", "r9"}
       \/ o.d # 0
       \/ in.op \in {"mov", "add", "inc", "test", "xchg"}

\* The carry flag is read by what follows, and by the instruction itself.
track_carry_flag(in, next) ==
    CASE in.op \in {"ret", "calls"} -> [next |-> FALSE, before |-> FALSE, after |-> FALSE]
      [] in.op \in Branches \cup {"adc"} -> [next |-> TRUE, before |-> TRUE, after |-> FALSE]
      [] in.op \in {"add", "test", "rep_cmps"} -> [next |-> FALSE, before |-> FALSE, after |-> FALSE]
      [] OTHER -> [next |-> next, before |-> FALSE, after |-> next]

-----------------------------------------------------------------------------
(* Instrumenting one instruction                                           *)

\* An instruction of the program has an address there; pushes and pops around
\* a region are already mangled.
Native(in) == [in |-> in, pc |-> TRUE, mangled |-> FALSE]
New(in) == [in |-> in, pc |-> FALSE, mangled |-> FALSE]
Mangled(in) == [in |-> in, pc |-> FALSE, mangled |-> TRUE]
News(ins) == [i \in DOMAIN ins |-> New(ins[i])]

\* A register to work with: a dead one, or one that is pushed and popped.
TakeReg(t) ==
    LET dead == Zombie(t.live)
    IN  IF dead # "null"
        THEN [spilled |-> FALSE, r |-> dead, live |-> TakeZombie(t.live),
              spill |-> revive_64(t.spill, dead)]
        ELSE [spilled |-> TRUE, r |-> Zombie(t.spill), live |-> t.live,
              spill |-> TakeZombie(t.spill)]

Became(t, k, pre, in, pc, post) ==
    [t EXCEPT !.live = k.live, !.spill = k.spill, !.pre = pre, !.in = in, !.pc = pc, !.post = post]

mangle_push(t, op, k, rest) ==
    LET r == R(k.r)
    IN  IF ~k.spilled THEN Became(t, k, <<>>, mov(r, op), FALSE, <<push(r)>> \o rest)
        ELSE Became(t, k, <<lea(R("rsp"), M("rsp", -1)), push(r)>>, mov(r, op), FALSE,
                    <<mov(M("rsp", 1), r), pop(r)>> \o rest)

mangle_pop(t, op, k) ==
    LET r == R(k.r)
    IN  IF ~k.spilled THEN Became(t, k, <<pop(r)>>, mov(op, r), FALSE, <<>>)
        ELSE Became(t, k, <<push(r), mov(r, M("rsp", 1))>>, mov(op, r), FALSE,
                    <<pop(r), lea(R("rsp"), M("rsp", 1))>>)

mangle_xlat(t, k) ==
    LET pre == <<I("index", R(k.r), R("rbx"))>>
        in == mov(R8("rax"), M(k.r, 0))
    IN  IF ~k.spilled THEN Became(t, k, pre, in, FALSE, <<>>)
        ELSE Became(t, k, <<push(R(k.r))>> \o pre, in, FALSE, <<pop(R(k.r))>>)

mangle_source_sp(t, k) ==
    LET in == [t.in EXCEPT !.s = R(k.r)]
    IN  IF ~k.spilled THEN Became(t, k, <<lea(R(k.r), M("rsp", 0))>>, in, t.pc, <<>>)
        ELSE Became(t, k, <<push(R(k.r)), lea(R(k.r), M("rsp", 1))>>, in, t.pc, <<pop(R(k.r))>>)

mangle(t) ==
    CASE t.in.op = "push" -> mangle_push(t, t.in.s, TakeReg(t), <<>>)
      [] t.in.op = "pop"  -> mangle_pop(t, t.in.d, TakeReg(t))
      [] t.in.op = "xlat" -> mangle_xlat(t, TakeReg(t))
      [] t.in.op = "mov" /\ t.in.d = R("rsp") ->
            mangle_push(t, t.in.s, TakeReg(t), <<pop(R("rsp"))>>)
      [] t.in.s = R("rsp") -> mangle_source_sp(t, TakeReg(t))
      [] OTHER -> t

Replace(in, o, new) ==
    [in EXCEPT !.d = IF @ = o THEN new ELSE @, !.s = IF @ = o THEN new ELSE @]

\* The register that holds the address of an operand.  One that the
\* instruction overwrites anyway will do if the operand can be replaced.
AddressReg(v, can) ==
    IF can /\ Zombie(v.used) # "null"
    THEN [spilled |-> FALSE, r |-> Zombie(v.used), live |-> revive_64(v.live, Zombie(v.used)),
          spill |-> revive_64(v.spill, Zombie(v.used))]
    ELSE TakeReg(v)

\* Test one operand, and mask it if it is watched.  orig is the register that
\* is masked; it is the program's own if the operand cannot be replaced.
visit_operand(v, t, i) ==
    LET op == t.ops[i]
        can == can_replace(t.in, op) \/ t.spill.live \cap Range(Xmm) # {}
        k == AddressReg(v, can)
        addr == R(k.r)
        compute == k.spilled \/ k.r # op.r \/ op.d # 0
        orig == IF can THEN addr ELSE R(op.r)
        restore == /\ orig.r \in t.killed.live
                   /\ orig.r \in t.after.live
                   /\ ~k.spilled \/ orig # addr
        again == IF restore /\ (op.d # 0 \/ ~compute) THEN <<mov(addr, orig)>> ELSE <<>>
        label == Pc(10 * t.id + i)
        Spilled(in) == IF k.spilled THEN <<in>> ELSE <<>>
    IN  [in |-> IF compute /\ can THEN Replace(v.in, op, M(k.r, 0)) ELSE v.in,
         live |-> k.live, spill |-> k.spill,
         used |-> IF can THEN TakeZombie(v.used) ELSE v.used,
         pre |-> v.pre \o Spilled(push(addr))
                 \o (IF compute THEN <<lea(addr, op)>> ELSE <<>>)
                 \o <<I("bt", addr, Pc(48))>> \o again
                 \o <<I("jump", label, Imm(V(IF t.kernel THEN "1" ELSE "0")))>>
                 \o (IF t.zone THEN <<I("bt", addr, Pc(47)), I("jump", label, Imm(V("0")))>> ELSE <<>>)
                 \o <<I("watcher", addr, None)>> \o again
                 \o <<I("mask", orig, None), I("label", label, None)>>,
         post |-> (IF ~restore THEN <<>>
                   ELSE IF IsString(t.in) THEN <<I("remark", orig, addr)>>
                   ELSE <<mov(orig, addr)>>)
                  \o Spilled(pop(addr)) \o v.post]

\* The flag is saved before the first operand is tested, and restored before
\* the instruction reads it or after the instruction has left it alone.
visit_operands(t) ==
    LET save == t.cf.before \/ t.cf.after
        c == IF save THEN TakeReg(t)
             ELSE [spilled |-> FALSE, r |-> "null", live |-> t.live, spill |-> t.spill]
        Spilled(in) == IF c.spilled THEN <<in>> ELSE <<>>
        Given(b, in) == IF b THEN <<in>> ELSE <<>>
        v == FoldLeft(LAMBDA v, i : visit_operand(v, t, i),
                      [in |-> t.in, live |-> c.live, spill |-> c.spill, used |-> visit(revive_all, t.in),
                       pre |-> Spilled(push(R(c.r))) \o Given(save, I("setb", R(c.r), None)),
                       post |-> <<>>],
                      [i \in DOMAIN t.ops |-> i])
    IN  News(t.pre \o v.pre \o Given(t.cf.before, I("restore", R(c.r), None)))
        \o <<[New(v.in) EXCEPT !.pc = t.pc]>>
        \o News(v.post \o Given(t.cf.after, I("restore", R(c.r), None))
                \o Spilled(pop(R(c.r))) \o t.post)

-----------------------------------------------------------------------------
(* Instrumenting a block                                                   *)

IsStackInstruction(in) ==
    \/ in.op \in Branches \cup {"push", "pop"}
    \/ \E o \in Range(Dsts(in) \o Srcs(in)) : o.r = "rsp"

LiveAfter(b, i) == FoldRight(LAMBDA in, m : visit(m, in), SubSeq(b, i + 1, Len(b)), revive_all)

\* Two registers are pushed around a longest run of instructions that leave the
\* stack alone, if there are enough memory operands in it to make up for it.
RegionSpills(b, first, last, kernel) ==
    LET region == first .. last
        n == Cardinality(region)
        ops == FoldLeft(LAMBDA sum, i : sum + Len(find_memory_operand(b[i], kernel)), 0,
                        [i \in 1 .. n |-> first + i - 1])
        from == IF first > 1 /\ b[first - 1].op \notin Branches \cup {"push", "pop"}
                THEN first - 1 ELSE first
        used == FoldLeft(ReviveInstruction, kill_all, SubSeq(b, from, last))
        free == Zombies(used)
        two == Len(free) > 1 /\ (n > 3 \/ \E i \in region : b[i].op = "adc")
    IN  IF n < 2 \/ ops < 2 \/ free = <<>>
           \/ \A i \in region : Zombie(LiveAfter(b, i)) # "null"
        THEN <<>> ELSE SubSeq(free, 1, IF two THEN 2 ELSE 1)

\* The i-th instruction of a region, with the pushes and pops at its ends.
Around(b, i, first, last, spills) ==
    (IF first = i THEN [j \in DOMAIN spills |-> Mangled(push(R(spills[j])))] ELSE <<>>)
    \o <<Native(b[i])>>
    \o (IF last = i THEN Reverse([j \in DOMAIN spills |-> Mangled(pop(R(spills[j])))]) ELSE <<>>)

Bounded(b, i, first, last, kernel) ==
    Around(b, i, first, last, RegionSpills(b, first, last, kernel))

region_register_spiller(b, kernel) ==
    LET Edge(i) == i \in {0, Len(b) + 1} \/ IsStackInstruction(b[i])
        First(i) == Max({j \in 0 .. i : Edge(j)}) + 1
        Final(i) == Min({j \in i .. Len(b) + 1 : Edge(j)}) - 1
    IN  FlattenSeq([i \in DOMAIN b |->
            IF Edge(i) THEN <<Native(b[i])>> ELSE Bounded(b, i, First(i), Final(i), kernel)])

-----------------------------------------------------------------------------
(* Keeping the redzone                                                     *)

RedzoneSlots == 2

Shift(n) == New(lea(R("rsp"), M("rsp", n)))

\* adjust_base_disp_for_redzone
Adjust(x) ==
    LET Moved(o) == IF o \in Range(MemoryOperands(x.in)) \/ x.in.op = "lea"
                    THEN IF o.k = "mem" /\ o.r = "rsp" THEN [o EXCEPT !.d = @ + RedzoneSlots] ELSE o
                    ELSE o
    IN  IF x.in.op \in Helpers \ {"lea"} THEN x
        ELSE [x EXCEPT !.in.d = Moved(@), !.in.s = Moved(@)]

Observes(x) == x.in.op \notin Helpers \ {"lea"} /\ R("rsp") \in Range(Dsts(x.in) \o Srcs(x.in))

\* The instruction that opens a guarded run, and those that close it, seen from the
\* end: pops of the instrumentation come under a lowered stack pointer, up to an
\* instruction that needs the real one.
Opens(x) == ~x.pc /\ x.in.op = "pop" /\ x.in.d # R("rsp")

Closes(x) ==
    \/ x.pc /\ x.in.op \in Branches \cup {"push", "pop"}
    \/ x.in.op = "lea" /\ x.in.d = R("rsp")
    \/ x.in.op \notin {"push", "pop"} /\ Adjust(x) = x /\ Observes(x)

\* The instructions from the i-th on end under a guard at its start.
IsGuardedFrom(ls, i) ==
    \E j \in i .. Len(ls) : Opens(ls[j]) /\ \A k \in i .. j - 1 : ~Closes(ls[k])

Guard(ls, i) ==
    LET x == ls[i]
    IN  CASE IsGuardedFrom(ls, i + 1) /\ Closes(x) -> <<x, Shift(-RedzoneSlots)>>
          [] IsGuardedFrom(ls, i + 1) /\ ~Closes(x) ->
                <<IF x.in.op \in {"push", "pop"} THEN x ELSE Adjust(x)>>
          [] ~IsGuardedFrom(ls, i + 1) /\ Opens(x) -> <<x, Shift(RedzoneSlots)>>
          [] OTHER -> <<x>>

post_process_instructions(ls, kernel) ==
    IF \/ kernel
       \/ \E x \in Range(ls) : x.in.op = "calls"
       \/ \A x \in Range(ls) : ~(x.pc /\ x.in.op = "pop")
    THEN ls
    ELSE (IF IsGuardedFrom(ls, 1) THEN <<Shift(-RedzoneSlots)>> ELSE <<>>)
         \o FlattenSeq([i \in DOMAIN ls |-> Guard(ls, i)])

-----------------------------------------------------------------------------

\* The carry flag is read behind the i-th instruction.
Reads(ins, i) ==
    FoldRight(LAMBDA in, next : track_carry_flag(in, next).next, SubSeq(ins, i + 1, Len(ins)), TRUE)

\* The watchpoint_tracker of the i-th instruction.
Tracker(ins, i, kernel, zone) ==
    [id |-> i, in |-> ins[i], pc |-> TRUE, pre |-> <<>>, post |-> <<>>,
     kernel |-> kernel, zone |-> zone, cf |-> track_carry_flag(ins[i], Reads(ins, i)),
     after |-> LiveAfter(ins, i),
     live |-> ReviveInstruction(IF i = Len(ins) THEN revive_all ELSE LiveAfter(ins, i), ins[i]),
     spill |-> ReviveInstruction(kill_all, ins[i])]

WithOperands(t) ==
    [ops |-> find_memory_operand(t.in, t.kernel), killed |-> visit_dests(revive_all, t.in)] @@ t

\* An instruction without operands to test is left alone.
Tracked(x, ins, i, kernel, zone) ==
    IF x.mangled \/ x.in.op \in Branches \cup {"lea"} \/ find_memory_operand(x.in, kernel) = <<>>
    THEN x ELSE WithOperands(mangle(Tracker(ins, i, kernel, zone)))

track(ls, ins, kernel, zone) == [i \in DOMAIN ls |-> Tracked(ls[i], ins, i, kernel, zone)]

visit_instructions(ls) ==
    FlattenSeq([i \in DOMAIN ls |-> IF "ops" \in DOMAIN ls[i] THEN visit_operands(ls[i]) ELSE <<ls[i]>>])

\* rcx is zero, or one; in a block that accesses user data r8 is the address;
\* rbx points to a saved stack pointer.
Before(j, native) ==
    [reg |-> [r \in Regs \cup {"none"} |->
                CASE r = "rsp" -> Sp(StackSlots \div 2)
                  [] r = "rcx" -> V(j.count)
                  [] r = "r8" /\ j.zone -> <<"r8", 0, <<UserTag>>>>
                  [] r \in j.watched -> <<r, 0, <<Tag>>>>
                  [] OTHER -> V(r)],
     mem |-> V("rbx") :> Sp(StackSlots \div 2 + 2), flags |-> V("flags"), ints |-> V("on"), seen |-> <<>>,
     wild |-> FALSE, skip |-> 0, native |-> native, kernel |-> j.kernel]

Init ==
    /\ job \in [block : Blocks, watched : Watched, count : {"zero", "one"},
                kernel : BOOLEAN, zone : BOOLEAN]
    /\ job.zone => job.kernel /\ "r8" \notin job.watched
    /\ phase = "new"
    /\ code = <<>>
    /\ st = Before(job, FALSE)

Spill ==
    /\ phase = "new"
    /\ phase' = "spilled"
    /\ code' = region_register_spiller(job.block, job.kernel)
    /\ UNCHANGED <<job, st>>

\* The first half of the loop of visit_instructions, for every instruction: it
\* is mangled, and its operands are found.
Track ==
    /\ phase = "spilled"
    /\ phase' = "tracked"
    /\ code' = track(code, [i \in DOMAIN code |-> code[i].in], job.kernel, job.zone)
    /\ UNCHANGED <<job, st>>

Visit ==
    /\ phase = "tracked"
    /\ phase' = "visited"
    /\ code' = visit_instructions(code)
    /\ UNCHANGED <<job, st>>

PostProcess ==
    /\ phase = "visited"
    /\ phase' = "running"
    /\ code' = post_process_instructions(code, job.kernel)
    /\ UNCHANGED <<job, st>>

Execute ==
    /\ phase = "running" /\ code # <<>>
    /\ st' = Do(st, Head(code).in)
    /\ code' = Tail(code)
    /\ UNCHANGED <<job, phase>>

\* An interrupt or a signal uses the stack of the code that it interrupts.
Interrupt ==
    /\ phase = "running" /\ code # <<>>
    /\ st' = Scribble(st, IF job.kernel THEN 0 ELSE RedzoneSlots)
    /\ UNCHANGED <<job, phase, code>>

Next == Spill \/ Track \/ Visit \/ PostProcess \/ Execute \/ Interrupt

Spec == Init /\ [][Next]_vars

-----------------------------------------------------------------------------

\* What the block does without the client, and the watched addresses it uses.
NativeRun(j) ==
    FoldLeft(LAMBDA s, in :
                LET ops == find_memory_operand(in, j.kernel)
                    Addr(o) == IF in.op = "xlat" THEN Index(s.reg["rbx"], s.reg["rax"]) ELSE Ea(s, o)
                IN  [Do(s, in) EXCEPT !.seen = @ \o SelectSeq([i \in DOMAIN ops |-> Addr(ops[i])],
                                                             is_watched_address)],
             Before(j, TRUE), j.block)

Ends(j) == Last(j.block).op

\* The stack that is in use at the end: a call or a return ends the redzone.
InUse(s, redzone, a) ==
    a[1] = "sp" => a[2] >= IF s.reg["rsp"][1] = "sp" THEN Top(s) - redzone ELSE StackSlots \div 2

RedzoneOf(j) == IF j.kernel \/ Ends(j) \in {"ret", "calls"} THEN 0 ELSE RedzoneSlots

SameMemory(n, redzone) ==
    \A a \in DOMAIN n.mem \cup DOMAIN st.mem : InUse(n, redzone, a) => At(st, a) = At(n, a)

\* post_process_instructions guards a block only if the program pops in it.
IsGuarded(j) == ~j.kernel /\ Ends(j) # "calls" /\ \E i \in DOMAIN j.block : j.block[i].op = "pop"

\* mangle turns these into a push or a pop of its own, which then looks like
\* one that the instrumentation added.
UsesStackAndMemory(in) ==
    \/ in.op = "push" /\ in.s.k = "mem"
    \/ in.op = "pop" /\ in.d.k = "mem"
    \/ in.op = "mov" /\ in.d = R("rsp")

Done == phase = "running" /\ code = <<>>

\* visit_operands, mangle, region_register_spiller, post_process_instructions:
\* an instrumented block leaves registers (with the marks of watched addresses),
\* memory and the carry flag as the block of the program does, whatever
\* interrupts came; no watched address is dereferenced, and the watcher is
\* shown every watched address that is used and no other.  Where a guarded
\* block of user space pushes or pops memory this is not so (RedzoneIsKept).
WatchedIsNative ==
    Done /\ ~(IsGuarded(job) /\ \E in \in Range(job.block) : UsesStackAndMemory(in)) =>
        LET n == NativeRun(job)
        IN  /\ ~st.wild
            /\ st.reg = n.reg
            /\ Ends(job) \notin {"ret", "calls"} => st.flags = n.flags
            /\ SameMemory(n, IF IsGuarded(job) THEN RedzoneOf(job) ELSE 0)
            /\ st.seen = n.seen

\* visit_operands: "If we are using string instructions then operand address
\* might have been changed by the instruction itself.  As such, we need to
\* restore the counter index, but nothing else."
MarksAreKept == Done => \A r \in Regs : Marks(st.reg[r]) = Marks(NativeRun(job).reg[r])

\* post_process_instructions: "If it doesn't contain a POP or CALL instruction
\* that doesn't have a native PC then don't guard against the redzone.
\* Otherwise guard."
RedzoneIsKept == Done => SameMemory(NativeRun(job), RedzoneOf(job))

=============================================================================
