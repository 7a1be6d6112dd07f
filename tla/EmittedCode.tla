---------------------------- MODULE EmittedCode -----------------------------
(***************************************************************************)
(* The instruction sequences that mangle.cc, ibl.cc and emit_utils.cc put  *)
(* in the place of one instruction of the program: far memory operands,    *)
(* indirect branches, saved flags.  A behaviour is one such sequence,      *)
(* executed one instruction at a time; between any two instructions an     *)
(* interrupt (or, in user space, a signal) may use the stack.              *)
(***************************************************************************)
EXTENDS EmitUtils

CONSTANTS FarInstructions,  \* instructions with a far memory operand
          NextInstructions, \* what may follow them
          Targets           \* operands of indirect branches

VARIABLES job,      \* what is mangled, and in which environment
          code,     \* the emitted instructions that are still to be executed
          st        \* the machine

vars == <<job, code, st>>

\* REDZONE_SIZE, in slots: two of the sixteen.
Redzone(j) == IF j.kernel THEN 0 ELSE 2

Jobs ==
    [kind : {"far"}, in : FarInstructions, next : NextInstructions,
     target : {None}, path : {"none"}, kernel : BOOLEAN]
    \cup
    [kind : {"call", "jmp"}, in : {cti}, next : {cti},
     target : Targets, path : {"hit", "miss"}, kernel : BOOLEAN]
    \cup
    [kind : {"ret"}, in : {cti}, next : {cti},
     target : {None}, path : {"hit", "miss"}, kernel : {FALSE}]
    \cup
    [kind : {"flags live", "flags dead"}, in : {cti}, next : {cti},
     target : {None}, path : {"none"}, kernel : BOOLEAN]

-----------------------------------------------------------------------------
(* Far memory operands                                                     *)

\* The register that is dead before the instruction, and the ones to spill.
Chosen(in, next) ==
    LET dead == Zombie(visit(visit(revive_all, next), in))
        rm   == kill(ReviveInstruction(kill_all, in), R(dead))
    IN  [isDead |-> dead # "null",
         spill  |-> Zombie(rm),
         dead   |-> IF dead # "null" THEN dead ELSE Zombie(TakeZombie(rm))]

mangle_far_memory_push(c) ==
    IF c.isDead
    THEN <<mov(R(c.dead), Imm(Far)), push(M(c.dead, 0))>>
    ELSE <<lea(R("rsp"), M("rsp", -1)), push(R(c.spill)),
           mov(R(c.spill), Imm(Far)), mov(R(c.spill), M(c.spill, 0)),
           mov(M("rsp", 1), R(c.spill)), pop(R(c.spill))>>

\* The last three instructions are each inserted right after `in`.
mangle_far_memory_pop(c) ==
    IF c.isDead
    THEN <<pop(R(c.dead)), push(R(c.spill)), mov(R(c.spill), Imm(Far)),
           mov(M(c.spill, 0), R(c.dead)), pop(R(c.spill))>>
    ELSE <<push(R(c.dead)), push(R(c.spill)), mov(R(c.spill), Imm(Far)),
           mov(R(c.dead), M("rsp", 2)), mov(M(c.spill, 0), R(c.dead)),
           lea(R("rsp"), M("rsp", 1)), pop(R(c.dead)), pop(R(c.spill))>>

\* update_far_operand
Near(in, r) ==
    [in EXCEPT !.d = IF @.k = "far" THEN M(r, 0) ELSE @,
               !.s = IF @.k = "far" THEN M(r, 0) ELSE @]

\* As Spilled would be if the redzone were given back before the register.
Spilled_Early(in, r, redzone) ==
    <<lea(R("rsp"), M("rsp", -redzone)), push(R(r)), mov(R(r), Imm(Far)), Near(in, r),
      lea(R("rsp"), M("rsp", redzone)), pop(R(r))>>

Spilled(in, r, redzone) ==
    <<lea(R("rsp"), M("rsp", -redzone)), push(R(r)), mov(R(r), Imm(Far)), Near(in, r),
      pop(R(r)), lea(R("rsp"), M("rsp", redzone))>>

\* A far address is loaded as a constant.
mangle_lea(in) == <<mov(in.d, Imm(Far))>>

mangle_far_memory_refs(in, next, redzone) ==
    LET c == Chosen(in, next)
    IN  CASE in.op = "push" -> mangle_far_memory_push(c)
          [] in.op = "pop"  -> mangle_far_memory_pop(c)
          [] c.isDead -> <<mov(R(c.dead), Imm(Far)), Near(in, c.dead)>>
          [] OTHER -> Spilled(in, c.spill, redzone)

mangle(in, next, redzone) ==
    IF in.op = "lea" THEN mangle_lea(in) ELSE mangle_far_memory_refs(in, next, redzone)

-----------------------------------------------------------------------------
\* What a user of the saved flags does in between.
Clobber == <<I("cmp", None, None), mov(R("rcx"), R("rcx"))>>

-----------------------------------------------------------------------------
(* Indirect branches                                                       *)

\* The target of the branch, in terms of the stack that the stub has made.
AdjustedTarget(t, offset) ==
    IF t.k = "mem" /\ t.r = "rsp" THEN [t EXCEPT !.d = @ + offset] ELSE t

LoadTarget(t) ==
    CASE t.k = "far" -> <<mov(R("rdi"), Imm(Far)), mov(R("rdi"), M("rdi", 0))>>
      [] t.k = "reg" /\ t.r = "rdi" -> <<>>
      [] OTHER -> <<mov(R("rdi"), t)>>

\* Mangles the target, hashes it and gets the source address: rdi, rax, rsi.
ibl_lookup_stub ==
    <<I("mangle", R("rdi"), None), mov(R("rsi"), Imm(V("table"))),
      mov(R("rax"), R("rdi")), add(R("rax"), R("rsi")),
      mov(R("rsi"), Imm(V("source")))>>

\* A call is a jump around the stub to a call of the stub.
mangle_ibl_lookup(kind, t) ==
    LET offset == IF kind = "call" THEN 2 ELSE 1
    IN  (IF kind = "call" THEN <<push(Imm(V("return")))>> ELSE <<>>)
        \o (IF kind = "ret" THEN <<I("xchg", M("rsp", 0), R("rdi"))>>
            ELSE <<push(R("rdi"))>> \o LoadTarget(AdjustedTarget(t, offset)))
        \o <<push(R("rax")), push(R("rsi"))>>
        \o insert_save_arithmetic_flags_after(FALSE)
        \o ibl_lookup_stub

\* The second entry of an exit routine.
HitFromFind == <<pop(R("rdi"))>>

ibl_exit_routine ==
    <<mov(R("rax"), Imm(V("table"))), I("cmp", None, None)>>
    \o insert_restore_arithmetic_flags_after(FALSE)
    \o <<pop(R("rsi")), pop(R("rax"))>> \o HitFromFind

\* code_cache::find, on the private stack in the kernel.
global_code_cache_lookup_routine(kernel) ==
    LET rm == FoldLeft(revive_64, kill_all, <<"rdi", "rax", "rsi", "rbx">>)
    IN  (IF kernel THEN insert_restore_arithmetic_flags_after(FALSE)
                        \o insert_save_flags_after(kernel, FALSE)
         ELSE <<>>)
        \o save_and_restore_registers(rm,
                <<I("call", GranaryClobbers, None), mov(R("rdi"), R("rax"))>>)
        \o insert_restore_flags_after(kernel, FALSE)
        \o <<pop(R("rsi")), pop(R("rax"))>>
        \o HitFromFind

-----------------------------------------------------------------------------

Emitted(j) ==
    CASE j.kind = "far" -> mangle(j.in, j.next, Redzone(j)) \o <<j.next>>
      [] j.kind \in {"flags live", "flags dead"} ->
            (IF j.kind = "flags dead" THEN <<push(R("rax"))>> ELSE <<>>)
            \o insert_save_flags_after(j.kernel, j.kind = "flags live")
            \o Clobber
            \o insert_restore_flags_after(j.kernel, j.kind = "flags live")
            \o (IF j.kind = "flags dead" THEN <<pop(R("rax"))>> ELSE <<>>)
      [] OTHER ->
            mangle_ibl_lookup(j.kind, j.target)
            \o (IF j.path = "hit" THEN ibl_exit_routine
                ELSE global_code_cache_lookup_routine(j.kernel))

Before == Start(6)

\* The same instructions without Granary.
Native(j) ==
    CASE j.kind = "far"  -> Run(Before, <<j.in, j.next>>)
      [] j.kind = "call" -> Run(Before, <<push(Imm(V("return")))>>)
      [] j.kind = "ret"  -> Run(Before, <<pop(R("none"))>>)
      [] OTHER           -> Before

NativeTarget(j) ==
    IF j.kind = "ret" THEN Read(Before, M("rsp", 0)) ELSE Read(Before, j.target)

Init ==
    /\ job \in Jobs
    /\ code = Emitted(job)
    /\ st = Before

Execute ==
    /\ code # <<>>
    /\ st' = Step(st, Head(code))
    /\ code' = Tail(code)
    /\ UNCHANGED job

\* An interrupt uses the stack of the code that it interrupts.
Interrupt ==
    /\ code # <<>>
    /\ st.ints = V("on")
    /\ st' = Scribble(st, Redzone(job))
    /\ UNCHANGED <<job, code>>

Next == Execute \/ Interrupt

Spec == Init /\ [][Next]_vars

-----------------------------------------------------------------------------

\* The stack that the program has in use before and after the instruction.  The
\* redzone counts only for instructions that do not use the stack themselves:
\* mangle.cc assumes as much of push, pop and indirect branches.
LowestSlot(j) ==
    LET tops == {Top(Before), Top(Native(j))}
        kept == IF j.kind = "far" /\ j.in.op \notin {"push", "pop"}
                THEN Redzone(j) ELSE 0
    IN  Max(tops) - kept

\* An indirect branch looks up the target that the program computed, also
\* when the operand is relative to a stack pointer that the stub has moved.
TargetIsNative(j) ==
    j.kind \in {"call", "jmp", "ret"}
        => st.seen[1]["rdi"] = Term("mangled", <<NativeTarget(j)>>)

\* At the end of every sequence that mangle.cc, ibl.cc and emit_utils.cc emit,
\* whatever interrupts came, the program is in the state in which its own
\* instruction would have left it, and goes where it would have gone.  pop is
\* in PopIsNative.
EmittedIsNative ==
    code = <<>> /\ job.in.op # "pop" =>
        Same(st, Native(job), LowestSlot(job)) /\ TargetIsNative(job)

\* mangle_far_memory_pop: "Mangle a `pop addr`, where `addr` is unreachable."
PopIsNative ==
    code = <<>> /\ job.in.op = "pop" => Same(st, Native(job), LowestSlot(job))

=============================================================================
