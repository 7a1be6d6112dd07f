--------------------------- MODULE InterruptEntry ---------------------------
(***************************************************************************)
(* The way of an interrupt through Granary in the kernel: the routine of a *)
(* vector, the common routine, the private stack, handle_interrupt, and    *)
(* the three ways out (to the kernel's handler, back with an IRET, or back *)
(* with a RET into a delay region, at whose end the interrupt is issued    *)
(* again).  A behaviour is one interrupt, one instruction at a time; NMIs  *)
(* use the stack in between.                                               *)
(*                                                                         *)
(* The stack slots 0 and 1 are cpu->spill, the ones up to PrivateTop are   *)
(* the private stack of the CPU, the rest is the interrupted stack.        *)
(***************************************************************************)
EXTENDS EmitUtils

CONSTANTS PrivateTop,   \* granary_get_private_stack_top
          Used          \* how many slots of its stack the program may use

VARIABLES job, code, st

vars == <<job, code, st>>

Raised == {"page fault", "general protection", "irq"}

Places == {"invalid", "user", "cache", "cache delay", "gencode", "delayed",
           "module", "try access", "kernel", "granary"}

has_error_code(vector) == vector \in {"page fault", "general protection"}

Jobs == {j \in [vector : Raised, place : Places, used : Used, client : {"DEFER", "IRET"}] :
            \* The copy of a delay region runs with interrupts disabled.
            /\ j.place = "delayed" => j.vector # "irq"
            \* The client is asked about neither of these.
            /\ j.place \in {"cache delay", "user"} => j.client = "DEFER"}

-----------------------------------------------------------------------------
(* handle_interrupt: the answer and the address to go on at                *)

Answer(ret, rip) == [ret |-> ret, rip |-> rip]

Interrupted == V("interrupted")
Unchanged == V("unchanged")

handle_code_cache_interrupt(j) ==
    IF j.place = "cache delay" THEN Answer("RETURN", V("copy of the delay region"))
    ELSE Answer(j.client, Unchanged)

handle_gencode_interrupt(j) ==
    Answer(IF j.place = "delayed" THEN "IRET" ELSE "DEFER", Unchanged)

handle_kernel_interrupt(j) ==
    IF j.vector = "page fault" /\ j.place = "try access"
    THEN Answer("IRET", V("granary_fail_access"))
    ELSE Answer(j.client, Unchanged)

handle_module_interrupt(j) == Answer("IRET", V("translation of interrupted"))

handle_interrupt(j) ==
    CASE j.place = "invalid" -> Answer("DEFER", Unchanged)
      [] j.place \in {"cache", "cache delay"} -> handle_code_cache_interrupt(j)
      [] j.place \in {"gencode", "delayed"} -> handle_gencode_interrupt(j)
      [] j.place = "module" -> IF j.vector = "page fault" THEN handle_module_interrupt(j)
                               ELSE Answer("DEFER", Unchanged)
      [] OTHER -> handle_kernel_interrupt(j)

-----------------------------------------------------------------------------
(* The processor                                                           *)

IsPrivate(n) == n < PrivateTop

\* The frame of an interrupt is pushed on an aligned stack.
Deliver(s, j, rip) ==
    LET frame == <<V("ss"), s.reg["rsp"], Term("rflags", <<s.flags, s.ints>>),
                   IF j.place = "user" THEN V("user cs") ELSE V("cs"), rip>>
                 \o (IF has_error_code(j.vector) THEN <<V("error code")>> ELSE <<>>)
        aligned == [s EXCEPT !.reg["rsp"] = Sp(Top(s) - (Top(s) % 2))]
    IN  [FoldLeft(Push, aligned, frame) EXCEPT !.ints = V("off")]

iret(s) ==
    LET At(i) == Read(s, M("rsp", i))
    IN  IF At(2)[1] # "rflags" THEN [s EXCEPT !.wild = TRUE]
        ELSE [s EXCEPT !.reg["none"] = At(0), !.reg["rsp"] = At(3),
                       !.flags = At(2)[3][1], !.ints = At(2)[3][2]]

\* handle_interrupt as the routine sees it: it may change the frame that its
\* first argument points to, and returns a value.
handle(s, a) ==
    LET isf(i) == Sp(s.reg["rdi"][2] + i)
        masked == Term("rflags", <<s.mem[isf(3)][3][1], V("off")>>)
    IN  IF s.reg["rdi"][1] # "sp" \/ s.mem[isf(3)][1] # "rflags"
        THEN [s EXCEPT !.wild = TRUE]
        ELSE [s EXCEPT !.mem[isf(1)] = IF a.rip = Unchanged THEN @ ELSE a.rip,
                       !.mem[isf(3)] = IF a.ret = "RETURN" THEN masked ELSE @,
                       !.reg = [r \in DOMAIN @ |->
                                    IF r = "rax" THEN V(a.ret)
                                    ELSE IF r \in GranaryClobbers THEN Junk ELSE @[r]],
                       !.flags = Junk]

StepOf(s, in) ==
    CASE in.op = "iret"   -> iret(s)
      [] in.op = "handle" -> handle(s, Answer(in.d, in.s))
      [] in.op = "align"  ->
            [s EXCEPT !.reg["rax"] = Sp(@[2] - (@[2] % 2))]
      [] in.op = "enable" ->        \* or_(*rsp, mask)
            [s EXCEPT !.mem[s.reg["rsp"]] = Term("rflags", <<@[3][1], V("on")>>),
                      !.flags = Junk]
      [] OTHER -> Step(s, in)

Op(name) == I(name, None, None)
ret == pop(R("none"))
call == push(Imm(V("return address")))

-----------------------------------------------------------------------------
(* stack.asm                                                               *)

granary_enter_private_stack(private) ==
    <<call, push(R("rdi")), push(R("rsi")), mov(R("rax"), Imm(Sp(PrivateTop))),
      pop(R("rsi")), pop(R("rdi")), push(R("rax")), Op("cmp"), pop(R("rax"))>>
    \o IF private
       THEN <<pop(R("rax")), push(R("rsp")), push(M("rsp", 0))>>
       ELSE <<I("xchg", R("rsp"), R("rax")), lea(R("rax"), M("rax", 1)),
              push(R("rax")), push(R("rax"))>>

granary_exit_private_stack == <<call, pop(R("rax")), pop(R("rsp"))>>

-----------------------------------------------------------------------------
(* The emitted routines, as the instructions that one interrupt executes   *)

\* emit_interrupt_routine, up to and from its call of the common routine.
Enter(vector) ==
    <<push(R("rsp"))>>
    \o (IF has_error_code(vector) THEN <<>> ELSE <<push(M("rsp", 0))>>)
    \o <<push(R("rdi")), push(R("rsi")), lea(R("rdi"), M("rsp", 3)),
         mov(R("rsi"), Imm(V(vector))), Op("pushf"), call>>

Leave == <<Op("popf"), pop(R("rsi")), pop(R("rdi")), pop(R("rsp"))>>

\* CASE 2.1: the interrupt has been handled.
HandledCase ==
    <<lea(R("rsp"), M("rsp", 3)), pop(R("rsi")), pop(R("rdi")),
      lea(R("rsp"), M("rsp", 2)), Op("iret")>>

\* As ReturnCase would be if it put rax where the return address is.
ReturnCase_Overlap ==
    <<pop(R("rdi")), push(R("rax")), mov(R("rax"), M("rdi", 4)),
      mov(R("rsi"), M("rdi", 1)), mov(M("rax", -1), R("rsi")),
      mov(R("rsi"), M("rsp", 0)), mov(M("rax", -3), R("rsi")),
      mov(R("rsi"), M("rdi", 3)), mov(M("rax", -2), R("rsi")),
      lea(R("rax"), M("rax", -3)), mov(R("rsi"), M("rsp", 3)),
      mov(R("rdi"), M("rsp", 4)), mov(R("rsp"), R("rax")), pop(R("rax")),
      Op("popf"), ret>>

\* CASE 2.2: a RET to the address in the frame, whose words are moved to the
\* top of the stack that was interrupted.
ReturnCase ==
    <<pop(R("rdi")), push(R("rax")), mov(R("rax"), M("rdi", 4)),
      mov(R("rsi"), M("rdi", 1)), mov(M("rax", -1), R("rsi")),
      mov(R("rsi"), M("rdi", 3)), mov(M("rax", -2), R("rsi")),
      mov(R("rsi"), M("rsp", 0)), mov(M("rax", -3), R("rsi")),
      lea(R("rax"), M("rax", -3)), mov(R("rsi"), M("rsp", 3)),
      mov(R("rdi"), M("rsp", 4)), mov(R("rsp"), R("rax")), pop(R("rax")),
      Op("popf"), ret>>

\* CASE 2.3: the kernel handles the interrupt.
DeferCase == <<lea(R("rsp"), M("rsp", 1)), ret>> \o Leave

\* emit_common_interrupt_routine
Common(j) ==
    LET rm == FoldLeft(revive_64, kill_all, <<"rdi", "rsi", "rax", "rbx">>)
        a  == handle_interrupt(j)
    IN  <<push(R("rdi")), push(R("rax")), mov(R("rax"), M("rdi", 2)), Op("cmp")>>
        \o IF j.place = "user"
           THEN <<pop(R("rax")), lea(R("rsp"), M("rsp", 1)), ret>> \o Leave
           ELSE save_and_restore_registers(rm,
                    granary_enter_private_stack(j.place = "granary")
                    \o <<call, I("handle", a.ret, a.rip), ret, mov(R("rdi"), R("rax"))>>
                    \o granary_exit_private_stack)
                \o <<Op("cmp"), pop(R("rax"))>>
                \o CASE a.ret = "IRET"   -> HandledCase
                     [] a.ret = "RETURN" -> ReturnCase
                     [] a.ret = "DEFER"  -> DeferCase

\* emit_delayed_interrupt: what follows the copy of the delay region builds the
\* frame of the interrupt again, and jumps to the routine of the vector, where
\* the interrupt is deferred as it now comes from behind the region.
Reissue(j) ==
    <<push(R("rax")), mov(R("rax"), Imm(Sp(0))), mov(M("rax", 1), R("rbx")),
      pop(R("rbx")), mov(M("rax", 0), R("rbx")), mov(R("rax"), R("rsp")),
      mov(R("rbx"), Imm(V("STACK_ALIGN"))), Op("align"),
      mov(R("rbx"), R("rsp")), mov(R("rsp"), R("rax")),
      mov(R("rax"), Imm(V("ss"))), push(R("rax")), push(R("rbx")), Op("pushf"),
      mov(R("rax"), Imm(V("mask"))), Op("enable"),
      mov(R("rax"), Imm(V("cs"))), push(R("rax")),
      mov(R("rax"), Imm(V("delay end"))), push(R("rax"))>>
    \o (IF has_error_code(j.vector)
        THEN <<mov(R("rax"), Imm(V("error code"))), push(R("rax"))>> ELSE <<>>)
    \o <<mov(R("rax"), Imm(Sp(0))), mov(R("rbx"), M("rax", 1)),
         mov(R("rax"), M("rax", 0))>>
    \o Enter(j.vector) \o Common([j EXCEPT !.place = "cache"])

-----------------------------------------------------------------------------

\* The program, at its interrupted instruction.
Before(j) ==
    LET s == Start(j.used)
    IN  IF j.place = "granary" THEN [s EXCEPT !.reg["rsp"] = Sp(PrivateTop - j.used)]
        ELSE IF j.place = "delayed" THEN [s EXCEPT !.ints = V("off")]
        ELSE s

Init ==
    /\ job \in Jobs
    /\ st = Deliver(Before(job), job, Interrupted)
    /\ code = Enter(job.vector) \o Common(job)
              \o IF handle_interrupt(job).ret = "RETURN" THEN Reissue(job) ELSE <<>>

Execute ==
    /\ code # <<>>
    /\ st' = StepOf(st, Head(code))
    /\ code' = Tail(code)
    /\ UNCHANGED job

\* An NMI pushes its frame below the stack pointer, whatever stack that is.
TakeNMI ==
    /\ code # <<>>
    /\ st' = [st EXCEPT !.mem = [a \in DOMAIN st.mem |->
                IF /\ a[1] = "sp" /\ a[2] < Top(st) /\ a[2] > 1
                   /\ IsPrivate(a[2]) = IsPrivate(Top(st) - 1)
                THEN Junk ELSE st.mem[a]]]
    /\ UNCHANGED <<job, code>>

Next == Execute \/ TakeNMI

Spec == Init /\ [][Next]_vars

-----------------------------------------------------------------------------

\* What the kernel's handler, or the program if there is nothing to handle, would
\* see without Granary.  A delayed interrupt comes behind the delay region; the
\* flags in its frame are right, but not the ones that its handler starts with.
Native(j) ==
    LET a == handle_interrupt(j)
    IN  CASE a.ret = "DEFER"  -> Deliver(Before(j), j, Interrupted)
          [] a.ret = "RETURN" -> [Deliver(Before(j), j, V("delay end"))
                                    EXCEPT !.flags = Junk]
          [] a.ret = "IRET"   -> [Before(j) EXCEPT !.reg["none"] =
                                    IF a.rip = Unchanged THEN Interrupted ELSE a.rip]

\* The slot that aligns the frame of an interrupt holds nothing.
NoGap(s, j) ==
    IF Top(Before(j)) % 2 = 0 THEN s
    ELSE [s EXCEPT !.mem[Sp(Top(Before(j)) - 1)] = Junk]

\* Every interrupt leaves Granary with the registers, the flags, the stack and
\* the frame that the kernel's handler (or, when Granary or a client handled it,
\* the interrupted program) has without Granary, on any stack, with or without
\* an error code, and whatever NMIs come on the way: emit_interrupt_routine,
\* emit_common_interrupt_routine, emit_delayed_interrupt, stack.asm.
InterruptIsTransparent ==
    code = <<>> =>
        /\ Same(NoGap(st, job), NoGap(Native(job), job), Top(Native(job)))
        /\ handle_interrupt(job).ret = "IRET" => st.reg["none"] = Native(job).reg["none"]

=============================================================================
