--------------------------- MODULE MCTranslation ----------------------------
(***************************************************************************)
(* What a translation consists of. A behaviour is about one part of it:     *)
(* a trace that is built ("trace"), a list of instructions that is encoded  *)
(* and patched ("encoding"), the delay regions in it ("delay"), and the code*)
(* that stands for an instruction ("emitted") or for a clean call ("clean").*)
(* The variables x1 .. x11 hold the state of the part.                      *)
(***************************************************************************)
EXTENDS EmitUtils

VARIABLES part, x1, x2, x3, x4, x5, x6, x7, x8, x9, x10, x11

MCXmm == <<"x0", "x1">>
MCOrder == <<"rax", "rcx", "rbx", "rsp", "rsi", "rdi", "r8">>

-----------------------------------------------------------------------------

C(op, len, to) == [op |-> op, len |-> len, to |-> to]
Op == C("op", 1, 0)
Lock == C("op", 2, 0)
Nop == C("nop", 1, 0)
Ret == C("ret", 1, 0)
Jumps(t) == {C("jmp", 1, t), C("jcc", 1, t)}

P(S1, S2, S3, S4, S5, D, F) ==
    {[code |-> <<a, b, c, d, e, Ret>>, detach |-> x, profile |-> y]
        : a \in S1, b \in S2, c \in S3, d \in S4, e \in S5, x \in D, y \in F}

\* Loops, branches into the middle of an instruction (a lock prefix), detach
\* points, code that cannot be decoded, loop instructions, and profiles.
MCPrograms ==
    P({Op, Lock}, {Op, Lock, Nop, C("jcc", 1, 4)} , {Op} \cup Jumps(2),
      {Op} \cup Jumps(1) \cup Jumps(3), {Ret, C("jmp", 1, 1)}, {{}}, {<<>>})
    \cup P({Op, C("loop", 1, 3)}, {Nop, C("movrsp", 1, 0), C("jcc", 1, 4)},
           {C("iret", 1, 0), C("call", 1, 2), Op}, {C("loop", 1, 1), C("ud", 1, 0)},
           {C("jmp", 1, 2), C("jcc", 1, 3)}, {{}, {2}}, {<<>>})
    \cup P({Op}, {Op, C("jcc", 1, 4)}, {Op}, {C("jcc", 1, 2)}, {C("jmp", 1, 3)}, {{}},
           {<<[key |-> 3, value |-> 2], [key |-> 5, value |-> 7]>>,
            <<[key |-> 0, value |-> 2], [key |-> 3, value |-> 5], [key |-> 4, value |-> 2]>>})

T == INSTANCE TraceBuilder
        WITH Programs <- MCPrograms, FallThroughs <- 2,
             program <- x1, cached <- x2, trace <- x3, cursor <- x4, phase <- x5, changed <- x6,
             falls <- x7, lo <- x8, hi <- x9, at <- x10, native <- x11

-----------------------------------------------------------------------------

Labelled(op, size, patchable, hint, name) ==
    [op |-> op, size |-> size, patchable |-> patchable, hint |-> hint, name |-> name]
Plain(n) == Labelled("plain", n, FALSE, FALSE, "none")
Patchable(hint) == Labelled("jcc", 6, TRUE, hint, "stub")

\* Two branches that are patched, with and without a hint, and a loop.
MCLists ==
    {<<Labelled("label", 0, FALSE, FALSE, "top"), Plain(a), x, Plain(b), y,
       Labelled("jcc", 6, FALSE, FALSE, "top")>>
        : a \in {1, 3}, b \in {2, 3},
          x \in {Labelled("jmp", 5, TRUE, FALSE, "stub"), Patchable(TRUE), Patchable(FALSE)},
          y \in {Labelled("jmp", 5, TRUE, FALSE, "stub"), Patchable(FALSE)}}

N == INSTANCE Encoding
        WITH Lists <- MCLists, CacheLine <- 16, SlabSize <- 64,
             slab <- x1, estimate <- x2, code <- x3, start <- x4, pc <- x5, rel <- x6, read <- x7

-----------------------------------------------------------------------------

Marked(op, size, mark) == [op |-> op, size |-> size, mark |-> mark, to |-> 0]

\* All the blocks of up to five instructions with regions that begin and end.
MCBlocks ==
    {b \in UNION {[1 .. n ->
                    {Marked("plain", 1, "none"), Marked("plain", 2, "none"),
                     Marked("plain", 2, "begin"), Marked("plain", 2, "end"),
                     Marked("popf", 1, "none"), Marked("cli", 1, "none")}] : n \in 1 .. 5} :
        \A i \in 1 .. Len(b) :
            /\ b[i].mark = "begin" => \E j \in i + 1 .. Len(b) :
                    b[j].mark = "end" /\ \A k \in i + 1 .. j - 1 : b[k].mark = "none"
            /\ b[i].mark = "end" => \E j \in 1 .. i - 1 :
                    b[j].mark = "begin" /\ \A k \in j + 1 .. i - 1 : b[k].mark = "none"}

D == INSTANCE DelayRegions
        WITH Blocks <- MCBlocks, block <- x1, copy <- x2, end <- x3, at <- x4, irq <- x5

-----------------------------------------------------------------------------

MCFar == {mov(R("rax"), FarMem), mov(FarMem, R("rax")), add(FarMem, R("rcx")),
          add(R("rcx"), FarMem), mov(R8("rcx"), FarMem), push(FarMem), pop(FarMem),
          lea(R("rcx"), FarMem)}
MCFollowing == {cti, mov(R("rax"), R("rcx")), mov(R("rcx"), M("rax", 0)), mov(R8("rax"), R("rbx")),
                push(R("rcx")), pop(R("rbx")), I("bsf", R("r8"), R("rcx")), add(R("rax"), R("rsi"))}
MCTargets == {R("rdi"), R("rax"), R("r8"), M("rsp", 0), M("rsp", 2), M("rbx", 0), FarMem}

E == INSTANCE EmittedCode
        WITH FarInstructions <- MCFar, NextInstructions <- MCFollowing, Targets <- MCTargets,
             job <- x1, code <- x2, st <- x3

Branch(op, n) == I(op, None, Pc(n))
MCArgs == {<<>>, <<Imm(V("pc"))>>, <<R("rdi"), Imm(V("size"))>>, <<R("rcx"), R("rsi")>>}

\* 1: a loop with a write after it, and a narrow write; 5: recursion and a
\* call; 8: a leaf; 11: an indirect jump; 13: an endless loop.
MCCode ==
    <<mov(R8("rbx"), R("rdi")), Branch("jcc", 1), mov(R("r8"), R("rbx")), I("ret", None, None),
      Branch("jcc", 8), Branch("calls", 5), Branch("calls", 8),
      mov(R("rax"), R("x0")), mov(R("x1"), R("rdi")), I("ret", None, None),
      mov(R("rsi"), R("rbx")), I("jmp_ind", None, None),
      mov(M("rbx", 0), R("rdi")), add(R("rbx"), R("rax")), Branch("jmp", 13)>>

L == INSTANCE CleanCall
        WITH Code <- MCCode, Functions <- {1, 5, 8, 11, 13}, ArgRegs <- <<"rdi", "rsi", "rcx">>,
             ArgLists <- MCArgs,
             call <- x1, bbs <- x2, seen <- x3, bb <- x4, used <- x5, code <- x6, st <- x7

-----------------------------------------------------------------------------

Unused4 == x4 = 0 /\ x5 = 0
Unused6 == x6 = 0 /\ x7 = 0
Unused8 == x8 = 0 /\ x9 = 0 /\ x10 = 0 /\ x11 = 0
Rest4 == <<x4, x5, x6, x7, x8, x9, x10, x11>>
Rest6 == <<x6, x7, x8, x9, x10, x11>>
Rest8 == <<x8, x9, x10, x11>>

TranslationInit ==
    \/ part = "trace" /\ T!Init
    \/ part = "encoding" /\ N!Init /\ Unused8
    \/ part = "delay" /\ D!Init /\ Unused6 /\ Unused8
    \/ part = "emitted" /\ E!Init /\ Unused4 /\ Unused6 /\ Unused8
    \/ part = "clean" /\ L!Init /\ Unused8

translationVars == <<part, x1, x2, x3, x4, x5, x6, x7, x8, x9, x10, x11>>

\* A trace is built and a clean call is emitted; the other parts may stop.
Done ==
    /\ part = "trace" => T!TraceIsBuilt
    /\ part = "clean" => L!CleanCallIsMade

TranslationNext ==
    \/ part = "trace" /\ T!Next /\ UNCHANGED part
    \/ part = "encoding" /\ N!Next /\ UNCHANGED <<part, Rest8>>
    \/ part = "delay" /\ D!Next /\ UNCHANGED <<part, Rest6>>
    \/ part = "emitted" /\ E!Next /\ UNCHANGED <<part, Rest4>>
    \/ part = "clean" /\ L!Next /\ UNCHANGED <<part, Rest8>>
    \/ Done /\ UNCHANGED translationVars

\* The CPU that translates is not preempted: it goes on until it is done. (As
\* a step is enabled until then, this is weak fairness of the next step.)
TranslationSpec ==
    /\ TranslationInit /\ [][TranslationNext]_translationVars
    /\ []<>Done \/ []<><<TRUE>>_translationVars

\* Whatever was followed, linked, split, reversed and dropped by trace_builder,
\* the trace executes the instructions of the program in their order.
TraceIsNative == part = "trace" => T!TraceIsNative

\* encode and the patching of its branches: a CPU that executes a branch while it
\* is patched reads the old or the new target, and the code fits its memory.
TargetsAreWhole == part = "encoding" => N!TargetsAreWhole /\ N!EncodingFits

\* get_interrupt_delay_range: no interrupt reaches the kernel when part of a
\* delay region has been executed.
RegionsAreAtomic == part = "delay" => D!RegionsAreAtomic

\* The sequences that mangle.cc, ibl.cc and emit_utils.cc emit leave the program
\* in the state in which its own instruction would have left it.
EmittedIsNative == part = "emitted" => E!EmittedIsNative

\* generate_clean_callable_address: a clean call changes nothing that the walk
\* over the function looks for, and calls the function as it expects.
CleanCallIsClean == part = "clean" => L!CleanCallIsClean

\* translate and find_used_regs_in_func come to an end: also with loops and with
\* branches into the middle of an instruction, and in recursive functions.
TranslationEnds == <>Done
=============================================================================
