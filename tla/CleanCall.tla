----------------------------- MODULE CleanCall ------------------------------
(***************************************************************************)
(* Clean calls of emit_utils: find_used_regs_in_func walks the code of a   *)
(* function to find the registers that it may change,                      *)
(* generate_clean_callable_address emits an entry that saves them around a *)
(* call of the function, and insert_clean_call_after emits the call of     *)
(* that entry into a block.                                                *)
(***************************************************************************)
EXTENDS EmitUtils

CONSTANTS Code,       \* the functions: a sequence of instructions
          Functions,  \* the indices where functions start
          ArgRegs,    \* ARGUMENT_REGISTERS
          ArgLists    \* the arguments of clean calls

VARIABLES call,       \* the clean call that is set up
          bbs,        \* process_bbs
          seen,       \* addresses of blocks that were visited
          bb,         \* the next instruction of the current block, or 0
          used,       \* used_regs: what is dead in it is used
          code,       \* emitted instructions to execute
          st          \* the machine

vars == <<call, bbs, seen, bb, used, code, st>>

Calls ==
    [func : Functions, abi : BOOLEAN, kernel : BOOLEAN, args : ArgLists,
     depth : {4, 5}]

jmp(n) == I("jmp", None, Pc(n))
jcc(n) == I("jcc", None, Pc(n))
calls(n) == I("calls", None, Pc(n))
ret == I("ret", None, None)
jmp_ind == I("jmp_ind", None, None)

IsCti(in) == in.op \in {"jmp", "jcc", "calls", "ret", "jmp_ind"}

\* The registers of which an instruction changes at least so many bits.
Writes(in, bits) ==
    IF IsCti(in) THEN {}
    ELSE {o.r : o \in {x \in Range(Dsts(in)) : x.k = "reg" /\ x.w >= bits}}

Init ==
    /\ call \in Calls
    /\ bbs = <<call.func>> /\ seen = {} /\ bb = 0
    /\ used = revive_all
    /\ code = <<>> /\ st = Start(call.depth)

NextBlock ==
    /\ code = <<>> /\ bb = 0 /\ bbs # <<>>
    /\ bbs' = Tail(bbs)
    /\ IF Head(bbs) \in seen THEN UNCHANGED <<seen, bb>>
       ELSE seen' = seen \cup {Head(bbs)} /\ bb' = Head(bbs)
    /\ UNCHANGED <<call, used, code, st>>

Unseen(pc) == IF pc \in seen THEN <<>> ELSE <<pc>>

\* As BranchBlocks would be if the code after a branch were not visited.
BranchBlocks_NoFallThrough(in) == Unseen(in.s.d)

BranchBlocks(in) == Unseen(in.s.d) \o Unseen(bb + 1)

\* Calls are not followed if the function keeps to the ABI.
DecodeNext ==
    /\ bb # 0
    /\ LET in == Code[bb]
       IN  CASE in.op = "ret" -> bb' = 0 /\ UNCHANGED <<bbs, used>>
             [] in.op = "calls" /\ call.abi -> bb' = bb + 1 /\ UNCHANGED <<bbs, used>>
             [] in.op = "jmp_ind" -> bb' = 0 /\ bbs' = <<>> /\ used' = kill_all
             [] in.op = "jmp" ->
                    bb' = 0 /\ bbs' = bbs \o Unseen(in.s.d) /\ UNCHANGED used
             [] in.op = "jcc" ->
                    bb' = 0 /\ bbs' = bbs \o BranchBlocks(in) /\ UNCHANGED used
             [] in.op = "calls" ->
                    bb' = bb + 1 /\ bbs' = bbs \o Unseen(in.s.d) /\ UNCHANGED used
             [] OTHER -> bb' = bb + 1 /\ used' = kill_dests(used, in) /\ UNCHANGED bbs
    /\ UNCHANGED <<call, seen, code, st>>

-----------------------------------------------------------------------------

\* What is saved: the registers found to be used, corrected by the ABI, without
\* the arguments that the caller saves, with the ones it does not.
DeadRegs ==
    LET n    == Len(call.args)
        abi  == IF ~call.abi THEN used
                ELSE kill_64(revive_64(used, "rbx"), R("r8"))
        mine == FoldLeft(revive_64, abi, SubSeq(ArgRegs, 1, n))
    IN  FoldLeft(LAMBDA m, r : kill_64(m, R(r)), mine,
                 SubSeq(ArgRegs, n + 1, Len(ArgRegs)))

Successors(i, follow) ==
    LET in == Code[i]
    IN  CASE in.op = "ret" -> {}
          [] in.op = "jmp_ind" -> DOMAIN Code
          [] in.op = "jmp" -> {in.s.d}
          [] in.op = "jcc" \/ (in.op = "calls" /\ follow) -> {in.s.d, i + 1}
          [] OTHER -> {i + 1}

RECURSIVE Reach(_, _)
Reach(S, follow) ==
    LET T == S \cup UNION {Successors(i, follow) : i \in S}
    IN  IF T = S THEN S ELSE Reach(T, follow)

Written(bits, follow) ==
    UNION {Writes(Code[i], bits) : i \in Reach({call.func}, follow)} \ {"rsp"}

\* What the function may really clobber: any part of any register that is
\* written in it or in what it calls, except what the ABI makes it restore.
\* Kernel code does not use XMM registers.
Clobbers ==
    {r \in Written(8, TRUE) : /\ call.abi => r \in CallerSaved
                              /\ call.kernel => r \notin Range(Xmm)}

\* generate_clean_callable_address
Entry ==
    LET func == <<I("call", Clobbers, None)>>
        xmm  == IF call.kernel THEN func
                ELSE save_and_restore_xmm_registers(DeadRegs, func)
        body == IF call.abi
                THEN insert_align_stack_after \o xmm
                        \o insert_restore_old_stack_alignment_after
                ELSE xmm
    IN  <<I("pushf", None, None)>>
        \o (IF call.kernel THEN <<I("cli", None, None)>> ELSE <<>>)
        \o save_and_restore_registers(DeadRegs, body)
        \o <<I("popf", None, None), pop(R("none"))>>

\* insert_clean_call_after
Inserted ==
    LET n == Len(call.args)
        Load(i) == IF call.args[i] = R(ArgRegs[i]) THEN I("nop", None, None)
                   ELSE mov(R(ArgRegs[i]), call.args[i])
    IN  [i \in 1 .. n |-> push(R(ArgRegs[i]))]
        \o [i \in 1 .. n |-> Load(i)]
        \o <<push(Imm(V("return")))>> \o Entry
        \o [i \in 1 .. n |-> pop(R(ArgRegs[n + 1 - i]))]

Done == I("done", None, None)

Emit ==
    /\ code = <<>> /\ bb = 0 /\ bbs = <<>>
    /\ code' = Inserted \o <<Done>>
    /\ UNCHANGED <<call, bbs, seen, bb, used, st>>

Execute ==
    /\ code # <<>> /\ code # <<Done>>
    /\ st' = Step(st, Head(code))
    /\ code' = Tail(code)
    /\ UNCHANGED <<call, bbs, seen, bb, used>>

Next == NextBlock \/ DecodeNext \/ Emit \/ Execute

Spec == Init /\ [][Next]_vars /\ WF_vars(Next)

-----------------------------------------------------------------------------

\* find_used_regs_in_func does not look for these: registers of which less than
\* 32 bits are written, or that only a called function writes.
Missed == Clobbers \ Written(32, ~call.abi)

\* The program is as it was, except for what the function is allowed to change.
Preserved(except) ==
    LET s == [st EXCEPT !.reg = [r \in DOMAIN @ |->
                IF r \in except THEN V(r) ELSE @[r]]]
    IN  Same(s, Start(call.depth), StackSlots - call.depth)

\* generate_clean_callable_address: "will correctly save/restore registers".
CleanCallPreserves == code = <<Done>> => Preserved({})

\* The function gets its arguments, on an aligned stack if it keeps to the ABI.
CalledRight ==
    LET at == st.seen[1]
    IN  /\ \A i \in 1 .. Len(call.args) :
                at[ArgRegs[i]] = Read(Start(call.depth), call.args[i])
        /\ call.abi => at["rsp"][2] % 2 = 0

\* A clean call changes nothing that the walk over the function looks for,
\* whatever the shape of the function, its arguments and the stack; and the
\* function is called as it expects to be.
CleanCallIsClean == code = <<Done>> => Preserved(Missed) /\ CalledRight

\* The walk has ended, and the call is emitted and executed.
CleanCallIsMade == code = <<Done>>

=============================================================================
