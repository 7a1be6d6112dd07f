----------------------------- MODULE MCRuntime ------------------------------
(***************************************************************************)
(* How Granary comes into a kernel, and runs in it. A behaviour is about    *)
(* one part: the policies of code that calls and returns ("flow"), their    *)
(* identifiers ("ids"), the entry of interrupts ("interrupts"), the take    *)
(* over of the interrupt and system call tables ("bringup"), modules that   *)
(* come and go ("modules"), the wrapping of what is passed to the kernel    *)
(* ("wrappers"), the patching of its functions ("hotpatch") and the log of  *)
(* blocks ("log"). The variables x1 .. x7 hold the state of interrupts,     *)
(* wrappers and patching; the others have their own.                        *)
(***************************************************************************)
EXTENDS Policies, Bringup, TraceLog, Modules

CONSTANTS c1, c2, c3

VARIABLES part, x1, x2, x3, x4, x5, x6, x7

TwoCpus == {c1, c2}

DetachedIn == {<<"h1", "app">>, <<"a2", "app">>, <<"h2", "host">>}
Switches ==
    {{"kernel"}, {"kernel", "auto"}, {"kernel", "instrument host"}, {}, {"instrument host"}}

ASSUME RuntimeAssumption == FlowOK /\ ConstantsOK /\ BootOK /\ TraceOK /\ ModulesOK

\* Two stacks of 32 slots.
I == INSTANCE InterruptEntry
        WITH Order <- <<"rax", "rcx", "rbx", "rsp", "rsi", "rdi", "r8">>, Xmm <- <<>>,
             StackSlots <- 64, PrivateTop <- 32, Used <- {2, 3},
             job <- x1, code <- x2, st <- x3

-----------------------------------------------------------------------------

\* Handlers that are instrumented, partly instrumented, and not at all; an NMI;
\* and two entries of the system call table that share a function.
InHost(code) == [host |-> TRUE, code |-> code]
Idt(a, b) ==
    <<InHost(<<"push", "call 1", "jmp", "iret">>), InHost(<<"push", "call 1", "iret">>), InHost(a),
      [host |-> FALSE, code |-> <<"iret">>], InHost(b)>>
Idts ==
    {Idt(<<"push", "jmp", "call 1", "jcc", "call 2", "jmp", "iret">>, <<"jcc", "iret">>),
     Idt(<<"push", "call 1", "call 2", "iret">>, <<"push", "jmp", "call 2", "jmp", "iret">>),
     Idt(<<"push", "iret">>, <<"jcc", "iret">>)}

Vectored == 0 .. 4
KernelIdts == {[v \in Vectored |-> i[v + 1]] : i \in Idts}
KernelCalls == <<"read", "ni_syscall", "ni_syscall">>

\* The lengths of the texts of four modules, in half pages.
Texts == <<2, 4, 2, 6>>

-----------------------------------------------------------------------------

\* Structs with a tracker, that point at each other, and with fields that are
\* wrapped before and after the call.
Struct(tracker, pre, post) == [tracker |-> tracker, relax |-> 0, pre |-> pre, post |-> post]
Structs ==
    <<Struct(<<"a_ops", "writepage">>, <<"a_ops">>, <<>>),
      Struct(<<>>, <<"writepage", "readpage">>, <<>>),
      Struct(<<>>, <<"rx_handler", "peer">>, <<"ops">>),
      Struct(<<>>, <<"peer", "open">>, <<>>)>>

Fn(f) == [is |-> "function", n |-> f]
Obj(o) == [is |-> "object", n |-> o]
Values ==
    <<[a_ops |-> Obj(2)],
      [writepage |-> Fn(1), readpage |-> Fn(2)],
      [rx_handler |-> Fn(3), peer |-> Obj(4), ops |-> Obj(2)],
      [peer |-> Obj(3), open |-> Fn(1)]>>

W == INSTANCE Wrappers
        WITH Threads <- TwoCpus, Type <- Structs, Fields <- Values, HostFuncs <- {3}, Depth <- 2,
             MaxCalls <- 2,
             mem <- x1, wrappers <- x2, cache <- x3, target <- x4, thread <- x5, calls <- x6

\* Functions with branches forwards, backwards to the start and out of them.
In(op, size, to) == [op |-> op, size |-> size, to |-> to]
Function(a, b, c, d, e) ==
    [at \in {0, 2, 4, 8, 10, 12} |->
        CASE at = 0 -> a [] at = 2 -> b [] at = 4 -> c [] at = 8 -> d [] at = 10 -> e
          [] OTHER -> In("ret", 1, 0)]
Starts == {In("plain", 2, 0), In("jcc", 2, 10)}
Patched ==
    {Function(a, b, In(c, 4, 0), d, e) :
        a \in Starts, b \in {In("call", 2, 0), In("jcc", 2, 8)}, c \in {"plain", "call"},
        d \in {In("jcc", 2, 4), In("jcc", 2, 0)},
        e \in {In("jmp", 2, 2), In("jcc", 2, 2), In("plain", 2, 0), In("jmp", 2, 99)}}
    \cup {Function(a, In("jcc", 2, 8), In("plain", 4, 0), In("ijmp", 2, 0), e) :
        a \in Starts, e \in {In("plain", 2, 0), In("jmp", 2, 99)}}

H == INSTANCE Hotpatch
        WITH Functions <- Patched, MaxRun <- 8,
             fn <- x1, instrument <- x2, phase <- x3, copy <- x4, cache <- x5, thread <- x6, ran <- x7

-----------------------------------------------------------------------------

\* The parts that have their own variables, when the behaviour is not about them.
NoFlow ==
    /\ mode = {"kernel"} /\ where = "h1" /\ cur = Native
    /\ stack = <<[addr |-> "native", fn |-> "h1", pol |-> Native]>>
NoIds == Init /\ \A c, d \in Cpus : policy[c] = policy[d] /\ policy[c] = "p"
NoBringup ==
    /\ delayed = FALSE /\ native = CHOOSE n \in NativeIdts : TRUE
    /\ base = [c \in BootCpus |-> "idt_table"] /\ BootInit
NoModules == loaded = [b \in Slots |-> IF b = Granary THEN "coming" ELSE "none"] /\ ModuleInit
NoneElse == x1 = 0 /\ x2 = 0 /\ x3 = 0 /\ x4 = 0 /\ x5 = 0 /\ x6 = 0 /\ x7 = 0

Others == <<x1, x2, x3, x4, x5, x6, x7>>
Rest7 == <<part, flowVars, vars, bootVars, moduleVars, traceVars, x7>>
Rest4 == <<Rest7, x4, x5, x6>>

Parts == {"flow", "ids", "interrupts", "bringup", "modules", "wrappers", "hotpatch", "log"}

RuntimeInit ==
    /\ part \in Parts
    /\ IF part = "flow" THEN FlowInit ELSE NoFlow
    /\ IF part = "ids" THEN Init ELSE NoIds
    /\ IF part = "bringup" THEN BootInit ELSE NoBringup
    /\ IF part = "modules" THEN ModuleInit ELSE NoModules
    /\ TraceInit
    /\ CASE part = "interrupts" -> I!Init /\ x4 = 0 /\ x5 = 0 /\ x6 = 0 /\ x7 = 0
         [] part = "wrappers" -> W!Init /\ x7 = 0
         [] part = "hotpatch" -> H!Init
         [] OTHER -> NoneElse

Booting(A) ==
    part = "bringup" /\ A /\ UNCHANGED <<part, flowVars, vars, moduleVars, traceVars, Others>>

RuntimeNext ==
    \/ part = "flow" /\ FlowNext /\ UNCHANGED <<part, vars, bootVars, moduleVars, traceVars, Others>>
    \/ part = "ids" /\ Next /\ UNCHANGED <<part, flowVars, bootVars, moduleVars, traceVars, Others>>
    \/ part = "interrupts" /\ I!Next /\ UNCHANGED Rest4
    \/ Booting(BootNext)
    \/ /\ part = "modules" /\ ModuleNext
       /\ UNCHANGED <<part, flowVars, vars, bootVars, traceVars, Others>>
    \/ part = "wrappers" /\ W!Next /\ UNCHANGED Rest7
    \/ /\ part = "hotpatch" /\ H!Next
       /\ UNCHANGED <<part, flowVars, vars, bootVars, moduleVars, traceVars>>
    \/ /\ part = "log" /\ TraceNext
       /\ UNCHANGED <<part, flowVars, vars, bootVars, moduleVars, Others>>

runtimeVars == <<part, flowVars, vars, bootVars, moduleVars, traceVars, Others>>

\* initcalls and the code of a system call go on: they are not blocked by others.
RuntimeSpec ==
    /\ RuntimeInit /\ [][RuntimeNext]_runtimeVars
    /\ WF_runtimeVars(Booting(Initialise))
    /\ \A c \in BootCpus : WF_runtimeVars(Booting(Resolve(c)))

\* Every interrupt leaves Granary with the registers, the flags, the stack and the
\* frame that the kernel's handler, or the program, has without Granary.
InterruptIsTransparent == part = "interrupts" => I!InterruptIsTransparent

\* Every CPU comes to use Granary's tables, no entry of the system call table
\* stays native, and every system call reaches its function.
EventuallyTakenOver ==
    /\ <>[](part = "bringup" => TakenOver)
    /\ \A c \in BootCpus :
            (part = "bringup" /\ Dispatched(c)) ~> (part = "bringup" /\ Served(c))

\* What is passed to the kernel is wrapped to the depth that its types ask for,
\* and every wrapper leads to the function that it was made for.
PassedIsWrapped ==
    part = "wrappers" => W!WrappersLeadHome /\ W!PassedIsWrapped /\ W!WrappingIsBounded

\* A call of a patched function passes through its wrapper once, and runs the
\* function as it was before.
WrappedOnce == part = "hotpatch" => H!WrappedOnce
=============================================================================
