------------------------------ MODULE Policies ------------------------------
(***************************************************************************)
(* Instrumentation policies: how they pass from block to block, and how    *)
(* they get their identifiers.                                             *)
(*                                                                         *)
(* The flow of policies: the properties of policy.h, what mangle_cti and   *)
(* mangle_direct_cti make of them at each kind of branch, what             *)
(* visit_branches makes of them when a jump is followed into a trace, and  *)
(* how code_cache::find converts them.  A thread of the program calls,     *)
(* jumps and returns between functions of the application and of the host, *)
(* which runs natively where Granary has detached.                         *)
(*                                                                         *)
(* policy_for<T>: the first use of a policy on any CPU takes an identifier *)
(* from NEXT_POLICY_ID, which starts at 0, fills in the visitors of that   *)
(* identifier, and stores it in POLICY_ID, where 0 means that there is     *)
(* none yet.  Nothing is locked.                                           *)
(***************************************************************************)
EXTENDS Integers, Sequences

-----------------------------------------------------------------------------
(* The flow of policies.                                                   *)

CONSTANTS App, Host,   \* functions of the application, and of the host
          DetachPoints, \* pairs of a function and a context
          Modes,       \* sets of configuration switches
          MaxDepth     \* of calls

\* There is a kernel, or a process, around the application.
FlowOK == Host # {}

VARIABLES mode,        \* the configuration
          cur,         \* the policy of the block that runs, or Native
          where,       \* the function that it is in
          stack        \* the return addresses, the innermost first

flowVars == <<mode, cur, where, stack>>

Functions == App \cup Host

Kernel == "kernel" \in mode                 \* CONFIG_ENV_KERNEL
DirectReturns == Kernel                     \* CONFIG_OPTIMISE_DIRECT_RETURN
InstrumentHost == "instrument host" \in mode \* CONFIG_FEATURE_INSTRUMENT_HOST

NoProperties ==
    [ind |-> FALSE, ret |-> FALSE, unit |-> FALSE, attach |-> FALSE,
     host |-> FALSE, user |-> FALSE, direct |-> FALSE, native |-> FALSE]

\* Not a policy: the code runs outside of the code cache.
Native == [NoProperties EXCEPT !.native = TRUE]

-----------------------------------------------------------------------------
(* policy.h                                                                *)

\* Without the temporary properties.
base_policy(p) ==
    [p EXCEPT !.ind = FALSE, !.ret = FALSE, !.unit = FALSE, !.attach = FALSE]

inherit_properties(that, constraint) ==
    IF constraint = "call" THEN [base_policy(that) EXCEPT !.user = FALSE]
    ELSE base_policy(that)

is_host_auto_instrumented == InstrumentHost \/ "auto" \in mode

context(p) == IF p.host THEN "host" ELSE "app"

is_host_address(f) == f \in Host

find_detach_target(f, p) == <<f, context(p)>> \in DetachPoints

-----------------------------------------------------------------------------
(* Branches                                                                *)

\* The last statements of mangle_cti for each kind of branch.
ReturnPolicy(p) ==
    [inherit_properties(p, "return") EXCEPT !.ret = TRUE, !.host = FALSE,
                                            !.direct = FALSE]

\* As DirectPolicy would be if jumps were taken for calls.
DirectPolicy_Jumps(p, kind) ==
    [inherit_properties(p, "call") EXCEPT !.direct = TRUE, !.unit = TRUE]

DirectPolicy(p, kind) ==
    IF kind = "call"
    THEN [inherit_properties(p, "call") EXCEPT !.direct = TRUE, !.unit = TRUE]
    ELSE inherit_properties(p, "jmp")

IndirectPolicy(p, kind) ==
    [DirectPolicy(p, kind) EXCEPT !.ind = TRUE, !.unit = TRUE,
                                  !.host = @ \/ is_host_auto_instrumented]

\* code_cache::find: the policy of the block, or Native if it detaches.
find(p, f) ==
    LET q == [p EXCEPT !.host = Kernel /\ is_host_address(f)]
    IN  IF ~p.attach /\ (find_detach_target(f, q)
                         \/ (~InstrumentHost /\ ~p.host /\ q.host))
        THEN Native ELSE base_policy(q)

mangle_direct_cti(policy, p, f) ==
    LET leaves == ~policy.host /\ is_host_address(f)
        q == IF leaves THEN [p EXCEPT !.host = TRUE] ELSE p
    IN  CASE ~p.attach /\ find_detach_target(f, p) -> Native
          [] leaves /\ ~is_host_auto_instrumented -> Native
          [] find_detach_target(f, q) -> Native
          [] OTHER -> find(q, f)

\* visit_branches: the jump is followed into the same trace.
visit_branches(p, f) ==
    LET q == DirectPolicy(p, "jmp")
    IN  IF find_detach_target(f, q) THEN Native ELSE q

-----------------------------------------------------------------------------

Frame(a) == [addr |-> a, fn |-> where, pol |-> cur]

FlowInit ==
    /\ mode \in Modes
    /\ where \in App
    /\ stack = <<[addr |-> "native", fn |-> CHOOSE h \in Host : TRUE, pol |-> Native]>>
    /\ cur = find([NoProperties EXCEPT !.attach = TRUE], where)

Call(kind) ==
    /\ ~cur.native /\ Len(stack) < MaxDepth
    /\ \E f \in Functions :
        /\ where' = f
        /\ cur' = IF kind = "direct" THEN mangle_direct_cti(cur, DirectPolicy(cur, "call"), f)
                  ELSE find(IndirectPolicy(cur, "call"), f)
        /\ stack' = <<Frame("cache")>> \o stack
    /\ UNCHANGED mode

Jump(kind) ==
    /\ ~cur.native
    /\ \E f \in Functions :
        /\ where' = f
        /\ cur' = CASE kind = "direct" -> mangle_direct_cti(cur, DirectPolicy(cur, "jmp"), f)
                    [] kind = "indirect" -> find(IndirectPolicy(cur, "jmp"), f)
                    [] OTHER -> visit_branches(cur, f)
    /\ UNCHANGED <<mode, stack>>

\* A mangled return is looked up: code cache addresses are kept.
Return ==
    /\ ~cur.native
    /\ Len(stack) > 1
    /\ where' = stack[1].fn
    /\ cur' = IF DirectReturns \/ cur.direct \/ stack[1].addr = "cache" THEN stack[1].pol
              ELSE find(ReturnPolicy(cur), stack[1].fn)
    /\ stack' = Tail(stack)
    /\ UNCHANGED mode

NativeReturn ==
    /\ cur.native
    /\ Len(stack) > 1
    /\ where' = stack[1].fn /\ cur' = stack[1].pol
    /\ stack' = Tail(stack)
    /\ UNCHANGED mode

\* The host calls a function of the application, through a wrapper.
Callback ==
    /\ cur.native /\ Len(stack) < MaxDepth
    /\ \E f \in App : where' = f /\ cur' = find([NoProperties EXCEPT !.attach = TRUE], f)
    /\ stack' = <<Frame("native")>> \o stack
    /\ UNCHANGED mode

\* basic_block::decode marks blocks that access user data.
AccessUserData ==
    /\ ~cur.native /\ Kernel
    /\ cur' = [cur EXCEPT !.user = TRUE]
    /\ UNCHANGED <<mode, where, stack>>

Mangled == Call("direct") \/ Call("indirect") \/ Jump("direct") \/ Jump("indirect")

FlowNext ==
    \/ Mangled \/ Jump("trace")
    \/ Return \/ NativeReturn \/ Callback \/ AccessUserData

FlowSpec == FlowInit /\ [][FlowNext]_flowVars

-----------------------------------------------------------------------------

\* Code that is not mangled to look up its return address has one that is in
\* the code cache, whichever calls, tail calls and callbacks led to it.
ReturnsAreDirect ==
    ~cur.native /\ cur.direct => stack[1].addr = "cache"

\* Code of the application only runs outside of the code cache at its detach
\* points.
NoEscape ==
    cur.native => where \in Host \cup {d[1] : d \in DetachPoints}

\* Both: no code of the application leaves the code cache where Granary has not
\* detached, at a call or a jump or by a return.
ControlStaysWithGranary == ReturnsAreDirect /\ NoEscape

\* find: "Ensure that we're in the correct policy context."  In the kernel a
\* block is instrumented as host code if it is host code.
ContextIsRight ==
    ~cur.native /\ Kernel => cur.host = is_host_address(where)

-----------------------------------------------------------------------------
(* Identifiers.                                                            *)

CONSTANTS Cpus,
          Policies,   \* the types T
          MaxIds      \* MAX_NUM_POLICY_IDS

\* There is room for a policy; the code has 1 << NUM_POLICY_ID_BITS.
ConstantsOK == MaxIds \in Nat \ {0}

VARIABLES next,       \* NEXT_POLICY_ID
          visitors,   \* APP_VISITORS and HOST_VISITORS
          id,         \* POLICY_ID of each policy
          pc, policy, mine, handle

vars == <<next, visitors, id, pc, policy, mine, handle>>

Init ==
    /\ next = 0
    /\ visitors = [i \in 0 .. MaxIds - 1 |-> [app |-> "none", host |-> "none"]]
    /\ id = [p \in Policies |-> 0]
    /\ pc = [c \in Cpus |-> "idle"]
    /\ policy \in [Cpus -> Policies]
    /\ mine = [c \in Cpus |-> 0]
    /\ handle = [c \in Cpus |-> 0]

Goto(c, from, to) == pc[c] = from /\ pc' = [pc EXCEPT ![c] = to]

Use(c, p) ==
    /\ Goto(c, "idle", IF id[p] = 0 THEN "take" ELSE "return")
    /\ policy' = [policy EXCEPT ![c] = p]
    /\ UNCHANGED <<next, visitors, id, mine, handle>>

\* As fetch_add would be if the identifier were published at once.
fetch_add_Publish(c) ==
    /\ next < MaxIds
    /\ Goto(c, "take", "app")
    /\ mine' = [mine EXCEPT ![c] = next]
    /\ next' = next + 1
    /\ id' = [id EXCEPT ![policy[c]] = next]
    /\ UNCHANGED <<visitors, policy, handle>>

fetch_add(c) ==
    /\ next < MaxIds
    /\ Goto(c, "take", "app")
    /\ mine' = [mine EXCEPT ![c] = next]
    /\ next' = next + 1
    /\ UNCHANGED <<visitors, id, policy, handle>>

SetApp(c) ==
    /\ Goto(c, "app", "host")
    /\ visitors' = [visitors EXCEPT ![mine[c]].app = policy[c]]
    /\ UNCHANGED <<next, id, policy, mine, handle>>

SetHost(c) ==
    /\ Goto(c, "host", "publish")
    /\ visitors' = [visitors EXCEPT ![mine[c]].host = policy[c]]
    /\ UNCHANGED <<next, id, policy, mine, handle>>

Publish(c) ==
    /\ Goto(c, "publish", "return")
    /\ id' = [id EXCEPT ![policy[c]] = mine[c]]
    /\ UNCHANGED <<next, visitors, policy, mine, handle>>

\* POLICY_ID is read again.
from_id(c) ==
    /\ Goto(c, "return", "have")
    /\ handle' = [handle EXCEPT ![c] = id[policy[c]]]
    /\ UNCHANGED <<next, visitors, id, policy, mine>>

\* The handle is used to instrument a block.
Instrument(c) ==
    /\ Goto(c, "have", "idle")
    /\ UNCHANGED <<next, visitors, id, policy, mine, handle>>

Next ==
    \E c \in Cpus :
        \/ \E p \in Policies : Use(c, p)
        \/ fetch_add(c) \/ SetApp(c) \/ SetHost(c) \/ Publish(c) \/ from_id(c)
        \/ Instrument(c)

Spec == Init /\ [][Next]_vars

-----------------------------------------------------------------------------

\* The number of a policy is never MAX_NUM_POLICY_IDS or beyond it.
TypeOK ==
    /\ next \in 0 .. MaxIds
    /\ id \in [Policies -> 0 .. MaxIds - 1]
    /\ mine \in [Cpus -> 0 .. MaxIds - 1] /\ handle \in [Cpus -> 0 .. MaxIds - 1]
    /\ pc \in [Cpus -> {"idle", "take", "app", "host", "publish", "return", "have"}]

\* Whichever CPUs initialise a policy at the same time, a handle leads to the
\* visitors of that policy, in both contexts.
HandlesAreVisited ==
    /\ TypeOK
    /\ \A c \in Cpus :
        pc[c] = "have" => visitors[handle[c]] = [app |-> policy[c], host |-> policy[c]]

=============================================================================
