--------------------------- MODULE RuntimeProofs ----------------------------
(***************************************************************************)
(* Proofs about how Granary comes into a kernel and runs in it: about the  *)
(* instrumentation policies, as they pass from block to block and as they  *)
(* get their identifiers, and about the take over of the kernel's tables.  *)
(***************************************************************************)
EXTENDS Policies, Bringup, Induction, FiniteSetTheorems, TLAPS

-----------------------------------------------------------------------------
(* Policies.                                                               *)

\* The properties of a policy.
Policy == [ind : BOOLEAN, ret : BOOLEAN, unit : BOOLEAN, attach : BOOLEAN,
           host : BOOLEAN, user : BOOLEAN, direct : BOOLEAN, native : BOOLEAN]

\* The functions at which the application may leave the code cache.
Left == Host \cup {d[1] : d \in DetachPoints}

\* Native is distinguished from the policies by its property only.
LEMMA NativeType == Native \in Policy /\ Native.native /\ ~Native.direct
  BY Zenon DEF Native, NoProperties, Policy

\* base_policy drops temporary properties and keeps the one of direct returns.
LEMMA BaseType ==
    ASSUME NEW p \in Policy
    PROVE  /\ base_policy(p) \in Policy
           /\ base_policy(p).direct = p.direct /\ base_policy(p).native = p.native
  BY Zenon DEF Policy, base_policy

\* code_cache::find never makes the returns of a block direct, and leaves the
\* code cache for the host or at a detach point.
LEMMA FindPolicy ==
    ASSUME NEW p \in Policy, NEW f \in Functions, ~p.native
    PROVE  /\ find(p, f) \in Policy
           /\ find(p, f).native => find(p, f) = Native /\ f \in Left
           /\ find(p, f).direct => p.direct
  <1> DEFINE b == Kernel /\ is_host_address(f)
  <1> DEFINE q == [p EXCEPT !.host = b]
  <1>0. b \in BOOLEAN BY Zenon DEF Kernel, is_host_address
  <1> HIDE DEF b
  <1>1. q \in Policy /\ q.direct = p.direct /\ ~q.native /\ q.host = b
     BY Zenon, <1>0 DEF Policy
  <1>2. CASE ~p.attach /\ (find_detach_target(f, q) \/ (~InstrumentHost /\ ~p.host /\ q.host))
    <2>1. find(p, f) = Native BY Zenon, <1>2 DEF find, b
    <2>2. ASSUME find_detach_target(f, q) PROVE f \in Left
      BY <2>2 DEF find_detach_target, Left
    <2>3. ASSUME q.host PROVE f \in Left
      BY Zenon, <1>1, <2>3 DEF b, is_host_address, Left
    <2> QED BY Zenon, <2>1, <2>2, <2>3, <1>2, NativeType
  <1>3. CASE ~(~p.attach /\ (find_detach_target(f, q) \/ (~InstrumentHost /\ ~p.host /\ q.host)))
    <2>1. find(p, f) = base_policy(q) BY Zenon, <1>3 DEF find, b
    <2> QED BY <2>1, <1>1, BaseType, Zenon
  <1> QED BY Zenon, <1>2, <1>3

\* inherit_properties keeps the property of direct returns.
LEMMA InheritType ==
    ASSUME NEW p \in Policy, NEW k \in {"call", "jmp", "return"}
    PROVE  /\ inherit_properties(p, k) \in Policy
           /\ inherit_properties(p, k).direct = p.direct
           /\ inherit_properties(p, k).native = p.native
  <1>1. base_policy(p) \in Policy /\ base_policy(p).direct = p.direct /\ base_policy(p).native = p.native
    BY Zenon, BaseType
  <1> DEFINE b == base_policy(p)
  <1>2. [b EXCEPT !.user = FALSE] \in Policy /\ [b EXCEPT !.user = FALSE].direct = b.direct
           /\ [b EXCEPT !.user = FALSE].native = b.native
    <2> HIDE DEF b
    <2>1. SUFFICES ASSUME b \in Policy PROVE  [b EXCEPT !.user = FALSE] \in Policy /\ [b EXCEPT !.user = FALSE].direct = b.direct
           /\ [b EXCEPT !.user = FALSE].native = b.native
      BY Zenon, <1>1 DEF b
    <2> QED BY Zenon, <2>1 DEF Policy
  <1> QED BY Zenon, <1>1, <1>2 DEF inherit_properties

\* A jump leaves the property of direct returns as it is: only calls set it.
LEMMA DirectType ==
    ASSUME NEW p \in Policy, NEW k \in {"call", "jmp"}
    PROVE  /\ DirectPolicy(p, k) \in Policy
           /\ k = "jmp" => DirectPolicy(p, k).direct = p.direct
           /\ DirectPolicy(p, k).native = p.native
  <1> DEFINE i == inherit_properties(p, k)
  <1>1. i \in Policy /\ i.direct = p.direct /\ i.native = p.native
    BY Zenon, InheritType
  <1>2. CASE k = "jmp"
    BY Zenon, <1>1, <1>2 DEF DirectPolicy
  <1>3. CASE k = "call"
    <2>1. DirectPolicy(p, k) = [i EXCEPT !.direct = TRUE, !.unit = TRUE]
      BY Zenon, <1>3 DEF DirectPolicy
    <2> HIDE DEF i
    <2> QED BY Zenon, <1>1, <1>3, <2>1 DEF Policy
  <1> QED BY Zenon, <1>2, <1>3

\* The same of indirect branches.
LEMMA IndirectType ==
    ASSUME NEW p \in Policy, NEW k \in {"call", "jmp"}
    PROVE  /\ IndirectPolicy(p, k) \in Policy
           /\ k = "jmp" => IndirectPolicy(p, k).direct = p.direct
           /\ IndirectPolicy(p, k).native = p.native
  <1> DEFINE d == DirectPolicy(p, k)
             h == d.host \/ is_host_auto_instrumented
  <1>1. d \in Policy /\ (k = "jmp" => d.direct = p.direct) /\ d.native = p.native
    BY Zenon, DirectType
  <1>2. h \in BOOLEAN
    BY Zenon DEF is_host_auto_instrumented
  <1>3. IndirectPolicy(p, k) = [d EXCEPT !.ind = TRUE, !.unit = TRUE, !.host = h]
    BY Zenon DEF IndirectPolicy
  <1> HIDE DEF d, h
  <1> QED BY Zenon, <1>1, <1>2, <1>3 DEF Policy

\* Code that is returned to by a lookup has its own returns looked up.
LEMMA ReturnType ==
    ASSUME NEW p \in Policy
    PROVE  ReturnPolicy(p) \in Policy /\ ~ReturnPolicy(p).direct /\ ReturnPolicy(p).native = p.native
  <1> DEFINE i == inherit_properties(p, "return")
  <1>1. i \in Policy /\ i.native = p.native
    BY Zenon, InheritType
  <1>2. ReturnPolicy(p) = [i EXCEPT !.ret = TRUE, !.host = FALSE, !.direct = FALSE]
    BY Zenon DEF ReturnPolicy
  <1> HIDE DEF i
  <1> QED BY Zenon, <1>1, <1>2 DEF Policy

\* mangle_direct_cti, as code_cache::find.
LEMMA MangledPolicy ==
    ASSUME NEW from \in Policy, NEW p \in Policy, NEW f \in Functions, ~p.native
    PROVE  LET m == mangle_direct_cti(from, p, f)
           IN  /\ m \in Policy
               /\ m.native => m = Native /\ f \in Left
               /\ m.direct => p.direct
  <1> DEFINE leaves == ~from.host /\ is_host_address(f)
             h == [p EXCEPT !.host = TRUE]
             q == IF leaves THEN h ELSE p
  <1>1. q \in Policy /\ q.direct = p.direct /\ ~q.native
    BY Zenon DEF Policy
  <1>2. \A o \in Policy : find_detach_target(f, o) => f \in Left
    BY DEF find_detach_target, Left
  <1>3. leaves => f \in Left
    BY Zenon DEF is_host_address, Left
  <1>4. mangle_direct_cti(from, p, f) =
          CASE ~p.attach /\ find_detach_target(f, p) -> Native
            [] leaves /\ ~is_host_auto_instrumented -> Native
            [] find_detach_target(f, q) -> Native
            [] OTHER -> find(q, f)
    BY Zenon DEF mangle_direct_cti
  <1> HIDE DEF leaves, q
  <1>5. CASE find_detach_target(f, p) \/ leaves \/ find_detach_target(f, q)
    <2>1. f \in Left
      BY Zenon, <1>1, <1>2, <1>3, <1>5
    <2>2. mangle_direct_cti(from, p, f) \in {Native, find(q, f)}
      BY Zenon, <1>4
    <2> QED BY <1>1, <2>1, <2>2, FindPolicy, NativeType
  <1>6. CASE ~(find_detach_target(f, p) \/ leaves \/ find_detach_target(f, q))
    <2>1. mangle_direct_cti(from, p, f) = find(q, f)
      BY Zenon, <1>4, <1>6
    <2> QED BY <1>1, <2>1, FindPolicy
  <1> QED BY Zenon, <1>5, <1>6

\* visit_branches, as code_cache::find.
LEMMA FollowedPolicy ==
    ASSUME NEW p \in Policy, NEW f \in Functions, ~p.native
    PROVE  LET m == visit_branches(p, f)
           IN  /\ m \in Policy
               /\ m.native => m = Native /\ f \in Left
               /\ m.direct => p.direct
  <1> DEFINE q == DirectPolicy(p, "jmp")
  <1>1. q \in Policy /\ q.direct = p.direct /\ ~q.native
    BY Zenon, DirectType
  <1>2. find_detach_target(f, q) => f \in Left
    BY DEF find_detach_target, Left
  <1>3. visit_branches(p, f) = IF find_detach_target(f, q) THEN Native ELSE q
    BY Zenon DEF visit_branches
  <1> HIDE DEF q
  <1> QED BY Zenon, <1>1, <1>2, <1>3, NativeType

\* A return address, with the function and the policy of its caller.
FrameType == [addr : {"native", "cache"}, fn : Functions, pol : Policy]

\* Code that runs outside of the code cache is where it may be.
Confined(p, f) == p.native => p = Native /\ f \in Left

\* The invariant. Not only the code that runs but every caller on the stack whose
\* returns are direct was itself called with a return address in the code cache:
\* a return brings back a policy together with the address below it.
FlowInv ==
    /\ cur \in Policy /\ where \in Functions
    /\ stack \in Seq(FrameType) /\ Len(stack) > 0
    /\ Confined(cur, where)
    /\ cur.direct => stack[1].addr = "cache"
    /\ \A k \in 1 .. Len(stack) :
          /\ Confined(stack[k].pol, stack[k].fn)
          /\ stack[k].pol.direct /\ k < Len(stack) => stack[k + 1].addr = "cache"

\* A call, by which the callee has direct returns only if the return address is
\* in the code cache, keeps the invariant.
LEMMA Pushed ==
    ASSUME FlowInv, NEW a \in {"native", "cache"},
           where' \in Functions, cur' \in Policy, Confined(cur', where'),
           cur'.direct => a = "cache", stack' = <<Frame(a)>> \o stack
    PROVE  FlowInv'
  <1>1. Frame(a) \in FrameType /\ Frame(a).addr = a /\ Frame(a).fn = where /\ Frame(a).pol = cur
    BY Zenon DEF Frame, FrameType, FlowInv
  <1> DEFINE fr == Frame(a)
  <1>2. stack' \in Seq(FrameType) /\ Len(stack') > 0 /\ Len(stack') = Len(stack) + 1
         /\ stack'[1] = fr
         /\ \A k \in 1 .. Len(stack) : stack'[k + 1] = stack[k]
    <2> HIDE DEF fr
    <2>1. fr \in FrameType /\ stack \in Seq(FrameType) /\ stack' = <<fr>> \o stack
      BY Zenon, <1>1 DEF fr, FlowInv
    <2> QED BY <2>1
  <1>3. ASSUME NEW k \in 1 .. Len(stack')
        PROVE  /\ Confined(stack'[k].pol, stack'[k].fn)
               /\ stack'[k].pol.direct /\ k < Len(stack') => stack'[k + 1].addr = "cache"
    <2>1. CASE k = 1
      BY <1>1, <1>2, <2>1 DEF FlowInv, FrameType
    <2>2. CASE k # 1
      <3> DEFINE j == k - 1
      <3>1. j \in 1 .. Len(stack) /\ k = j + 1
        BY <1>2, <2>2 DEF FlowInv
      <3>2. stack'[k] = stack[j] /\ (k < Len(stack') => j < Len(stack) /\ stack'[k + 1] = stack[j + 1])
        BY <1>2, <3>1 DEF FlowInv
      <3> QED BY Zenon, <3>1, <3>2 DEF FlowInv
    <2> QED BY Zenon, <2>1, <2>2
  <1> QED BY Zenon, <1>1, <1>2, <1>3 DEF FlowInv, Confined

\* A return to the policy of the caller, or to one whose returns are looked up,
\* keeps the invariant.
LEMMA Popped ==
    ASSUME FlowInv, Len(stack) > 1, where' = stack[1].fn, stack' = Tail(stack),
           \/ cur' = stack[1].pol
           \/ cur' \in Policy /\ ~cur'.direct /\ Confined(cur', where')
    PROVE  FlowInv'
  <1>1. /\ stack' \in Seq(FrameType) /\ Len(stack') > 0 /\ Len(stack') = Len(stack) - 1
        /\ \A k \in 1 .. Len(stack') : stack'[k] = stack[k + 1]
    <2>1. stack \in Seq(FrameType) /\ stack # <<>>
      BY EmptyIs DEF FlowInv
    <2>2. /\ stack' \in Seq(FrameType) /\ Len(stack') = Len(stack) - 1
          /\ \A k \in 1 .. Len(stack') : stack'[k] = stack[k + 1]
      BY Zenon, <2>1, TailIs
    <2> QED BY <2>1, <2>2
  <1>2. stack[1] \in FrameType
    BY DEF FlowInv
  <1>3. cur' \in Policy /\ where' \in Functions
    BY Zenon, <1>2 DEF FrameType
  <1>4. Confined(cur', where') /\ (cur'.direct => stack'[1].addr = "cache")
    BY <1>1 DEF FlowInv, FrameType
  <1>5. ASSUME NEW k \in 1 .. Len(stack')
        PROVE  /\ Confined(stack'[k].pol, stack'[k].fn)
               /\ stack'[k].pol.direct /\ k < Len(stack') => stack'[k + 1].addr = "cache"
    <2>1. k + 1 \in 1 .. Len(stack) /\ stack'[k] = stack[k + 1]
            /\ (k < Len(stack') => k + 1 < Len(stack) /\ stack'[k + 1] = stack[(k + 1) + 1])
      BY <1>1 DEF FlowInv
    <2> QED BY Zenon, <2>1 DEF FlowInv
  <1> QED BY Zenon, <1>1, <1>3, <1>4, <1>5 DEF FlowInv, Confined

\* Every call, jump and return keeps the invariant.
LEMMA FlowInvStep ==
    ASSUME FlowInv, [FlowNext]_flowVars
    PROVE  FlowInv'
  <1>0. cur \in Policy /\ where \in Functions
    BY Zenon DEF FlowInv
  <1> DEFINE at == [NoProperties EXCEPT !.attach = TRUE]
  <1>a. at \in Policy /\ ~at.native /\ ~at.direct
    BY Zenon DEF NoProperties, Policy
  <1>1. ASSUME NEW kind \in {"direct", "indirect"}, Call(kind) PROVE FlowInv'
    <2>1. PICK f \in Functions :
             /\ where' = f
             /\ cur' = IF kind = "direct" THEN mangle_direct_cti(cur, DirectPolicy(cur, "call"), f)
                       ELSE find(IndirectPolicy(cur, "call"), f)
             /\ stack' = <<Frame("cache")>> \o stack
      BY Zenon, <1>1 DEF Call
    <2>2. ~cur.native
      BY Zenon, <1>1 DEF Call
    <2>3. cur' \in Policy /\ Confined(cur', where')
      <3> DEFINE d == DirectPolicy(cur, "call")
                 i == IndirectPolicy(cur, "call")
      <3>1. d \in Policy /\ ~d.native /\ i \in Policy /\ ~i.native
        BY Zenon, <1>0, <2>2, DirectType, IndirectType
      <3>2. cur' = mangle_direct_cti(cur, d, f) \/ cur' = find(i, f)
        BY Zenon, <2>1
      <3> HIDE DEF d, i
      <3> QED BY Zenon, <1>0, <2>1, <3>1, <3>2, MangledPolicy, FindPolicy DEF Confined
    <2> QED BY Zenon, <2>1, <2>3, Pushed
  <1>2. ASSUME NEW kind \in {"direct", "indirect", "trace"}, Jump(kind) PROVE FlowInv'
    <2>1. PICK f \in Functions :
             /\ where' = f
             /\ cur' = CASE kind = "direct" -> mangle_direct_cti(cur, DirectPolicy(cur, "jmp"), f)
                    [] kind = "indirect" -> find(IndirectPolicy(cur, "jmp"), f)
                    [] OTHER -> visit_branches(cur, f)
      BY Zenon, <1>2 DEF Jump
    <2>2. ~cur.native /\ stack' = stack
      BY Zenon, <1>2 DEF Jump
    <2>3. cur' \in Policy /\ Confined(cur', where') /\ (cur'.direct => cur.direct)
      <3>1. CASE kind = "direct"
        <4> DEFINE d == DirectPolicy(cur, "jmp")
        <4>1. d \in Policy /\ ~d.native /\ d.direct = cur.direct
          BY Zenon, <1>0, <2>2, DirectType
        <4>2. cur' = mangle_direct_cti(cur, d, f)
          BY Zenon, <2>1, <3>1
        <4> HIDE DEF d
        <4> QED BY <1>0, <2>1, <4>1, <4>2, MangledPolicy DEF Confined
      <3>2. CASE kind = "indirect"
        BY <3>2, <1>0, <2>1, <2>2, IndirectType, FindPolicy DEF Confined
      <3>3. CASE kind = "trace"
        BY Zenon, <3>3, <1>0, <2>1, <2>2, FollowedPolicy DEF Confined
      <3> QED BY Zenon, <3>1, <3>2, <3>3
    <2> QED BY Zenon, <2>1, <2>2, <2>3 DEF FlowInv, Confined
  <1>3. CASE Return
    <2>1. ~cur.native /\ Len(stack) > 1 /\ where' = stack[1].fn /\ stack' = Tail(stack)
      BY Zenon, <1>3 DEF Return
    <2>2. stack[1].fn \in Functions
      <3>1. stack[1] \in FrameType
        BY <2>1 DEF FlowInv
      <3> QED BY Zenon, <3>1 DEF FrameType
    <2> DEFINE r == find(ReturnPolicy(cur), stack[1].fn)
    <2>3. r \in Policy /\ ~r.direct /\ Confined(r, stack[1].fn)
      BY Zenon, <1>0, <2>1, <2>2, ReturnType, FindPolicy DEF Confined
    <2>4. cur' = stack[1].pol \/ cur' = r
      BY Zenon, <1>3 DEF Return
    <2> HIDE DEF r
    <2> QED BY Zenon, <2>1, <2>3, <2>4, Popped
  <1>4. CASE NativeReturn
    BY Zenon, <1>4, Popped DEF NativeReturn
  <1>5. CASE Callback
    <2>1. PICK f \in App : where' = f /\ cur' = find(at, f)
      BY Zenon, <1>5 DEF Callback
    <2>2. f \in Functions
      BY Zenon DEF Functions
    <2>3. cur' \in Policy /\ ~cur'.direct /\ Confined(cur', where')
      <3> HIDE DEF at
      <3> QED BY Zenon, <1>a, <2>1, <2>2, FindPolicy DEF Confined
    <2> QED BY Zenon, <1>5, <2>1, <2>2, <2>3, Pushed DEF Callback
  <1>6. CASE AccessUserData
    <2>1. cur' \in Policy /\ cur'.native = cur.native /\ cur'.direct = cur.direct
      BY Zenon, <1>0, <1>6 DEF AccessUserData, Policy
    <2> QED BY Zenon, <1>6, <2>1 DEF AccessUserData, FlowInv, Confined
  <1>7. CASE UNCHANGED flowVars
    BY Zenon, <1>7 DEF flowVars, FlowInv, Confined
  <1> QED BY Zenon, <1>1, <1>2, <1>3, <1>4, <1>5, <1>6, <1>7 DEF FlowNext, Mangled

\* The invariant holds when the application is entered.
LEMMA FlowInvInit ==
    ASSUME FlowOK, FlowInit
    PROVE  FlowInv
  <1> DEFINE at == [NoProperties EXCEPT !.attach = TRUE]
             h == CHOOSE x \in Host : TRUE
  <1>1. at \in Policy /\ ~at.native /\ ~at.direct
    BY Zenon DEF NoProperties, Policy
  <1>2. h \in Host
    BY Zenon DEF FlowOK
  <1>3. where \in Functions /\ cur = find(at, where)
    BY Zenon DEF FlowInit, Functions
  <1>4. stack = <<[addr |-> "native", fn |-> h, pol |-> Native]>>
    BY Zenon DEF FlowInit
  <1> HIDE DEF at, h
  <1>5. cur \in Policy /\ Confined(cur, where) /\ ~cur.direct
    BY Zenon, <1>1, <1>3, FindPolicy DEF Confined
  <1>6. Len(stack) = 1 /\ stack[1].fn = h /\ stack[1].pol = Native /\ stack[1].addr = "native"
    BY Zenon, <1>4
  <1>7. stack \in Seq(FrameType)
    <2>1. [addr |-> "native", fn |-> h, pol |-> Native] \in FrameType
      BY Zenon, <1>2, NativeType DEF FrameType, Functions
    <2> QED BY <1>4, <2>1
  <1>8. h \in Left
    BY Zenon, <1>2 DEF Left
  <1> QED BY <1>3, <1>5, <1>6, <1>7, <1>8, NativeType DEF FlowInv, Confined

\* mangle_cti, code_cache::find: for any functions, detach points, switches and
\* depth of calls, code whose returns are not looked up returns into the code
\* cache, and the application leaves the code cache for the host or at a detach
\* point only.
THEOREM ControlAlwaysStays ==
    ASSUME FlowOK
    PROVE  FlowSpec => []ControlStaysWithGranary
  <1>1. FlowInit => FlowInv BY Zenon, FlowInvInit
  <1>2. FlowInv /\ [FlowNext]_flowVars => FlowInv' BY Zenon, FlowInvStep
  <1>3. FlowInv => ControlStaysWithGranary
    BY Zenon DEF FlowInv, Confined, Left, ControlStaysWithGranary, ReturnsAreDirect, NoEscape
  <1> QED BY <1>1, <1>2, <1>3, PTL DEF FlowSpec

-----------------------------------------------------------------------------
(* policy_for: the identifiers of policies                                 *)

\* The identifier i was taken for p, its visitors are those of p, and no CPU is
\* about to write them.
Written(i, p) ==
    /\ i < next
    /\ visitors[i] = [app |-> p, host |-> p]
    /\ \A d \in Cpus : pc[d] \in {"app", "host"} => mine[d] # i

\* What a CPU knows where it is in policy_for.
Local(c) ==
    /\ pc[c] \in {"app", "host"} =>
           /\ mine[c] < next
           /\ \A d \in Cpus \ {c} : pc[d] \in {"app", "host"} => mine[d] # mine[c]
    /\ pc[c] = "host" => visitors[mine[c]].app = policy[c]
    /\ pc[c] = "publish" => Written(mine[c], policy[c])
    /\ pc[c] = "return" => Written(id[policy[c]], policy[c])
    /\ pc[c] = "have" => Written(handle[c], policy[c])

Types ==
    /\ TypeOK
    /\ policy \in [Cpus -> Policies]
    /\ visitors \in [0 .. MaxIds - 1 -> [app : Policies \cup {"none"},
                                         host : Policies \cup {"none"}]]

\* An identifier that can be read by others is finished. 0 may be one that was
\* published or none: a CPU that finds it takes another one.
IInv ==
    /\ Types
    /\ \A c \in Cpus : Local(c)
    /\ \A p \in Policies : id[p] # 0 => Written(id[p], p)

\* The type invariant, and that no identifier is beyond the visitors.
LEMMA TypesStep ==
    ASSUME ConstantsOK, Types, [Next]_vars
    PROVE  Types'
  <1> USE DEF ConstantsOK, Types, TypeOK, Goto
  <1>1. ASSUME NEW c \in Cpus, NEW p \in Policies, Use(c, p) PROVE Types'
    BY Zenon, <1>1 DEF Use
  <1>2. ASSUME NEW c \in Cpus, fetch_add(c) PROVE Types'
    BY <1>2 DEF fetch_add
  <1>3. ASSUME NEW c \in Cpus, SetApp(c) PROVE Types'
    BY Zenon, <1>3 DEF SetApp
  <1>4. ASSUME NEW c \in Cpus, SetHost(c) PROVE Types'
    BY Zenon, <1>4 DEF SetHost
  <1>5. ASSUME NEW c \in Cpus, Publish(c) PROVE Types'
    BY Zenon, <1>5 DEF Publish
  <1>6. ASSUME NEW c \in Cpus, from_id(c) PROVE Types'
    BY Zenon, <1>6 DEF from_id
  <1>7. ASSUME NEW c \in Cpus, Instrument(c) PROVE Types'
    BY Zenon, <1>7 DEF Instrument
  <1>8. CASE UNCHANGED vars
    BY Zenon, <1>8 DEF vars
  <1> QED BY Zenon, <1>1, <1>2, <1>3, <1>4, <1>5, <1>6, <1>7, <1>8 DEF Next

\* Every step keeps the invariant. A CPU writes the visitors of an identifier
\* that it alone has taken, and publishes it when they are written.
LEMMA IInvStep ==
    ASSUME ConstantsOK, IInv, [Next]_vars
    PROVE  IInv'
  <1>1. Types /\ Types'
    BY Zenon, TypesStep DEF IInv
  <1> USE DEF Goto
  <1>2. ASSUME NEW c \in Cpus, NEW p \in Policies, Use(c, p) PROVE IInv'
    <2>1. \A i, q : Written(i, q) => Written(i, q)'
      BY Zenon, <1>1, <1>2 DEF Use, Written, Types, TypeOK
    <2>2. \A d \in Cpus : Local(d)'
      BY <1>1, <1>2, <2>1 DEF Use, IInv, Local, Types, TypeOK
    <2> QED BY Zenon, <1>1, <1>2, <2>1, <2>2 DEF Use, IInv
  <1>3. ASSUME NEW c \in Cpus, fetch_add(c) PROVE IInv'
    <2>1. \A i \in Nat : \A q : Written(i, q) => Written(i, q)'
      BY <1>1, <1>3 DEF fetch_add, Written, Types, TypeOK
    <2>2. \A d \in Cpus : Local(d)'
      BY <1>1, <1>3, <2>1 DEF fetch_add, IInv, Local, Types, TypeOK
    <2> QED BY <1>1, <1>3, <2>1, <2>2 DEF fetch_add, IInv, Types, TypeOK
  <1>4. ASSUME NEW c \in Cpus, SetApp(c) PROVE IInv'
    <2>1. \A i \in 0 .. MaxIds - 1 : \A q : Written(i, q) => Written(i, q)'
      BY <1>1, <1>4 DEF SetApp, Written, Types, TypeOK
    <2>2. visitors'[mine[c]].app = policy[c]
      BY <1>1, <1>4 DEF SetApp, Types, TypeOK
    <2>3. \A d \in Cpus \ {c} : pc[d] = "host" => visitors'[mine[d]] = visitors[mine[d]]
      BY <1>1, <1>4 DEF SetApp, IInv, Local, Types, TypeOK
    <2>4. \A d \in Cpus : Local(d)'
      BY <1>1, <1>4, <2>1, <2>2, <2>3 DEF SetApp, IInv, Local, Types, TypeOK
    <2> QED BY Zenon, <1>1, <1>4, <2>1, <2>4 DEF SetApp, IInv, Types, TypeOK
  <1>5. ASSUME NEW c \in Cpus, SetHost(c) PROVE IInv'
    <2>1. \A i \in 0 .. MaxIds - 1 : \A q : Written(i, q) => Written(i, q)'
      BY Zenon, <1>1, <1>5 DEF SetHost, Written, Types, TypeOK
    <2>2. visitors'[mine[c]] = [app |-> policy[c], host |-> policy[c]]
      BY <1>1, <1>5 DEF SetHost, IInv, Local, Types, TypeOK
    <2>3. Written(mine[c], policy[c])'
      BY <1>1, <1>5, <2>2 DEF SetHost, IInv, Local, Written, Types, TypeOK
    <2>4. \A d \in Cpus \ {c} : pc[d] = "host" => visitors'[mine[d]] = visitors[mine[d]]
      BY <1>1, <1>5 DEF SetHost, IInv, Local, Types, TypeOK
    <2>5. \A d \in Cpus : Local(d)'
      BY <1>1, <1>5, <2>1, <2>3, <2>4 DEF SetHost, IInv, Local, Types, TypeOK
    <2> QED BY Zenon, <1>1, <1>5, <2>1, <2>5 DEF SetHost, IInv, Types, TypeOK
  <1>6. ASSUME NEW c \in Cpus, Publish(c) PROVE IInv'
    <2>1. \A i, q : Written(i, q) => Written(i, q)'
      BY Zenon, <1>1, <1>6 DEF Publish, Written, Types, TypeOK
    <2>2. Written(mine[c], policy[c])
      BY Zenon, <1>6 DEF Publish, IInv, Local
    <2>3. \A d \in Cpus : Local(d)'
      BY <1>1, <1>6, <2>1, <2>2 DEF Publish, IInv, Local, Types, TypeOK
    <2> QED BY Zenon, <1>1, <1>6, <2>1, <2>2, <2>3 DEF Publish, IInv, Types, TypeOK
  <1>7. ASSUME NEW c \in Cpus, from_id(c) PROVE IInv'
    <2>1. \A i, q : Written(i, q) => Written(i, q)'
      BY Zenon, <1>1, <1>7 DEF from_id, Written, Types, TypeOK
    <2>2. \A d \in Cpus : Local(d)'
      BY <1>1, <1>7, <2>1 DEF from_id, IInv, Local, Types, TypeOK
    <2> QED BY Zenon, <1>1, <1>7, <2>1, <2>2 DEF from_id, IInv
  <1>8. ASSUME NEW c \in Cpus, Instrument(c) PROVE IInv'
    <2>1. \A i, q : Written(i, q) => Written(i, q)'
      BY Zenon, <1>1, <1>8 DEF Instrument, Written, Types, TypeOK
    <2>2. \A d \in Cpus : Local(d)'
      BY <1>1, <1>8, <2>1 DEF Instrument, IInv, Local, Types, TypeOK
    <2> QED BY Zenon, <1>1, <1>8, <2>1, <2>2 DEF Instrument, IInv
  <1>9. CASE UNCHANGED vars
    BY <1>1, <1>9 DEF vars, IInv, Local, Written
  <1> QED BY Zenon, <1>2, <1>3, <1>4, <1>5, <1>6, <1>7, <1>8, <1>9 DEF Next

\* policy_for: for any number of CPUs and policies, whichever CPUs register a
\* policy at the same time, a handle leads to the visitors of its policy, and no
\* number is ever beyond the tables of visitors.
THEOREM HandlesAlwaysVisited ==
    ASSUME ConstantsOK
    PROVE  Spec => []HandlesAreVisited
  <1>1. Init => IInv
    BY DEF ConstantsOK, Init, IInv, Types, TypeOK, Local
  <1>2. IInv /\ [Next]_vars => IInv'
    BY Zenon, IInvStep
  <1>3. IInv => HandlesAreVisited
    BY Zenon DEF IInv, Types, Local, Written, HandlesAreVisited
  <1> QED BY <1>1, <1>2, <1>3, PTL DEF Spec
-----------------------------------------------------------------------------
(* The take over of the kernel's tables.                                   *)

\* The CPUs are initialised in some order, each of them once.
LEMMA OrderIs ==
    ASSUME BootOK
    PROVE  /\ NumCpus \in Nat \ {0} /\ CpuOrder \in [1 .. NumCpus -> BootCpus]
           /\ \A c \in BootCpus : \E k \in 1 .. NumCpus : CpuOrder[k] = c
           /\ \A j, k \in 1 .. NumCpus : CpuOrder[j] = CpuOrder[k] => j = k
  <1>1. IsFiniteSet(BootCpus) /\ BootCpus # {}
    BY Zenon DEF BootOK
  <1>2. NumCpus \in Nat /\ ExistsBijection(1 .. NumCpus, BootCpus)
    BY Zenon, <1>1, FS_CardinalityType DEF NumCpus
  <1>3. NumCpus # 0
    BY Zenon, <1>1, FS_EmptySet DEF NumCpus
  <1>4. \E f \in [1 .. NumCpus -> BootCpus] : \A j, k \in 1 .. NumCpus : f[j] = f[k] => j = k
    BY Zenon, <1>2 DEF ExistsBijection, Bijection, Injection, IsInjective
  <1>5. /\ CpuOrder \in [1 .. NumCpus -> BootCpus]
        /\ \A j, k \in 1 .. NumCpus : CpuOrder[j] = CpuOrder[k] => j = k
    BY Zenon, <1>4 DEF CpuOrder
  <1>6. CpuOrder \in Injection(1 .. NumCpus, BootCpus)
    BY Zenon, <1>5 DEF Injection, IsInjective
  <1>7. Cardinality(1 .. NumCpus) = Cardinality(BootCpus)
    <2>1. 1 \in Int /\ NumCpus \in Int /\ (IF 1 > NumCpus THEN 0 ELSE NumCpus - 1 + 1) = NumCpus
      BY <1>2
    <2>2. Cardinality(1 .. NumCpus) = IF 1 > NumCpus THEN 0 ELSE NumCpus - 1 + 1
      BY Zenon, <2>1, FS_Interval
    <2>3. Cardinality(1 .. NumCpus) = NumCpus
      BY <2>1, <2>2
    <2> QED BY Zenon, <2>3 DEF NumCpus
  <1>8. CpuOrder \in Surjection(1 .. NumCpus, BootCpus)
    BY Zenon, <1>1, <1>6, <1>7, FS_Injection
  <1>10. \A c \in BootCpus : \E k \in 1 .. NumCpus : CpuOrder[k] = c
    BY Zenon, <1>8 DEF Surjection
  <1> QED BY Zenon, <1>2, <1>3, <1>5, <1>10

\* What is decoded of a handler is a part of it.
LEMMA DecodedIs ==
    ASSUME NEW code \in Seq(Instructions), \E i \in DOMAIN code : code[i] = "iret"
    PROVE  Decoded(code) \in Seq(Instructions)
  <1> DEFINE stops == {i \in DOMAIN code :
                    \/ code[i] = "iret"
                    \/ code[i] = "jmp" /\ \E k \in 1 .. i - 1 : IsCall(code[k])}
  <1>1. stops \in SUBSET Nat /\ stops # {} /\ stops \subseteq 1 .. Len(code)
    OBVIOUS
  <1>2. Decoded(code) = SubSeq(code, 1, CHOOSE i \in stops : \A k \in stops : i <= k)
    BY Zenon DEF Decoded
  <1> HIDE DEF stops
  <1>3. \E i \in stops : \A k \in stops : i <= k
    BY Zenon, <1>1, Smallest
  <1>4. PICK m \in stops : m = CHOOSE i \in stops : \A k \in stops : i <= k
    BY Zenon, <1>3
  <1>5. Decoded(code) = SubSeq(code, 1, m)
    BY Zenon, <1>2, <1>4
  <1>6. m \in 1 .. Len(code)
    BY Zenon, <1>1
  <1> QED BY <1>5, <1>6

\* Removing the jumps leaves a sequence.
LEMMA StraightIs ==
    ASSUME NEW code \in Seq(Instructions)
    PROVE  Len(Straight(code)) \in Nat /\ DOMAIN Straight(code) = 1 .. Len(Straight(code))
  <1> DEFINE kept == {i \in DOMAIN code : code[i] # "jmp"}
             n == Cardinality(kept)
             F(k) == code[CHOOSE i \in kept : Cardinality({j \in kept : j <= i}) = k]
  <1>1. kept \subseteq 1 .. Len(code) /\ 1 \in Int /\ Len(code) \in Int
    OBVIOUS
  <1>2. Straight(code) = [k \in 1 .. n |-> F(k)]
    BY Zenon DEF Straight
  <1> HIDE DEF kept, F
  <1>3. n \in Nat
    <2>1. IsFiniteSet(1 .. Len(code))
      BY Zenon, <1>1, FS_Interval
    <2>2. IsFiniteSet(kept)
      BY Zenon, <1>1, <2>1, FS_Subset
    <2> QED BY Zenon, <2>2, FS_CardinalityType
  <1> HIDE DEF n
  <1> QED BY <1>2, <1>3

\* The copy of a handler's code does what the handler does: its last call, if any,
\* is the one that is redirected.
LEMMA CopyServes ==
    ASSUME NEW code \in Seq(Instructions), \E i \in DOMAIN code : code[i] = "iret"
    PROVE  /\ Len(EntryCopy(code)) = Len(Effects(code))
           /\ \A i \in DOMAIN Effects(code) :
                \/ EntryCopy(code)[i] = Effects(code)[i]
                \/ /\ IsCall(Effects(code)[i]) /\ EntryCopy(code)[i] = Translated[Effects(code)[i]]
                   /\ \A k \in i + 1 .. Len(Effects(code)) : ~IsCall(Effects(code)[k])
  <1> DEFINE e == Effects(code)
             IsLast(i) == IsCall(e[i]) /\ \A k \in i + 1 .. Len(e) : ~IsCall(e[k])
  <1>1. Len(e) \in Nat /\ DOMAIN e = 1 .. Len(e)
    BY Zenon, DecodedIs, StraightIs DEF Effects
  <1>2. EntryCopy(code) = [i \in DOMAIN e |-> IF IsLast(i) THEN Translated[e[i]] ELSE e[i]]
    BY Zenon DEF EntryCopy, Effects
  <1> HIDE DEF e
  <1>3. Len(EntryCopy(code)) = Len(e)
    <2>1. DOMAIN EntryCopy(code) = DOMAIN e
      BY Zenon, <1>2
    <2> QED BY <2>1 DEF Len
  <1>4. ASSUME NEW i \in DOMAIN e
        PROVE  EntryCopy(code)[i] = e[i] \/ (IsLast(i) /\ EntryCopy(code)[i] = Translated[e[i]])
    BY Zenon, <1>2
  <1> QED BY Zenon, <1>3, <1>4 DEF e

\* Every gate that create_idt may make serves the vector's interrupts.
LEMMA GatesServe ==
    ASSUME BootOK, native \in NativeIdts, NEW v \in Vectors
    PROVE  /\ Serves(Gate(native[v].code, FALSE), v) /\ Gate(native[v].code, FALSE) # NoGate
           /\ \A g \in GatesFor(v) : Serves(g, v) /\ g # NoGate
  <1> DEFINE code == native[v].code
  <1>1. code \in Seq(Instructions) /\ \E i \in DOMAIN code : code[i] = "iret"
    BY Zenon DEF BootOK
  <1>2. code # Nullptr
    BY <1>1 DEF Nullptr
  <1>3. ASSUME NEW r \in BOOLEAN, NEW c, c = code \/ (c = EntryCopy(code) /\ c # Nullptr)
        PROVE  Serves(Gate(c, r), v) /\ Gate(c, r) # NoGate
    <2>1. Gate(c, r).code = c
      BY DEF Gate
    <2>2. c # Nullptr
      BY Zenon, <1>2, <1>3
    <2>3. Gate(c, r) # NoGate
      BY <2>1, <2>2 DEF NoGate, Gate
    <2>4. Serves(Gate(c, r), v)
      <3>1. CASE c = code
        BY Zenon, <2>1, <3>1 DEF Serves
      <3>2. CASE c = EntryCopy(code)
        <4>1. Gate(c, r).code = EntryCopy(code)
          BY Zenon, <2>1, <3>2
        <4>2. Len(EntryCopy(code)) = Len(Effects(code))
          BY Zenon, <1>1, CopyServes
        <4>3. \A i \in DOMAIN Effects(code) :
                \/ EntryCopy(code)[i] = Effects(code)[i]
                \/ /\ IsCall(Effects(code)[i]) /\ EntryCopy(code)[i] = Translated[Effects(code)[i]]
                   /\ \A k \in i + 1 .. Len(Effects(code)) : ~IsCall(Effects(code)[k])
          BY Zenon, <1>1, CopyServes
        <4> QED BY Zenon, <4>1, <4>2, <4>3 DEF Serves
      <3> QED BY Zenon, <1>3, <3>1, <3>2
    <2> QED BY Zenon, <2>3, <2>4
  <1>4. \A c \in create_interrupt_entrypoint(code) : c = Nullptr \/ c = EntryCopy(code)
    BY DEF create_interrupt_entrypoint
  <1>5. FALSE \in BOOLEAN
    OBVIOUS
  <1>6. ASSUME NEW g \in GatesFor(v)
        PROVE  \E r \in BOOLEAN : \E c :
                 /\ g = Gate(c, r)
                 /\ c = code \/ (c = EntryCopy(code) /\ c # Nullptr)
    <2>1. CASE ~ native[v].host
      <3>1. g = Gate(code, FALSE)
        BY <2>1 DEF GatesFor
      <3> QED BY Zenon, <1>5, <3>1
    <2>2. CASE native[v].host
      <3> DEFINE new == IF v \in {NMI, SYSCALL} THEN {Nullptr} ELSE create_interrupt_entrypoint(code)
                 r == v \notin {NMI, SYSCALL} /\ v <= LastVector
      <3>1. g \in {Gate(IF c = Nullptr THEN code ELSE c, r) : c \in new}
        BY Zenon, <2>2 DEF GatesFor
      <3>2. PICK c \in new : g = Gate(IF c = Nullptr THEN code ELSE c, r)
        BY Zenon, <3>1
      <3>3. c = Nullptr \/ c = EntryCopy(code)
        BY Zenon, <1>4
      <3>4. r \in BOOLEAN
        OBVIOUS
      <3> HIDE DEF r
      <3> QED BY Zenon, <3>2, <3>3, <3>4
    <2> QED BY Zenon, <2>1, <2>2
  <1>7. ASSUME NEW g \in GatesFor(v) PROVE Serves(g, v) /\ g # NoGate
    <2>1. PICK r \in BOOLEAN : \E c :
             /\ g = Gate(c, r)
             /\ c = code \/ (c = EntryCopy(code) /\ c # Nullptr)
      BY Zenon, <1>6
    <2>2. PICK c : /\ g = Gate(c, r)
                   /\ c = code \/ (c = EntryCopy(code) /\ c # Nullptr)
      BY Zenon, <2>1
    <2>3. Serves(Gate(c, r), v) /\ Gate(c, r) # NoGate
      BY Zenon, <1>3, <2>2
    <2> QED BY Zenon, <2>2, <2>3
  <1>8. Serves(Gate(code, FALSE), v) /\ Gate(code, FALSE) # NoGate
    BY Zenon, <1>3, <1>5
  <1> QED BY Zenon, <1>7, <1>8

\* The entries of the system call table are numbered from one, and the vectors
\* from zero.
LEMMA TablesAre ==
    ASSUME BootOK
    PROVE  /\ Len(NativeOf) \in Nat \ {0} /\ Entries = 1 .. Len(NativeOf)
           /\ \E n \in Nat : Vectors = 0 .. n
  <1>1. NativeOf \in Seq(STRING) /\ NativeOf # <<>>
    BY Zenon DEF BootOK
  <1>2. Len(NativeOf) \in Nat \ {0} /\ Entries = 1 .. Len(NativeOf)
    BY <1>1 DEF Entries
  <1> QED BY Zenon, <1>2 DEF BootOK

NatReg == [idtr |-> "native", lstar |-> "native"]
GranReg == [idtr |-> "granary", lstar |-> "granary"]
Starting == {"init_early", "static"}
Building == {"create_idt", "vectors", "create_syscall_entrypoint"}
Using == {"set_percpu", "takeover", "initialised"}
StateType == [idtr : {Null, "granary"}, lstar : {Null, "granary"},
              native_idtr : {Null, "idt_table"}, id : Int]
RunType == [at : {"user", "dispatch", "jump", "takeover"}, e : Nat]

BootTypes ==
    /\ boot \in [at : Starting \cup Building \cup Using, cpu : Nat, i : Nat]
    /\ state \in [BootCpus -> StateType]
    /\ reg \in [BootCpus -> {NatReg, GranReg}]
    /\ native \in NativeIdts
    /\ DOMAIN idt = Vectors
    /\ prev \in [idtr : {Null, "idt_table"}, gen : {Null, "granary"}]
    /\ protected \in BOOLEAN /\ delayed \in BOOLEAN
    /\ table \in [Entries -> {Null, "native", "routine", "translation"}]
    /\ translated \subseteq {NativeOf[e] : e \in Entries}
    /\ run \in [BootCpus -> RunType]
    /\ \A c \in BootCpus : run[c].at # "user" => run[c].e \in Entries

\* init_early gives every CPU its state, with the kernel's own table.
CpusKnown ==
    /\ \A c \in BootCpus : state[c] # NoState => state[c].native_idtr = "idt_table"
    /\ boot.at # "init_early" => \A c \in BootCpus : state[c].native_idtr = "idt_table"

\* A CPU makes no system call through Granary before it uses Granary's tables,
\* which is after they are built.
QuietBefore ==
    \A c \in BootCpus : /\ boot.at \notin Using => reg[c] = NatReg
                        /\ boot.at \in {"takeover", "initialised"} => reg[c] = GranReg
                        /\ reg[c] = NatReg => run[c].at = "user"

\* The shadow table is filled in from its first entry on, before any CPU uses it.
TableFilled ==
    /\ boot.at = "static" => boot.i \in Entries /\ \A e \in Entries : e < boot.i => table[e] # Null
    /\ boot.at \notin Starting => \A e \in Entries : table[e] # Null
    /\ delayed /\ boot.at \notin {"takeover", "initialised"} =>
         \A e \in Entries : table[e] \in {Null, "native"}
    /\ boot.at = "takeover" => delayed /\ \A e \in Entries : e >= boot.i => table[e] = "native"
    /\ \A c \in BootCpus :
         /\ run[c].at = "jump" => table[run[c].e] = "translation"
         /\ run[c].at = "takeover" => table[run[c].e] \in {"routine", "translation"}

Granarys(c) == state[c].idtr = "granary" /\ state[c].lstar = "granary"
IdtServes == \A v \in Vectors : Serves(idt[v], v) /\ idt[v] # NoGate

\* Granary's interrupt table is built for the first CPU, before it is read-only,
\* and serves from when the kernel's table is copied into it.
IdtBuilt ==
    /\ boot.at \in Starting \/ (boot.at = "create_idt" /\ boot.cpu = 1) =>
         prev.idtr = Null /\ ~protected
    /\ boot.at = "vectors" => boot.cpu = 1 /\ boot.i \in Vectors /\ prev.idtr = "idt_table" /\ ~protected
    /\ \/ boot.at \in Using \cup {"create_syscall_entrypoint"}
       \/ boot.at = "create_idt" /\ boot.cpu # 1
       => prev.idtr = "idt_table" /\ prev.gen = "granary"
    /\ prev.idtr # Null => IdtServes
    /\ boot.at \in Building => /\ boot.cpu \in 1 .. NumCpus
                               /\ \A k \in 1 .. boot.cpu - 1 : Granarys(CpuOrder[k])
    /\ boot.at = "create_syscall_entrypoint" => state[Current].idtr = "granary"
    /\ boot.at \in Using => \A c \in BootCpus : Granarys(c)

BootInv == BootTypes /\ CpusKnown /\ QuietBefore /\ TableFilled /\ IdtBuilt

LEMMA IdtServesOn ==
    ASSUME IdtServes, idt' = idt, native' = native
    PROVE  IdtServes'
  BY Zenon DEF IdtServes, Serves

LEMMA InitBootInv ==
    ASSUME BootOK, BootInit
    PROVE  BootInv
  <1> USE DEF BootInit, Boot, Null, NatReg, GranReg, Starting, Building, Using
  <1>1. BootTypes
    <2>1. boot \in [at : Starting \cup Building \cup Using, cpu : Nat, i : Nat]
      OBVIOUS
    <2>2. NoState \in StateType
      BY DEF StateType, NoState
    <2>3. Idle \in RunType /\ Idle.at = "user"
      BY DEF RunType, Idle
    <2>4. prev \in [idtr : {Null, "idt_table"}, gen : {Null, "granary"}]
      OBVIOUS
    <2>5. DOMAIN idt = Vectors
      BY Zenon
    <2>6. reg \in [BootCpus -> {NatReg, GranReg}]
      BY Zenon
    <2>7. /\ state \in [BootCpus -> StateType] /\ run \in [BootCpus -> RunType]
          /\ \A c \in BootCpus : run[c].at = "user"
      BY <2>2, <2>3
    <2> QED BY Zenon, <2>1, <2>4, <2>5, <2>6, <2>7 DEF BootTypes
  <1>2. CpusKnown
    BY DEF CpusKnown
  <1>3. QuietBefore
    BY DEF QuietBefore, Idle
  <1>4. TableFilled
    BY DEF TableFilled, Idle
  <1>5. IdtBuilt
    BY DEF IdtBuilt
  <1> QED BY Zenon, <1>1, <1>2, <1>3, <1>4, <1>5 DEF BootInv

LEMMA AllocStep ==
    ASSUME BootOK, BootInv, NEW c \in BootCpus, alloc_cpu_state(c)
    PROVE  BootInv'
  <1> USE DEF Null, NatReg, GranReg, Starting, Building, Using
  <1>0. NEXT_CPU_ID \in Int
    <2>1. IsFiniteSet(BootCpus)
      BY Zenon DEF BootOK
    <2>2. {d \in BootCpus : state[d] # NoState} \subseteq BootCpus
      BY Zenon
    <2>3. IsFiniteSet({d \in BootCpus : state[d] # NoState})
      BY Zenon, <2>1, <2>2, FS_Subset
    <2>4. NEXT_CPU_ID \in Nat
      BY Zenon, <2>3, FS_CardinalityType DEF NEXT_CPU_ID
    <2> QED BY <2>4
  <1> PICK n \in Int : n = NEXT_CPU_ID
    BY Zenon, <1>0
  <1>1. /\ boot.at = "init_early"
        /\ state' = [state EXCEPT ![c] = [state[c] EXCEPT !.native_idtr = "idt_table", !.id = n]]
        /\ UNCHANGED <<delayed, native, base, boot, reg, idt, prev, protected, gen, table, translated, run>>
    BY DEF alloc_cpu_state
  <1>2. BootTypes'
    <2>1. BootTypes /\ state \in [BootCpus -> StateType]
      BY Zenon DEF BootInv, BootTypes
    <2>2. [state[c] EXCEPT !.native_idtr = "idt_table", !.id = n] \in StateType
      <3>1. state[c] \in StateType
        BY Zenon, <2>1
      <3> QED BY Zenon, <3>1 DEF StateType
    <2>3. state' \in [BootCpus -> StateType]
      BY Zenon, <1>1, <2>1, <2>2
    <2> QED BY Zenon, <1>1, <2>1, <2>3 DEF BootTypes
  <1>3. CpusKnown'
    BY <1>1 DEF BootInv, BootTypes, CpusKnown, StateType
  <1>4. QuietBefore'
    BY <1>1 DEF BootInv, QuietBefore
  <1>5. TableFilled'
    BY <1>1 DEF BootInv, TableFilled
  <1>6. IdtBuilt'
    BY <1>1 DEF BootInv, BootTypes, IdtBuilt
  <1> QED BY Zenon, <1>2, <1>3, <1>4, <1>5, <1>6 DEF BootInv

LEMMA EarlyStep ==
    ASSUME BootOK, BootInv, init_early
    PROVE  BootInv'
  <1> USE DEF Null, NatReg, GranReg, Starting, Building, Using
  <1>1. /\ boot.at = "init_early" /\ \A c \in BootCpus : state[c] # NoState
        /\ boot' = [at |-> "static", cpu |-> 1, i |-> 1]
        /\ UNCHANGED <<delayed, native, base, state, reg, idt, prev, protected, gen, table, translated, run>>
    BY Zenon DEF init_early, Boot
  <1>2. BootTypes'
    BY <1>1 DEF BootInv, BootTypes
  <1>3. CpusKnown'
    BY <1>1 DEF BootInv, CpusKnown
  <1>4. QuietBefore'
    BY <1>1 DEF BootInv, QuietBefore
  <1>5. TableFilled'
    BY <1>1, TablesAre DEF BootInv, TableFilled
  <1>6. IdtBuilt'
    BY <1>1 DEF BootInv, BootTypes, IdtBuilt
  <1> QED BY Zenon, <1>2, <1>3, <1>4, <1>5, <1>6 DEF BootInv

LEMMA DuplicateStep ==
    ASSUME BootOK, BootInv, duplicate_syscall_table
    PROVE  BootInv'
  <1> USE DEF Null, NatReg, GranReg, Starting, Building, Using
  <1>1. /\ boot.at = "static"
        /\ table' = [table EXCEPT ![boot.i] = IF delayed THEN "native" ELSE "routine"]
        /\ boot' = IF boot.i = Len(NativeOf) THEN [at |-> "create_idt", cpu |-> 1, i |-> 0]
                   ELSE [boot EXCEPT !.i = boot.i + 1]
        /\ UNCHANGED <<delayed, native, base, state, reg, idt, prev, protected, gen, translated, run>>
    BY Zenon DEF duplicate_syscall_table, Boot
  <1>0. Len(NativeOf) \in Nat \ {0} /\ Entries = 1 .. Len(NativeOf) /\ boot.i \in Entries
    BY <1>1, TablesAre DEF BootInv, TableFilled
  <1>2. BootTypes'
    BY <1>1, <1>0 DEF BootInv, BootTypes
  <1>3. CpusKnown'
    BY <1>1 DEF BootInv, BootTypes, CpusKnown
  <1>4. QuietBefore'
    BY <1>1 DEF BootInv, BootTypes, QuietBefore
  <1>5. TableFilled'
    BY <1>1, <1>0 DEF BootInv, BootTypes, TableFilled, QuietBefore
  <1>6. IdtBuilt'
    BY <1>1, <1>0, OrderIs DEF BootInv, BootTypes, IdtBuilt
  <1> QED BY Zenon, <1>2, <1>3, <1>4, <1>5, <1>6 DEF BootInv

\* The CPU whose tables are made.
LEMMA CurrentIs ==
    ASSUME BootOK, BootInv, boot.at \in Building
    PROVE  /\ Current \in BootCpus /\ boot.cpu \in 1 .. NumCpus /\ NumCpus \in Nat
           /\ \A k \in 1 .. boot.cpu - 1 : CpuOrder[k] \in BootCpus /\ CpuOrder[k] # Current
  BY OrderIs DEF BootInv, IdtBuilt, Current

LEMMA CreateIdtStep ==
    ASSUME BootOK, BootInv, create_idt
    PROVE  BootInv'
  <1> USE DEF Null, NatReg, GranReg, Starting, Building, Using
  <1>0. /\ boot.at = "create_idt" /\ state[Current].native_idtr = "idt_table"
        /\ Current \in BootCpus /\ boot.cpu \in 1 .. NumCpus /\ NumCpus \in Nat
        /\ \A k \in 1 .. boot.cpu - 1 : CpuOrder[k] \in BootCpus /\ CpuOrder[k] # Current
    BY Zenon, CurrentIs DEF create_idt, BootInv, CpusKnown
  <1> PICK now \in BootCpus : now = Current
    BY Zenon, <1>0
  <1>k. UNCHANGED <<delayed, native, base, reg, protected, gen, table, translated, run>>
    BY Zenon DEF create_idt
  <1>1. CASE prev.idtr = "idt_table"
    <2>1. /\ state' = [state EXCEPT ![now].idtr = prev.gen]
          /\ boot' = [boot EXCEPT !.at = "create_syscall_entrypoint"]
          /\ idt' = idt /\ prev' = prev
      BY Zenon, <1>0, <1>1 DEF create_idt
    <2>2. prev.gen = "granary"
      BY <1>0, <1>1 DEF BootInv, BootTypes, IdtBuilt
    <2>3. BootTypes'
      <3>1. BootTypes /\ state \in [BootCpus -> StateType]
        BY Zenon DEF BootInv, BootTypes
      <3>2. [state[now] EXCEPT !.idtr = "granary"] \in StateType
        <4>1. state[now] \in StateType
          BY Zenon, <3>1
        <4> QED BY <4>1 DEF StateType
      <3>3. state' \in [BootCpus -> StateType]
        BY Zenon, <2>1, <2>2, <3>1, <3>2
      <3>4. boot' \in [at : Starting \cup Building \cup Using, cpu : Nat, i : Nat]
        BY <2>1, <3>1 DEF BootTypes
      <3> QED BY Zenon, <1>k, <2>1, <3>1, <3>3, <3>4 DEF BootTypes
    <2>4. CpusKnown'
      BY <1>0, <1>k, <2>1 DEF BootInv, BootTypes, CpusKnown, StateType
    <2>5. QuietBefore'
      BY <1>0, <1>k, <2>1 DEF BootInv, BootTypes, QuietBefore
    <2>6. TableFilled'
      BY <1>0, <1>k, <2>1 DEF BootInv, BootTypes, TableFilled
    <2>7. IdtBuilt'
      <3>1. Current' = now
        BY <2>1 DEF Current, BootInv, BootTypes
      <3>2. IdtServes'
        BY Zenon, <1>0, <1>1, <1>k, <2>1, IdtServesOn DEF BootInv, IdtBuilt
      <3>3. \A k \in 1 .. boot.cpu - 1 : Granarys(CpuOrder[k])'
        BY <1>0, <2>1 DEF BootInv, BootTypes, IdtBuilt, Granarys
      <3> QED BY <1>0, <1>1, <1>k, <2>1, <2>2, <3>1, <3>2, <3>3 DEF BootInv, BootTypes, IdtBuilt, StateType
    <2> QED BY Zenon, <2>3, <2>4, <2>5, <2>6, <2>7 DEF BootInv
  <1>2. CASE prev.idtr = Null
    <2>1. /\ prev' = [prev EXCEPT !.idtr = "idt_table"]
          /\ idt' = [v \in Vectors |-> Gate(native[v].code, FALSE)]
          /\ boot' = [boot EXCEPT !.at = "vectors", !.i = 0]
          /\ state' = state
      BY Zenon, <1>0, <1>2 DEF create_idt
    <2>2. boot.cpu = 1 /\ ~ protected
      BY <1>0, <1>2 DEF BootInv, BootTypes, IdtBuilt
    <2>3. BootTypes'
      BY Zenon, <1>k, <2>1 DEF BootInv, BootTypes
    <2>4. CpusKnown'
      BY <1>0, <1>k, <2>1 DEF BootInv, BootTypes, CpusKnown
    <2>5. QuietBefore'
      BY <1>0, <1>k, <2>1 DEF BootInv, BootTypes, QuietBefore
    <2>6. TableFilled'
      BY <1>0, <1>k, <2>1 DEF BootInv, BootTypes, TableFilled
    <2>7. IdtBuilt'
      <3>1. 0 \in Vectors
        BY TablesAre
      <3>2. IdtServes'
        <4>1. native \in NativeIdts
          BY Zenon DEF BootInv, BootTypes
        <4>2. ASSUME NEW v \in Vectors PROVE (Serves(idt[v], v) /\ idt[v] # NoGate)'
          <5>1. Serves(Gate(native[v].code, FALSE), v) /\ Gate(native[v].code, FALSE) # NoGate
            BY Zenon, <4>1, GatesServe
          <5>2. idt'[v] = Gate(native[v].code, FALSE)
            BY Zenon, <2>1
          <5>3. Serves(idt'[v], v)
            BY Zenon, <5>1, <5>2
          <5>4. Serves(idt[v], v)'
            BY Zenon, <5>3, <1>k DEF Serves
          <5> QED BY Zenon, <5>1, <5>2, <5>4
        <4> QED BY Zenon, <4>2 DEF IdtServes
      <3> QED BY <1>0, <1>k, <2>1, <2>2, <3>1, <3>2 DEF BootInv, BootTypes, IdtBuilt
    <2> QED BY Zenon, <2>3, <2>4, <2>5, <2>6, <2>7 DEF BootInv
  <1>3. prev.idtr \in {Null, "idt_table"}
    BY DEF BootInv, BootTypes
  <1> QED BY Zenon, <1>1, <1>2, <1>3

LEMMA SetGateStep ==
    ASSUME BootOK, BootInv, SetGate
    PROVE  BootInv'
  <1> USE DEF Null, NatReg, GranReg, Starting, Building, Using
  <1>0. /\ boot.at = "vectors" /\ boot.i \in Vectors /\ boot.cpu = 1 /\ prev.idtr = "idt_table"
        /\ Current \in BootCpus /\ boot.cpu \in 1 .. NumCpus /\ NumCpus \in Nat
        /\ ~ protected
    BY CurrentIs DEF SetGate, BootInv, IdtBuilt
  <1> PICK now \in BootCpus : now = Current
    BY Zenon, <1>0
  <1>k. UNCHANGED <<delayed, native, base, reg, protected, gen, table, translated, run>>
    BY Zenon DEF SetGate
  <1>1. PICK g \in GatesFor(boot.i) : idt' = [idt EXCEPT ![boot.i] = g]
    BY Zenon DEF SetGate
  <1>2. DOMAIN idt' = Vectors /\ IdtServes'
    <2>1. native \in NativeIdts /\ DOMAIN idt = Vectors /\ IdtServes
      BY <1>0 DEF BootInv, BootTypes, IdtBuilt
    <2>2. Serves(g, boot.i) /\ g # NoGate
      BY Zenon, <1>0, <2>1, GatesServe
    <2>3. ASSUME NEW v \in Vectors PROVE (Serves(idt[v], v) /\ idt[v] # NoGate)'
      <3>1. idt'[v] = IF v = boot.i THEN g ELSE idt[v]
        BY Zenon, <1>1, <2>1
      <3>2. Serves(idt'[v], v) /\ idt'[v] # NoGate
        BY Zenon, <2>1, <2>2, <3>1 DEF IdtServes
      <3>3. Serves(idt[v], v)'
        BY Zenon, <3>2, <1>k DEF Serves
      <3> QED BY Zenon, <3>2, <3>3
    <2>4. IdtServes'
      BY Zenon, <2>3 DEF IdtServes
    <2> QED BY Zenon, <1>1, <2>1, <2>4
  <1>3. CASE boot.i + 1 \in Vectors
    <2>1. boot' = [boot EXCEPT !.i = boot.i + 1] /\ state' = state /\ prev' = prev
      BY Zenon, <1>3 DEF SetGate
    <2>3. BootTypes'
      BY <1>k, <1>2, <2>1 DEF BootInv, BootTypes
    <2>4. CpusKnown'
      BY <1>0, <1>k, <2>1 DEF BootInv, BootTypes, CpusKnown
    <2>5. QuietBefore'
      BY <1>0, <1>k, <2>1 DEF BootInv, BootTypes, QuietBefore
    <2>6. TableFilled'
      BY <1>0, <1>k, <2>1 DEF BootInv, BootTypes, TableFilled
    <2>7. IdtBuilt'
      BY <1>0, <1>2, <1>3, <1>k, <2>1 DEF BootInv, BootTypes, IdtBuilt
    <2> QED BY Zenon, <2>3, <2>4, <2>5, <2>6, <2>7 DEF BootInv
  <1>4. CASE boot.i + 1 \notin Vectors
    <2>1. /\ prev' = [prev EXCEPT !.gen = "granary"]
          /\ state' = [state EXCEPT ![now].idtr = "granary"]
          /\ boot' = [boot EXCEPT !.at = "create_syscall_entrypoint"]
      BY Zenon, <1>4 DEF SetGate
    <2>3. BootTypes'
      BY <1>k, <1>2, <2>1 DEF BootInv, BootTypes, StateType
    <2>4. CpusKnown'
      BY <1>0, <1>k, <2>1 DEF BootInv, BootTypes, CpusKnown, StateType
    <2>5. QuietBefore'
      BY <1>0, <1>k, <2>1 DEF BootInv, BootTypes, QuietBefore
    <2>6. TableFilled'
      BY <1>0, <1>k, <2>1 DEF BootInv, BootTypes, TableFilled
    <2>7. IdtBuilt'
      <3>1. Current' = now
        BY <2>1 DEF Current, BootInv, BootTypes
      <3> QED BY <1>0, <1>2, <1>k, <2>1, <3>1 DEF BootInv, BootTypes, IdtBuilt, StateType
    <2> QED BY Zenon, <2>3, <2>4, <2>5, <2>6, <2>7 DEF BootInv
  <1> QED BY Zenon, <1>3, <1>4

LEMMA EntryPointStep ==
    ASSUME BootOK, BootInv, create_syscall_entrypoint
    PROVE  BootInv'
  <1> USE DEF Null, NatReg, GranReg, Starting, Building, Using
  <1>0. /\ boot.at = "create_syscall_entrypoint"
        /\ Current \in BootCpus /\ boot.cpu \in 1 .. NumCpus /\ NumCpus \in Nat
        /\ \A k \in 1 .. boot.cpu - 1 : CpuOrder[k] \in BootCpus /\ CpuOrder[k] # Current
        /\ state[Current].idtr = "granary" /\ prev.idtr = "idt_table" /\ prev.gen = "granary"
    BY CurrentIs DEF create_syscall_entrypoint, BootInv, IdtBuilt
  <1> PICK now \in BootCpus : now = Current
    BY Zenon, <1>0
  <1>1. /\ gen' = [last |-> "native", gen |-> "granary"]
        /\ state' = [state EXCEPT ![now].lstar = gen'.gen]
        /\ protected' = TRUE
        /\ boot' = IF boot.cpu < NumCpus THEN [at |-> "create_idt", cpu |-> boot.cpu + 1, i |-> 0]
                   ELSE [at |-> "set_percpu", cpu |-> 0, i |-> 1]
        /\ UNCHANGED <<delayed, native, base, reg, idt, prev, table, translated, run>>
    BY Zenon DEF create_syscall_entrypoint, Boot
  <1>2. state' = [state EXCEPT ![now].lstar = "granary"]
    BY <1>1
  <1>3. BootTypes'
    BY <1>0, <1>1, <1>2 DEF BootInv, BootTypes, StateType
  <1>4. CpusKnown'
    BY <1>0, <1>1, <1>2 DEF BootInv, BootTypes, CpusKnown, StateType
  <1>5. QuietBefore'
    BY <1>0, <1>1 DEF BootInv, BootTypes, QuietBefore
  <1>6. TableFilled'
    BY <1>0, <1>1 DEF BootInv, BootTypes, TableFilled
  <1>7. IdtBuilt'
    <2>1. IdtServes'
      BY <1>0, <1>1, IdtServesOn DEF BootInv, IdtBuilt
    <2>2. \A k \in 1 .. boot.cpu : Granarys(CpuOrder[k])'
      <3>1. CpuOrder[boot.cpu] = now
        BY Zenon DEF Current
      <3>2. Granarys(now)'
        BY <1>0, <1>2 DEF Granarys, BootInv, BootTypes, StateType
      <3>3. \A k \in 1 .. boot.cpu - 1 : Granarys(CpuOrder[k])'
        BY <1>0, <1>2 DEF BootInv, BootTypes, IdtBuilt, Granarys
      <3>4. \A k \in 1 .. boot.cpu : k = boot.cpu \/ k \in 1 .. boot.cpu - 1
        BY <1>0
      <3> QED BY Zenon, <3>1, <3>2, <3>3, <3>4
    <2>3. CASE boot.cpu < NumCpus
      BY <1>0, <1>1, <2>1, <2>2, <2>3 DEF BootInv, BootTypes, IdtBuilt
    <2>4. CASE boot.cpu = NumCpus
      <3>1. \A c \in BootCpus : Granarys(c)'
        <4>1. \A k \in 1 .. NumCpus : Granarys(CpuOrder[k])'
          BY Zenon, <2>2, <2>4
        <4>2. TAKE c \in BootCpus
        <4>3. PICK k \in 1 .. NumCpus : CpuOrder[k] = c
          BY Zenon, OrderIs
        <4> QED BY Zenon, <4>1, <4>3
      <3>2. boot' = [at |-> "set_percpu", cpu |-> 0, i |-> 1]
        BY <1>0, <1>1, <2>4
      <3> QED BY <1>0, <1>1, <2>1, <3>1, <3>2 DEF BootInv, BootTypes, IdtBuilt
    <2> QED BY <1>0, <2>3, <2>4
  <1> QED BY Zenon, <1>3, <1>4, <1>5, <1>6, <1>7 DEF BootInv

LEMMA PerCpuStep ==
    ASSUME BootOK, BootInv, NEW c \in BootCpus, set_percpu(c)
    PROVE  BootInv'
  <1> USE DEF Null, NatReg, GranReg, Starting, Building, Using
  <1>0. boot.at = "set_percpu" /\ state[c].idtr = "granary" /\ state[c].lstar = "granary"
    BY DEF set_percpu, BootInv, IdtBuilt, Granarys
  <1>1. /\ reg' = [reg EXCEPT ![c] = GranReg]
        /\ UNCHANGED <<delayed, native, base, boot, state, idt, prev, protected, gen, table, translated, run>>
    BY Zenon, <1>0 DEF set_percpu
  <1>2. BootTypes'
    BY <1>1 DEF BootInv, BootTypes
  <1>3. CpusKnown'
    BY <1>1 DEF BootInv, CpusKnown
  <1>4. QuietBefore'
    BY <1>0, <1>1 DEF BootInv, BootTypes, QuietBefore
  <1>5. TableFilled'
    BY <1>1 DEF BootInv, TableFilled
  <1>6. IdtBuilt'
    <2>1. IdtServes'
      BY <1>0, <1>1, IdtServesOn DEF BootInv, IdtBuilt
    <2> QED BY <1>0, <1>1, <2>1 DEF BootInv, IdtBuilt, Granarys
  <1> QED BY Zenon, <1>2, <1>3, <1>4, <1>5, <1>6 DEF BootInv

LEMMA LateStep ==
    ASSUME BootOK, BootInv, init_late
    PROVE  BootInv'
  <1> USE DEF Null, NatReg, GranReg, Starting, Building, Using
  <1>1. /\ boot.at = "set_percpu" /\ \A c \in BootCpus : reg[c].idtr # "native"
        /\ boot' = [at |-> IF delayed THEN "takeover" ELSE "initialised", cpu |-> 0, i |-> 1]
        /\ UNCHANGED <<delayed, native, base, state, reg, idt, prev, protected, gen, table, translated, run>>
    BY Zenon DEF init_late, Boot
  <1>2. BootTypes'
    BY Zenon, <1>1 DEF BootInv, BootTypes
  <1>3. CpusKnown'
    BY <1>1 DEF BootInv, CpusKnown
  <1>4. QuietBefore'
    BY <1>1 DEF BootInv, BootTypes, QuietBefore
  <1>5. TableFilled'
    BY <1>1 DEF BootInv, BootTypes, TableFilled
  <1>6. IdtBuilt'
    <2>1. IdtServes'
      BY <1>1, IdtServesOn DEF BootInv, IdtBuilt
    <2> QED BY <1>1, <2>1 DEF BootInv, IdtBuilt, Granarys
  <1> QED BY Zenon, <1>2, <1>3, <1>4, <1>5, <1>6 DEF BootInv

LEMMA TakeoverStep ==
    ASSUME BootOK, BootInv, granary_takeover_next_syscall_entry
    PROVE  BootInv'
  <1> USE DEF Null, NatReg, GranReg, Starting, Building, Using
  <1>0. /\ boot.at = "takeover" /\ Len(NativeOf) \in Nat \ {0} /\ Entries = 1 .. Len(NativeOf)
        /\ UNCHANGED <<delayed, native, base, state, reg, idt, prev, protected, gen, translated, run>>
    BY Zenon, TablesAre DEF granary_takeover_next_syscall_entry
  <1>1. \/ boot' = [at |-> "initialised", cpu |-> 0, i |-> 1] /\ table' = table
        \/ /\ table' = [table EXCEPT ![boot.i] = "routine"] /\ boot' = [boot EXCEPT !.i = boot.i + 1]
    BY Zenon DEF granary_takeover_next_syscall_entry, Boot
  <1>2. BootTypes'
    BY <1>0, <1>1 DEF BootInv, BootTypes
  <1>3. CpusKnown'
    BY <1>0, <1>1 DEF BootInv, BootTypes, CpusKnown
  <1>4. QuietBefore'
    BY <1>0, <1>1 DEF BootInv, BootTypes, QuietBefore
  <1>5. TableFilled'
    <2>1. CASE boot' = [at |-> "initialised", cpu |-> 0, i |-> 1] /\ table' = table
      BY <1>0, <2>1 DEF BootInv, BootTypes, TableFilled
    <2>2. CASE table' = [table EXCEPT ![boot.i] = "routine"] /\ boot' = [boot EXCEPT !.i = boot.i + 1]
      BY <1>0, <2>2 DEF BootInv, BootTypes, TableFilled
    <2> QED BY Zenon, <1>1, <2>1, <2>2
  <1>6. IdtBuilt'
    <2>1. IdtServes'
      BY <1>0, IdtServesOn DEF BootInv, IdtBuilt
    <2>2. boot'.at \in {"takeover", "initialised"}
      BY <1>0, <1>1 DEF BootInv, BootTypes
    <2> QED BY <1>0, <2>1, <2>2 DEF BootInv, IdtBuilt, Granarys
  <1> QED BY Zenon, <1>2, <1>3, <1>4, <1>5, <1>6 DEF BootInv

\* What a CPU that makes system calls leaves alone.
LEMMA CallKeeps ==
    ASSUME BootInv, UNCHANGED <<delayed, native, base, boot, state, reg, idt, prev, protected, gen>>
    PROVE  CpusKnown' /\ IdtBuilt'
  <1>1. CpusKnown'
    BY Zenon DEF BootInv, CpusKnown
  <1>2. IdtBuilt'
    <2>1. prev.idtr # Null => IdtServes'
      BY Zenon, IdtServesOn DEF BootInv, IdtBuilt
    <2>2. Current' = Current
      BY Zenon DEF Current
    <2>3. \A c : Granarys(c) => Granarys(c)'
      BY Zenon DEF Granarys
    <2> QED BY Zenon, <2>1, <2>2, <2>3 DEF BootInv, IdtBuilt
  <1> QED BY Zenon, <1>1, <1>2

LEMMA CallStep ==
    ASSUME BootOK, BootInv, NEW c \in BootCpus, Syscall(c)
    PROVE  BootInv'
  <1> USE DEF Null, NatReg, GranReg, Starting, Building, Using
  <1>1. PICK e \in Entries : run' = [run EXCEPT ![c] = [at |-> "dispatch", e |-> e]]
    BY Zenon DEF Syscall
  <1>2. /\ reg[c].lstar # "native" /\ e \in Nat
        /\ UNCHANGED <<delayed, native, base, boot, state, reg, idt, prev, protected, gen, table, translated>>
    BY TablesAre DEF Syscall
  <1>3. BootTypes'
    BY <1>1, <1>2 DEF BootInv, BootTypes, RunType
  <1>4. CpusKnown' /\ IdtBuilt'
    BY Zenon, <1>2, CallKeeps
  <1>5. QuietBefore'
    BY <1>1, <1>2 DEF BootInv, BootTypes, QuietBefore
  <1>6. TableFilled'
    BY <1>1, <1>2 DEF BootInv, BootTypes, TableFilled
  <1> QED BY Zenon, <1>3, <1>4, <1>5, <1>6 DEF BootInv

LEMMA DispatchStep ==
    ASSUME BootOK, BootInv, NEW c \in BootCpus, Dispatch(c)
    PROVE  BootInv'
  <1> USE DEF Null, NatReg, GranReg, Starting, Building, Using
  <1>1. /\ run[c].at \in {"dispatch", "jump"}
        /\ UNCHANGED <<delayed, native, base, boot, state, reg, idt, prev, protected, gen, table, translated>>
    BY Zenon DEF Dispatch
  <1>2. run[c].e \in Entries /\ boot.at \in Using /\ table[run[c].e] # Null /\ reg[c] # NatReg
    BY <1>1 DEF BootInv, BootTypes, QuietBefore, TableFilled
  <1>3. \/ /\ run' = [run EXCEPT ![c] = [run[c] EXCEPT !.at = "takeover"]]
           /\ table[run[c].e] = "routine"
        \/ run' = [run EXCEPT ![c] = Idle]
    BY Zenon, <1>2 DEF Dispatch
  <1>4. BootTypes'
    BY <1>1, <1>2, <1>3 DEF BootInv, BootTypes, RunType, Idle
  <1>5. CpusKnown' /\ IdtBuilt'
    BY Zenon, <1>1, CallKeeps
  <1>6. QuietBefore'
    BY <1>1, <1>2, <1>3 DEF BootInv, BootTypes, QuietBefore, Idle
  <1>7. TableFilled'
    BY <1>1, <1>2, <1>3 DEF BootInv, BootTypes, TableFilled, Idle, RunType
  <1> QED BY Zenon, <1>4, <1>5, <1>6, <1>7 DEF BootInv

LEMMA ResolveStep ==
    ASSUME BootOK, BootInv, NEW c \in BootCpus, takeover_syscall(c)
    PROVE  BootInv'

  <1> USE DEF Null, NatReg, GranReg, Starting, Building, Using
  <1>1. /\ run[c].at = "takeover"
        /\ table' = [table EXCEPT ![run[c].e] = "translation"]
        /\ translated' = translated \cup {NativeOf[run[c].e]}
        /\ run' = [run EXCEPT ![c].at = "jump"]
        /\ UNCHANGED <<delayed, native, base, boot, state, reg, idt, prev, protected, gen>>
    BY Zenon DEF takeover_syscall
  <1>2. /\ run[c].e \in Entries /\ boot.at \in Using /\ reg[c] # NatReg
        /\ table[run[c].e] \in {"routine", "translation"}
    BY <1>1 DEF BootInv, BootTypes, QuietBefore, TableFilled
  <1>4. BootTypes'
    BY <1>1, <1>2 DEF BootInv, BootTypes, RunType
  <1>5. CpusKnown' /\ IdtBuilt'
    BY Zenon, <1>1, CallKeeps
  <1>6. QuietBefore'
    BY <1>1, <1>2 DEF BootInv, BootTypes, QuietBefore, RunType
  <1>7. TableFilled'
    <2>1. ASSUME NEW e \in Entries
          PROVE  /\ table'[e] # Null <=> table[e] # Null
                 /\ table[e] = "native" => table'[e] = "native"
                 /\ table[e] = "translation" => table'[e] = "translation"
                 /\ table[e] \in {"routine", "translation"} => table'[e] \in {"routine", "translation"}
      BY <1>1, <1>2 DEF BootInv, BootTypes
    <2>2. ASSUME NEW d \in BootCpus
          PROVE  /\ run'[d].at = "jump" => table'[run'[d].e] = "translation"
                 /\ run'[d].at = "takeover" => table'[run'[d].e] \in {"routine", "translation"}
      BY <1>1, <1>2 DEF BootInv, BootTypes, RunType, TableFilled
    <2>3. boot.at # "set_percpu" \/ ~ delayed
      BY <1>1, <1>2 DEF BootInv, TableFilled
    <2> QED BY <1>1, <1>2, <2>1, <2>2, <2>3 DEF BootInv, TableFilled
  <1> QED BY Zenon, <1>4, <1>5, <1>6, <1>7 DEF BootInv

LEMMA NextBootInv ==
    ASSUME BootOK, BootInv, [BootNext]_bootVars
    PROVE  BootInv'
  <1>1. CASE UNCHANGED bootVars
    <2>1. UNCHANGED <<delayed, native, base, boot, state, reg, idt, prev, protected, gen>>
      BY Zenon, <1>1 DEF bootVars
    <2>2. table' = table /\ translated' = translated /\ run' = run
      BY Zenon, <1>1 DEF bootVars
    <2>3. CpusKnown' /\ IdtBuilt'
      BY Zenon, <2>1, CallKeeps
    <2>4. BootTypes' /\ QuietBefore' /\ TableFilled'
      BY Zenon, <2>1, <2>2 DEF BootInv, BootTypes, QuietBefore, TableFilled
    <2> QED BY Zenon, <2>3, <2>4 DEF BootInv
  <1>2. CASE Initialise
    <2>1. ASSUME NEW c \in BootCpus, alloc_cpu_state(c) \/ set_percpu(c) PROVE BootInv'
      BY Zenon, <2>1, AllocStep, PerCpuStep
    <2> QED BY Zenon, <1>2, <2>1, EarlyStep, DuplicateStep, CreateIdtStep, SetGateStep,
               EntryPointStep, LateStep, TakeoverStep DEF Initialise
  <1>3. ASSUME NEW c \in BootCpus, Syscall(c) \/ Resolve(c) PROVE BootInv'
    BY Zenon, <1>3, CallStep, DispatchStep, ResolveStep DEF Resolve
  <1> QED BY Zenon, <1>1, <1>2, <1>3 DEF BootNext

\* The invariant holds in every state, whatever the CPUs do meanwhile.
LEMMA BootInvariant ==
    ASSUME BootOK
    PROVE  BootSpec => []BootInv
  <1>1. BootSpec => BootInit /\ [][BootNext]_bootVars
    BY DEF BootSpec
  <1>2. BootInit => BootInv
    BY Zenon, InitBootInv
  <1>3. BootInv /\ [BootNext]_bootVars => BootInv'
    BY Zenon, NextBootInv
  <1> QED BY <1>1, <1>2, <1>3, PTL

\* While the CPUs take over the kernel's tables, and after it, every interrupt and
\* every system call is served: create_idt, create_syscall_entrypoint and the
\* shadow system call table, for any number of CPUs, vectors and system calls
\* and for any handlers.
THEOREM TakeOverStaysSafe ==
    ASSUME BootOK
    PROVE  BootSpec => []TakeOverIsSafe
  <1>1. BootInv => TakeOverIsSafe
    <2> SUFFICES ASSUME BootInv PROVE TakeOverIsSafe
      OBVIOUS
    <2> USE DEF Null, NatReg, GranReg, Starting, Building, Using
    <2>1. BootTypeOK
      BY DEF BootInv, BootTypes, BootTypeOK
    <2>2. InterruptsAreServed
      <3> SUFFICES ASSUME NEW c \in BootCpus, reg[c].idtr # "native"
                   PROVE  /\ reg[c].idtr = "granary" /\ state[c] # NoState
                          /\ \A v \in Vectors : idt[v] # NoGate /\ Serves(idt[v], v)
        BY Zenon DEF InterruptsAreServed
      <3>1. reg[c].idtr = "granary" /\ boot.at \in Using
        BY DEF BootInv, BootTypes, QuietBefore
      <3>2. state[c] # NoState
        BY <3>1 DEF BootInv, IdtBuilt, Granarys, NoState
      <3>3. IdtServes
        BY <3>1 DEF BootInv, IdtBuilt
      <3> QED BY Zenon, <3>1, <3>2, <3>3 DEF IdtServes
    <2>3. IdtIsBuiltOnce
      BY Zenon DEF BootInv, BootTypes, IdtBuilt, IdtIsBuiltOnce
    <2>4. SyscallsResolve
      BY DEF BootInv, BootTypes, RunType, TableFilled, SyscallsResolve
    <2> QED BY Zenon, <2>1, <2>2, <2>3, <2>4 DEF TakeOverIsSafe
  <1> QED BY <1>1, BootInvariant, PTL
=============================================================================
