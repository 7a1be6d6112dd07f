---------------------------- MODULE FaultPolicies ----------------------------
(***************************************************************************)
(* The policies of clients that watch what they must. The RCU debugger     *)
(* (rcudbg/instrument.cc) does not watch code outside of read-side critical *)
(* sections (rcu_null), nor does everything_watched_aug any code at first  *)
(* (watchpoint_null_policy): a watched address faults there, and the block *)
(* is upgraded to a watched one by patching the short jump at its start.   *)
(* Code inside of a section runs under read_critical_section<depth>.       *)
(* Several CPUs run the same blocks.                                       *)
(***************************************************************************)
EXTENDS Integers, Sequences, SequencesExt, FiniteSetsExt, TLC

CONSTANTS Client,      \* "rcudbg" or "aug"
          Cpus,
          Functions,   \* sequences of instructions [op, to]
          Entries      \* functions that are called from elsewhere

VARIABLES cache,       \* the translated blocks, by place and policy
          patched,     \* blocks under rcu_null whose first jump is patched
          cpu,         \* where each CPU is
          native       \* where it would be without Granary, and its section depth

vars == <<cache, patched, cpu, native>>

\* policy_for_depth gives rcu_null for 0; rcu_watched is no depth's policy.
Watched == -1

\* Not a policy: code that runs outside of the code cache.
Native == -2

Instr(at) == Functions[at[1]][at[2]]
After(at) == <<at[1], at[2] + 1>>

\* The block that begins at a place: calls do not end it.
Block(at) ==
    LET f == Functions[at[1]]
        end == Min({i \in at[2] .. Len(f) : f[i].op \in {"ret", "jmp"}})
    IN  [k \in 1 .. end - at[2] + 1 |-> <<at[1], at[2] + k - 1>>]

\* An instruction in the code cache: pol is the policy of its target, d the
\* depth of the section that it is taken to be in, seen whether watched
\* addresses are tested for.
Item(op, at, pol, d, seen) == [op |-> op, at |-> at, pol |-> pol, d |-> d, seen |-> seen]

-----------------------------------------------------------------------------
(* Translation                                                             *)

\* The depth after a call of rcu_read_lock or rcu_read_unlock.
rcu_instrument_cti(op, d) ==
    Max({0, d + (CASE op = "lock" -> 1 [] op = "unlock" -> -1 [] OTHER -> 0)})

\* Instructions are kept until the depth becomes or ceases to be zero; the
\* rest is then reached by a jump, under the policy for the new depth.
Visit(at, depth) ==
    LET b == Block(at)
        d[k \in 0 .. Len(b)] == IF k = 0 THEN depth ELSE rcu_instrument_cti(Instr(b[k]).op, d[k - 1])
        chops == {k \in DOMAIN b : (d[k] = 0) # (depth = 0)}
        n == IF chops = {} THEN Len(b) ELSE Min(chops)
        kept == [k \in 1 .. n |-> Item(Instr(b[k]).op, b[k], d[k], d[k - 1], depth > 0)]
    IN  IF chops = {} THEN kept ELSE Append(kept, Item("goto", After(b[n]), d[n], d[n], FALSE))

rcu_null(at) == <<Item("patch", at, Watched, 0, FALSE)>> \o Visit(at, 0)

read_critical_section(at, depth) == Visit(at, depth)

\* Up to a call of rcu_read_lock or rcu_read_unlock, which is left to rcu_null.
rcu_watched(at) ==
    LET b == Block(at)
        n == SelectInSeq(b, LAMBDA x : Instr(x).op \in {"lock", "unlock"})
        Seen(x) == Item(Instr(x).op, x, 0, 0, TRUE)
    IN  IF n = 0 THEN [k \in DOMAIN b |-> Seen(b[k])]
        ELSE [k \in 1 .. n - 1 |-> Seen(b[k])] \o <<Item("goto", b[n], 0, 0, FALSE)>>

\* The policies of everything_watched_aug; code stays watched.
watchpoint_null_policy(at) ==
    <<Item("patch", at, Watched, 0, FALSE)>>
        \o [k \in DOMAIN Block(at) |-> Item(Instr(Block(at)[k]).op, Block(at)[k], 0, 0, FALSE)]

watchpoint_watched_policy(at) ==
    [k \in DOMAIN Block(at) |-> Item(Instr(Block(at)[k]).op, Block(at)[k], Watched, 0, TRUE)]

NativeCode(at) ==
    [k \in DOMAIN Block(at) |-> Item(Instr(Block(at)[k]).op, Block(at)[k], Native, 0, FALSE)]

Code(at, pol) ==
    CASE Client = "aug" ->
            IF pol = Watched THEN watchpoint_watched_policy(at) ELSE watchpoint_null_policy(at)
      [] pol = Watched -> rcu_watched(at)
      [] pol = 0 -> rcu_null(at)
      [] OTHER -> read_critical_section(at, pol)

IsCti(item) == item.op # "access"

\* The copy of what a CPU faulted in, up to the next branch.
watched_tail(code, i) ==
    LET n == Min({k \in i .. Len(code) : IsCti(code[k])})
    IN  [k \in 1 .. n - i |-> [code[i + k - 1] EXCEPT !.seen = TRUE]]
        \o <<Item("back", <<0, n>>, 0, 0, FALSE)>>

\* A place in the code cache; tail is where the tail of a block begins, or 0.
Place(at, pol, tail, i) == [at |-> at, pol |-> pol, tail |-> tail, i |-> i]
CodeAt(p) ==
    LET code == IF p.pol = Native THEN NativeCode(p.at) ELSE cache[<<p.at, p.pol>>]
    IN  IF p.tail = 0 THEN code ELSE watched_tail(code, p.tail)
InCache(c) == cpu[c].at.pol = Native \/ <<cpu[c].at.at, cpu[c].at.pol>> \in DOMAIN cache
Current(c) == CodeAt(cpu[c].at)[cpu[c].at.i]

-----------------------------------------------------------------------------

Nowhere == Place(<<0, 0>>, 0, 0, 0)
Idle == [state |-> "idle", at |-> Nowhere, stack |-> <<>>, decoded |-> 0]

Init ==
    /\ cache = <<>>
    /\ patched = {}
    /\ cpu = [c \in Cpus |-> Idle]
    /\ native = [c \in Cpus |-> [at |-> <<0, 0>>, stack |-> <<>>, depth |-> 0, faults |-> 0]]

Enter(c) ==
    /\ cpu[c] = Idle
    /\ \E f \in Entries, pol \in IF Client = "aug" THEN {0, Native} ELSE {0} :
        /\ cpu' = [cpu EXCEPT ![c].state = "run", ![c].at = Place(<<f, 1>>, pol, 0, 1)]
        /\ native' = [native EXCEPT ![c] = [at |-> <<f, 1>>, stack |-> <<>>, depth |-> 0, faults |-> 0]]
    /\ UNCHANGED <<cache, patched>>

\* The direct branch lookup: a block is translated before it is first run.
find(c) ==
    /\ cpu[c].state = "run" /\ ~InCache(c)
    /\ LET p == cpu[c].at IN cache' = cache @@ (<<p.at, p.pol>> :> Code(p.at, p.pol))
    /\ UNCHANGED <<patched, cpu, native>>

Runs(c, ops) == cpu[c].state = "run" /\ InCache(c) /\ Current(c).op \in ops
Go(c, place) == cpu' = [cpu EXCEPT ![c].at = place]
Continue(c) == Go(c, [cpu[c].at EXCEPT !.i = @ + 1])
Step(n) == [n EXCEPT !.at = After(@), !.faults = 0]

\* Instructions that access memory; a watched address faults unless the
\* instrumentation tests for it. handle_interrupt then begins by decoding the
\* short jump, whose target is the first instruction unless it is patched.
Access(c) ==
    /\ Runs(c, {"access"})
    /\ \/ /\ Continue(c)
          /\ native' = [native EXCEPT ![c] = Step(@)]
       \/ /\ ~Current(c).seen
          /\ cpu' = [cpu EXCEPT ![c].state = "fault",
                                ![c].decoded = IF cpu[c].at.at \in patched THEN 0 ELSE 2]
          /\ native' = [native EXCEPT ![c].faults = @ + 1]
    /\ UNCHANGED <<cache, patched>>

\* The wrappers of rcu_read_lock and rcu_read_unlock.
Section(c) ==
    /\ Runs(c, {"lock", "unlock"})
    /\ Continue(c)
    /\ native' = [native EXCEPT ![c] = [Step(@) EXCEPT
                    !.depth = IF Instr(native[c].at).op = "lock" THEN @ + 1 ELSE @ - 1]]
    /\ UNCHANGED <<cache, patched>>

Call(c) ==
    /\ Runs(c, {"call"})
    /\ LET to == <<Instr(Current(c).at).to, 1>>
       IN  /\ cpu' = [cpu EXCEPT ![c].at = Place(to, Current(c).pol, 0, 1),
                                 ![c].stack = Append(@, [cpu[c].at EXCEPT !.i = @ + 1])]
           /\ native' = [native EXCEPT ![c].at = <<Instr(@).to, 1>>,
                                       ![c].stack = Append(@, After(native[c].at))]
    /\ UNCHANGED <<cache, patched>>

\* Return addresses are addresses in the code cache.
Return(c) ==
    /\ Runs(c, {"ret"})
    /\ IF cpu[c].stack = <<>>
       THEN cpu' = [cpu EXCEPT ![c] = Idle] /\ UNCHANGED native
       ELSE /\ cpu' = [cpu EXCEPT ![c].at = Last(cpu[c].stack), ![c].stack = Front(@)]
            /\ native' = [native EXCEPT ![c].at = Last(native[c].stack), ![c].stack = Front(@)]
    /\ UNCHANGED <<cache, patched>>

\* A jump of the program, one that was added where a block was chopped, the
\* one at the end of a tail, or the two at the start of a block.
Jump(c) ==
    /\ Runs(c, {"jmp", "goto", "back", "patch"})
    /\ LET in == Current(c)
       IN  CASE in.op = "jmp" -> /\ Go(c, Place(<<in.at[1], Instr(in.at).to>>, in.pol, 0, 1))
                                 /\ native' = [native EXCEPT ![c].at = <<@[1], Instr(@).to>>]
             [] in.op = "goto" -> Go(c, Place(in.at, in.pol, 0, 1)) /\ UNCHANGED native
             [] in.op = "back" -> /\ Go(c, [cpu[c].at EXCEPT !.tail = 0, !.i = in.at[2]])
                                  /\ UNCHANGED native
             [] in.op = "patch" -> /\ IF in.at \in patched THEN Go(c, Place(in.at, Watched, 0, 1))
                                      ELSE Continue(c)
                                   /\ UNCHANGED native
    /\ UNCHANGED <<cache, patched>>

\* As handle_interrupt would be if it always resumed at the start.
handle_interrupt_AtStart(c) ==
    /\ Client = "rcudbg" /\ cpu[c].state = "fault"
    /\ patched' = patched \cup {cpu[c].at.at}
    /\ cpu' = [cpu EXCEPT ![c].state = "run", ![c].at.i = 1]
    /\ UNCHANGED <<cache, native>>

\* Whether the jump is patched is looked at after it was decoded.
handle_interrupt(c) ==
    /\ Client = "rcudbg" /\ cpu[c].state = "fault"
    /\ LET p == cpu[c].at
           first_ins == IF p.at \in patched THEN 0 ELSE cpu[c].decoded
       IN  cpu' = [cpu EXCEPT ![c].state = "run",
                              ![c].at = IF first_ins = p.i THEN [p EXCEPT !.i = 1]
                                        ELSE Place(p.at, p.pol, p.i, 1)]
    /\ patched' = patched \cup {cpu[c].at.at}
    /\ UNCHANGED <<cache, native>>

\* everything_watched_aug finds the upgraded block first, and then patches the
\* jump, unless it is patched already.
handle_interrupt_find(c) ==
    /\ Client = "aug" /\ cpu[c].state = "fault" /\ cpu[c].at.pol = 0
    /\ LET at == cpu[c].at.at IN cache' = cache @@ (<<at, Watched>> :> Code(at, Watched))
    /\ cpu' = [cpu EXCEPT ![c].state = "found"]
    /\ UNCHANGED <<patched, native>>

handle_interrupt_patch(c) ==
    /\ cpu[c].state = "found"
    /\ patched' = patched \cup {cpu[c].at.at}
    /\ cpu' = [cpu EXCEPT ![c].state = "patched"]
    /\ UNCHANGED <<cache, native>>

\* It goes on in the upgraded block, or in a tail that it shares with CPUs that
\* faulted at the same place.
handle_interrupt_resume(c) ==
    /\ cpu[c].state = "patched"
    /\ LET p == cpu[c].at
       IN  cpu' = [cpu EXCEPT ![c].state = "run",
                              ![c].at = IF p.i = 2 THEN Place(p.at, Watched, 0, 1)
                                        ELSE Place(p.at, p.pol, p.i, 1)]
    /\ UNCHANGED <<cache, patched, native>>

\* Native code that faults goes on in the code cache.
handle_kernel_interrupt(c) ==
    /\ Client = "aug" /\ cpu[c].state = "fault" /\ cpu[c].at.pol = Native
    /\ cpu' = [cpu EXCEPT ![c].state = "run", ![c].at = Place(Current(c).at, Watched, 0, 1)]
    /\ UNCHANGED <<cache, patched, native>>

Run(c) ==
    \/ find(c) \/ Access(c) \/ Section(c) \/ Call(c) \/ Return(c) \/ Jump(c)
    \/ handle_interrupt(c)
    \/ handle_interrupt_find(c) \/ handle_interrupt_patch(c) \/ handle_interrupt_resume(c)
    \/ handle_kernel_interrupt(c)

Next == \E c \in Cpus : Enter(c) \/ Run(c)

Spec == Init /\ [][Next]_vars

-----------------------------------------------------------------------------

\* Instructions of the program, rather than those that were added to it.
OfProgram(op) == op \in {"access", "lock", "unlock", "call", "ret", "jmp"}

\* Chopping, upgrading and the resumption in a tail neither skip nor repeat
\* an instruction of the program, while other CPUs patch the same block; the
\* depth that the policy stands for is that of the section the CPU is in; and
\* an access faults at most once before it is made.
PolicyFollowsProgram ==
    \A c \in Cpus : cpu[c].state # "idle" =>
        /\ native[c].faults <= 1
        /\ InCache(c) /\ OfProgram(Current(c).op) =>
              Current(c).at = native[c].at /\ Current(c).d = native[c].depth

\* A block is patched to lead to its upgraded block once that one exists.
PatchedLeadsOn == Client = "aug" => \A at \in patched : <<at, Watched>> \in DOMAIN cache
=============================================================================
