------------------------------ MODULE FlowGraph -----------------------------
(***************************************************************************)
(* The cfg client (clients/cfg): the control-flow graph that is recorded   *)
(* while CPUs run. Each translated block has a basic_block_state, which is *)
(* pushed on a list without a lock, counts executions without one, and     *)
(* records the targets of the block's indirect branches under one.         *)
(***************************************************************************)
EXTENDS Integers, Sequences, SequencesExt, FiniteSets

CONSTANTS Cpus,
          Ctis,          \* The CTIs of each block: "direct", "jcc", "indirect", "return".
          States,        \* Memory for basic_block_states: numbers.
          Targets,
          FirstSize,     \* Of indirect_targets: 4 in instrument_indirect_cti.
          MaxExecutions,
          Null

VARIABLES BASIC_BLOCKS,
          bb,            \* The basic_block_states.
          cache,         \* The code cache: the state of each block's translation.
          cpu,
          ran,           \* What happened: executions of each state,
          taken,         \*   the targets of each indirect CTI,
          grown          \*   and those that made the set of them grow.

vars == <<BASIC_BLOCKS, bb, cache, cpu, ran, taken, grown>>

Blocks == DOMAIN Ctis
Positions == UNION {DOMAIN Ctis[k] : k \in Blocks}

Unused == [block |-> Null, next |-> Null, num_executions |-> 0,
           num_fall_through_executions |-> 0, indirect_ctis |-> <<>>]

\* at is the number of the CTI, value a register: a count or a pointer.
Idle == [pc |-> "idle", s |-> Null, at |-> 0, value |-> 0, target |-> Null]

Init ==
    /\ BASIC_BLOCKS = Null
    /\ bb = [s \in States |-> Unused]
    /\ cache = [k \in Blocks |-> Null]
    /\ cpu = [c \in Cpus |-> Idle]
    /\ ran = [s \in States |-> [block |-> 0, fall |-> 0]]
    /\ taken = [s \in States |-> [i \in Positions |-> {}]]
    /\ grown = [s \in States |-> [i \in Positions |-> {}]]

At(c, pc) == cpu[c].pc = pc
Goto(c, pc) == cpu' = [cpu EXCEPT ![c].pc = pc]

-----------------------------------------------------------------------------
(* Translation                                                             *)

\* Everything but a direct branch has an indirect_cti, zeroed.
Counted(k) == SelectSeq(Ctis[k], LAMBDA x : x \notin {"direct", "jcc"})

\* The stubs of indirect calls and jumps are visited in the order of the block,
\* and each takes the first indirect_cti that has no targets yet.
Instrumented(k) ==
    LET n == Len(SelectSeq(Ctis[k], LAMBDA x : x = "indirect"))
    IN  [i \in DOMAIN Counted(k) |->
            [last |-> Null, lock |-> FALSE,
             targets |-> IF i <= n THEN [j \in 1 .. FirstSize |-> Null] ELSE <<>>]]

Free == {s \in States : bb[s].block = Null}

visit_app_instructions(c, k) ==
    /\ At(c, "idle") /\ cache[k] = Null /\ Free # {}
    /\ LET s == Min(Free)
       IN  /\ bb' = [bb EXCEPT ![s].block = k, ![s].indirect_ctis = Instrumented(k)]
           /\ cpu' = [cpu EXCEPT ![c].pc = "store", ![c].s = s]
    /\ UNCHANGED <<BASIC_BLOCKS, cache, ran, taken, grown>>

\* code_cache::find keeps the block of another CPU and discards its own.
store(c) ==
    /\ At(c, "store")
    /\ LET s == cpu[c].s
           k == bb[s].block
       IN  \/ /\ cache[k] = Null
              /\ cache' = [cache EXCEPT ![k] = s]
              /\ Goto(c, "load")
              /\ UNCHANGED bb
           \/ /\ cache[k] # Null
              /\ bb' = [bb EXCEPT ![s] = Unused]
              /\ cpu' = [cpu EXCEPT ![c] = Idle]
              /\ UNCHANGED cache
    /\ UNCHANGED <<BASIC_BLOCKS, ran, taken, grown>>

\* commit_to_basic_block: the loop of a load, and of a compare and exchange.
commit_load(c) ==
    /\ At(c, "load")
    /\ bb' = [bb EXCEPT ![cpu[c].s].next = BASIC_BLOCKS]
    /\ cpu' = [cpu EXCEPT ![c].pc = "exchange", ![c].value = BASIC_BLOCKS]
    /\ UNCHANGED <<BASIC_BLOCKS, cache, ran, taken, grown>>

commit_exchange(c) ==
    /\ At(c, "exchange")
    /\ \/ /\ BASIC_BLOCKS = cpu[c].value
          /\ BASIC_BLOCKS' = cpu[c].s
          /\ cpu' = [cpu EXCEPT ![c] = Idle]
       \/ /\ BASIC_BLOCKS # cpu[c].value
          /\ Goto(c, "load")
          /\ UNCHANGED BASIC_BLOCKS
    /\ UNCHANGED <<bb, cache, ran, taken, grown>>

-----------------------------------------------------------------------------
(* Execution                                                               *)

Executions == FoldSet(LAMBDA s, n : n + ran[s].block, 0, States)

Enter(c, k) ==
    /\ At(c, "idle") /\ cache[k] # Null /\ Executions < MaxExecutions
    /\ cpu' = [cpu EXCEPT ![c] = [Idle EXCEPT !.pc = "inc", !.s = cache[k]]]
    /\ ran' = [ran EXCEPT ![cache[k]].block = @ + 1]
    /\ UNCHANGED <<BASIC_BLOCKS, bb, cache, taken, grown>>

\* The inc of insert_exec_count_before and of visit_app_instructions has no lock
\* prefix: it reads, and then writes.
inc(c) ==
    /\ At(c, "inc")
    /\ cpu' = [cpu EXCEPT ![c].pc = "write", ![c].value = bb[cpu[c].s].num_executions]
    /\ UNCHANGED <<BASIC_BLOCKS, bb, cache, ran, taken, grown>>

inc_write(c) ==
    /\ At(c, "write")
    /\ bb' = [bb EXCEPT ![cpu[c].s].num_executions = cpu[c].value + 1]
    /\ cpu' = [cpu EXCEPT ![c].pc = "cti", ![c].at = 1]
    /\ UNCHANGED <<BASIC_BLOCKS, cache, ran, taken, grown>>

Ops(c) == Ctis[bb[cpu[c].s].block]
Op(c) == Ops(c)[cpu[c].at]

\* A block that has no further CTI is left, and so is it by one.
Done(c) == cpu' = [cpu EXCEPT ![c] = IF cpu[c].at < Len(Ops(c)) THEN [@ EXCEPT !.pc = "cti", !.at = @ + 1]
                                     ELSE Idle]

\* A direct call or a return, or a conditional branch that is taken.
Branch(c) ==
    /\ At(c, "cti") /\ Op(c) \in {"direct", "return", "jcc"}
    /\ IF Op(c) = "jcc" THEN cpu' = [cpu EXCEPT ![c] = Idle] ELSE Done(c)
    /\ UNCHANGED <<BASIC_BLOCKS, bb, cache, ran, taken, grown>>

\* A conditional branch that is not taken, which is counted behind it.
FallThrough(c) ==
    /\ At(c, "cti") /\ Op(c) = "jcc"
    /\ cpu' = [cpu EXCEPT ![c].pc = "fall", ![c].value = bb[cpu[c].s].num_fall_through_executions]
    /\ ran' = [ran EXCEPT ![cpu[c].s].fall = @ + 1]
    /\ UNCHANGED <<BASIC_BLOCKS, bb, cache, taken, grown>>

FallThrough_write(c) ==
    /\ At(c, "fall")
    /\ bb' = [bb EXCEPT ![cpu[c].s].num_fall_through_executions = cpu[c].value + 1]
    /\ Done(c)
    /\ UNCHANGED <<BASIC_BLOCKS, cache, ran, taken, grown>>

\* The indirect_cti that a stub's code refers to.
Index(k, i) == Len(SelectSeq(SubSeq(Ctis[k], 1, i), LAMBDA x : x = "indirect"))
Mine(c) == Index(bb[cpu[c].s].block, cpu[c].at)
Cti(c) == bb[cpu[c].s].indirect_ctis[Mine(c)]

\* The target is compared with last_indirect_target.
Compare(c, t) ==
    /\ At(c, "cti") /\ Op(c) = "indirect"
    /\ taken' = [taken EXCEPT ![cpu[c].s][cpu[c].at] = @ \cup {t}]
    /\ IF Cti(c).last = t THEN Done(c)
       ELSE cpu' = [cpu EXCEPT ![c].pc = "last", ![c].target = t]
    /\ UNCHANGED <<BASIC_BLOCKS, bb, cache, ran, grown>>

Update(c) ==
    /\ At(c, "last")
    /\ bb' = [bb EXCEPT ![cpu[c].s].indirect_ctis[Mine(c)].last = cpu[c].target]
    /\ Goto(c, "acquire")
    /\ UNCHANGED <<BASIC_BLOCKS, cache, ran, taken, grown>>

Acquire(c) ==
    /\ At(c, "acquire") /\ ~Cti(c).lock
    /\ bb' = [bb EXCEPT ![cpu[c].s].indirect_ctis[Mine(c)].lock = TRUE]
    /\ Goto(c, "add")
    /\ UNCHANGED <<BASIC_BLOCKS, cache, ran, taken, grown>>

\* The first slot that is empty or has the target is used; without one, the
\* slots are copied into twice as many.
Added(ts, t) ==
    LET i == SelectInSeq(ts, LAMBDA x : x \in {Null, t})
    IN  IF i # 0 THEN [ts EXCEPT ![i] = t] ELSE ts \o [j \in DOMAIN ts |-> Null]

add_indirect_target(c) ==
    /\ At(c, "add")
    /\ LET t == cpu[c].target
           new == Added(Cti(c).targets, t)
       IN  /\ bb' = [bb EXCEPT ![cpu[c].s].indirect_ctis[Mine(c)] =
                        [@ EXCEPT !.targets = new, !.lock = FALSE]]
           /\ grown' = [grown EXCEPT ![cpu[c].s][cpu[c].at] =
                            IF Len(new) # Len(Cti(c).targets) THEN @ \cup {t} ELSE @]
    /\ Done(c)
    /\ UNCHANGED <<BASIC_BLOCKS, cache, ran, taken>>

Step(c) ==
    \/ store(c) \/ commit_load(c) \/ commit_exchange(c)
    \/ inc(c) \/ inc_write(c) \/ Branch(c) \/ FallThrough(c) \/ FallThrough_write(c)
    \/ \E t \in Targets : Compare(c, t)
    \/ Update(c) \/ Acquire(c) \/ add_indirect_target(c)

Next ==
    \E c \in Cpus :
        \/ \E k \in Blocks : visit_app_instructions(c, k) \/ Enter(c, k)
        \/ Step(c)

Spec == Init /\ [][Next]_vars

-----------------------------------------------------------------------------
(* What report prints                                                      *)

\* The states on the list, from its head.
Listed ==
    LET From[n \in 0 .. Cardinality(States)] ==
            IF n = 0 THEN <<BASIC_BLOCKS>>
            ELSE LET l == From[n - 1]
                 IN  IF Last(l) = Null THEN l ELSE Append(l, bb[Last(l)].next)
    IN  From[Cardinality(States)]

\* report_bb numbers the indirect branches that are not returns, and prints
\* targets up to an empty slot.
Reported(s, i) ==
    LET ts == bb[s].indirect_ctis[Index(bb[s].block, i)].targets
        n == SelectInSeq(ts, LAMBDA x : x = Null)
    IN  IF n = 0 THEN ts ELSE SubSeq(ts, 1, n - 1)

-----------------------------------------------------------------------------

IsIndirect(s, i) ==
    bb[s].block # Null /\ i \in DOMAIN Ctis[bb[s].block] /\ Ctis[bb[s].block][i] = "indirect"

Adding(s, i, t) ==
    \E c \in Cpus : /\ cpu[c].pc \in {"last", "acquire", "add"}
                    /\ cpu[c].s = s /\ cpu[c].at = i /\ cpu[c].target = t

\* Every block in the code cache is on the list once, or its CPU is about to put
\* it there, and no discarded one is, whichever CPUs commit at the same time;
\* counts are never above what was executed, and those of a block that was left
\* are not zero; a target is printed once, only if it was taken, and every one
\* that was taken is printed or being added, but for those that made the set
\* grow.
GraphIsRight ==
    /\ LET l == Listed
           on == {s \in States : Contains(l, s)}
           committing == {cpu[c].s : c \in {c \in Cpus : cpu[c].pc \in {"load", "exchange"}}}
       IN  /\ Last(l) = Null /\ IsInjective(l)
           /\ {cache[k] : k \in Blocks} \ {Null} = on \cup committing
           /\ on \cap committing = {}
    /\ \A s \in States :
        /\ bb[s].num_executions <= ran[s].block
        /\ bb[s].num_fall_through_executions <= ran[s].fall
        /\ bb[s].num_executions = 0 =>
              ran[s].block = Cardinality({c \in Cpus : cpu[c].s = s /\ cpu[c].pc \in {"inc", "write"}})
    /\ \A s \in States, i \in Positions : IsIndirect(s, i) =>
        /\ IsInjective(Reported(s, i))
        /\ Range(Reported(s, i)) \subseteq taken[s][i]
        /\ \A t \in taken[s][i] \ grown[s][i] : Contains(Reported(s, i), t) \/ Adding(s, i, t)

\* "ensure that it's in the set" (instrument.cc): so is every target.
TargetsAreRecorded ==
    \A s \in States, i \in Positions : IsIndirect(s, i) =>
        \A t \in taken[s][i] : Contains(Reported(s, i), t) \/ Adding(s, i, t)
=============================================================================
