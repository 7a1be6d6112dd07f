------------------------------ MODULE Encoding ------------------------------
(***************************************************************************)
(* How a mangled instruction list becomes bytes of the code cache          *)
(* (basic_block::translate): room is found for the largest size that       *)
(* estimate_max_size allows, instruction_list_mangler::align pads the      *)
(* branches that will be patched so that no 32-bit offset crosses a cache  *)
(* line, and instruction_list::encode lays the list out.  Afterwards       *)
(* patch_instruction overwrites offsets while other CPUs execute them.     *)
(***************************************************************************)
EXTENDS Integers, Sequences, SequencesExt

CONSTANTS Lists,      \* instruction lists to encode, one after the other
          CacheLine,  \* CACHE_LINE_SIZE
          SlabSize    \* of the fragment allocator

VARIABLES slab,       \* bytes used of the slab that is in use
          estimate,   \* room that was asked for
          code,       \* the list that was encoded last, aligned
          start,      \* where it starts in the slab, and its size
          pc,         \* the place of each instruction: its note field
          rel,        \* the two halves of each branch's offset
          read        \* what a CPU that executed a branch saw of its offset

vars == <<slab, estimate, code, start, pc, rel, read>>

\* An instruction: size is that of the encoding without a branch hint. Branches
\* name the label that they go to, or "stub".
In(op, size, patchable, hint, name) ==
    [op |-> op, size |-> size, patchable |-> patchable, hint |-> hint, name |-> name]

encoded_size(in) == in.size + (IF in.hint THEN 1 ELSE 0)
TotalSize(ls) == FoldLeft(LAMBDA n, in : n + encoded_size(in), 0, ls)

-----------------------------------------------------------------------------

estimate_max_size(ls) ==
    FoldLeft(LAMBDA n, in : n + encoded_size(in) + (IF in.patchable THEN 8 ELSE 0), 0, ls)

Nop(n) == In("nop", n, FALSE, FALSE, "none")

insert_nops_after(n) ==
    CASE n = 0 -> <<>>
      [] n \in 1 .. 3 -> <<Nop(n)>>
      [] OTHER -> <<In("jmp", 2, FALSE, FALSE, "after nops")>> \o [i \in 1 .. n - 2 |-> Nop(1)]
                  \o <<In("label", 0, FALSE, FALSE, "after nops")>>

opcode_size(in) == IF in.op = "jmp" THEN 1 ELSE 2

\* As Pad would be if it looked at the opcode only.
Pad_OpcodeOnly(in, curr_align) ==
    LET offset == curr_align % CacheLine
    IN  IF \/ ~in.patchable
           \/ CacheLine >= offset + opcode_size(in)
           \/ CacheLine - offset <= opcode_size(in)
        THEN <<in>>
        ELSE insert_nops_after(CacheLine - offset - opcode_size(in)) \o <<in>>

\* One pass through the loop of align: the instruction with what is put
\* before it. A conditional branch takes one byte of padding as a prefix.
Pad(in, curr_align) ==
    LET offset == curr_align % CacheLine
        forward == CacheLine - offset - opcode_size(in)
    IN  IF ~in.patchable \/ CacheLine >= offset + in.size \/ forward <= 0
        THEN <<in>>
        ELSE IF in.op = "jcc"
        THEN insert_nops_after(forward - 1) \o <<[in EXCEPT !.hint = TRUE]>>
        ELSE insert_nops_after(forward) \o <<in>>

\* Hints of the original code are stripped.
align(ls, curr_align) ==
    FoldLeft(LAMBDA out, in : out \o Pad([in EXCEPT !.hint = FALSE], curr_align + TotalSize(out)),
             <<>>, ls)

\* The note fields after the first pass.
Places(ls, at) == [i \in DOMAIN ls |-> at + TotalSize(SubSeq(ls, 1, i - 1))]

\* A local branch goes to the nearest following label of its name, or else to
\* the first one.
LabelOf(ls, i) ==
    LET after == {k \in i .. Len(ls) : ls[k].op = "label" /\ ls[k].name = ls[i].name}
        all == {k \in DOMAIN ls : ls[k].op = "label" /\ ls[k].name = ls[i].name}
        S == IF after # {} THEN after ELSE all
    IN  CHOOSE k \in S : \A j \in S : k <= j

IsBranch(in) == in.op \in {"jmp", "jcc"}

\* The second pass encodes local branches again, with the resolved addresses.
encode(ls, at) ==
    [i \in DOMAIN ls |->
        IF ~IsBranch(ls[i]) THEN <<"none", "none">>
        ELSE IF ls[i].name = "stub" THEN <<"stub", "stub">>
        ELSE <<Places(ls, at)[LabelOf(ls, i)], Places(ls, at)[LabelOf(ls, i)]>>]

-----------------------------------------------------------------------------

Init ==
    /\ slab \in 0 .. SlabSize
    /\ estimate = 0 /\ code = <<>> /\ start = [at |-> 0, size |-> 0, aligned |-> 0]
    /\ pc = <<>> /\ rel = <<>>
    /\ read = <<"stub", "stub">>

\* allocate_array: in the slab, or in a new one.
Room(used, n) == IF used + n <= SlabSize THEN used ELSE 0

translate ==
    /\ code = <<>>
    /\ \E ls \in Lists :
        LET max == estimate_max_size(ls)
            estimator == Room(slab, max)
            aligned == align(ls, estimator % CacheLine)
            size == TotalSize(aligned)
            at == Room(estimator, size)
        IN  /\ estimate' = max
            /\ code' = aligned
            /\ start' = [at |-> at, size |-> size, aligned |-> estimator]
            /\ slab' = at + size
            /\ pc' = Places(aligned, at)
            /\ rel' = encode(aligned, at)
    /\ UNCHANGED read

Rel32(i) == pc[i] + encoded_size(code[i]) - 4
CrossesLine(i) == Rel32(i) \div CacheLine # (Rel32(i) + 3) \div CacheLine

\* What a store to the offset may leave: a store is one step only within a
\* cache line.
Stores(i) ==
    IF CrossesLine(i)
    THEN {[rel EXCEPT ![i][h] = "target"] : h \in {k \in 1 .. 2 : rel[i][k] # "target"}}
    ELSE {[rel EXCEPT ![i] = <<"target", "target">>]}

patch_instruction ==
    /\ \E i \in DOMAIN code :
        /\ code[i].patchable /\ rel[i] # <<"target", "target">>
        /\ rel' \in Stores(i)
    /\ UNCHANGED <<slab, estimate, code, start, pc, read>>

\* Another CPU executes the branch.
Execute ==
    /\ \E i \in DOMAIN code : code[i].patchable /\ read' = rel[i]
    /\ UNCHANGED <<slab, estimate, code, start, pc, rel>>

Next == translate \/ patch_instruction \/ Execute

Spec == Init /\ [][Next]_vars

-----------------------------------------------------------------------------

\* A CPU that executes a branch while it is patched goes to where it led
\* before or to where it leads now, never elsewhere.
TargetsAreWhole ==
    read[1] = read[2]

\* The list fits in the room that was estimated, so that it lies where align
\* supposed; and every local branch, the ones that jump over padding
\* included, leads to its label.
EncodingFits ==
    code # <<>> =>
        /\ start.size <= estimate
        /\ start.at = start.aligned /\ start.at + start.size <= SlabSize
        /\ \A i \in DOMAIN code : IsBranch(code[i]) /\ ~code[i].patchable =>
            \E k \in DOMAIN code : /\ code[k].op = "label" /\ code[k].name = code[i].name
                                   /\ rel[i] = <<pc[k], pc[k]>>
=============================================================================
