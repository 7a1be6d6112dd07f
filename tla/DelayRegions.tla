---------------------------- MODULE DelayRegions ----------------------------
(***************************************************************************)
(* Interrupt delay regions (CONFIG_FEATURE_INTERRUPT_DELAY): a client      *)
(* marks the first and the last instruction of code that must not be       *)
(* interrupted.  basic_block.cc records the state of every byte of the     *)
(* block; when an interrupt comes inside a region, interrupt.cc lets a     *)
(* copy of the region run to its end with interrupts disabled, and issues  *)
(* the interrupt again there.                                              *)
(*                                                                         *)
(* A block is a sequence of instructions [op, size, mark, to]; to is the   *)
(* instruction that a branch leads to.  A behaviour runs one block, with   *)
(* one interrupt.                                                          *)
(***************************************************************************)
EXTENDS Integers, Sequences, SequencesExt

CONSTANT Blocks

VARIABLES block,    \* the instructions
          copy,     \* cpu->interrupt_delay_handler: a list of instructions
          end,      \* delay_end, as an offset in the block
          at,       \* what is executed next, in the block or in the copy
          irq       \* NotYet, Delayed, or the offset where it was delivered

vars == <<block, copy, end, at, irq>>

NotYet == -1
Delayed == -2

In(op, size, mark, to) == [op |-> op, size |-> size, mark |-> mark, to |-> to]

\* The offset of instruction i, and of the end of the block.
Offset(b, i) == FoldLeft(LAMBDA n, in : n + in.size, 0, SubSeq(b, 1, i - 1))
NumBytes(b) == Offset(b, Len(b) + 1)

-----------------------------------------------------------------------------
(* basic_block.cc: the state of every byte                                 *)

\* As get_instruction_state would be if a marked last instruction were not
\* part of the region.
get_instruction_state_Short(in, prev) ==
    CASE in.mark = "both"  -> "NATIVE"
      [] in.mark = "begin" -> "BEGIN"
      [] in.mark = "end"   -> "NATIVE"
      [] OTHER -> IF prev \in {"BEGIN", "CONT"} THEN "CONT" ELSE "NATIVE"

get_instruction_state(in, prev) ==
    CASE in.mark = "both"  -> "NATIVE"
      [] in.mark = "begin" -> "BEGIN"
      [] in.mark = "end"   -> "END"
      [] OTHER -> IF prev \in {"BEGIN", "CONT"} THEN "CONT" ELSE "NATIVE"

requires_state_bytes(b) == \E i \in 1 .. Len(b) : b[i].mark # "none"

set_state(states, from, to, state) ==
    [j \in DOMAIN states |-> IF from <= j /\ j < to THEN state ELSE states[j]]

\* One instruction of the loop of initialise_state_bytes.  run and prevRun are
\* num_delayed_instructions and prev_num_delayed_instructions.
StateOf(s, in) ==
    LET state   == get_instruction_state(in, s.prev)
        run     == IF state = "NATIVE" THEN 0
                   ELSE s.run + (IF in.size > 0 THEN 1 ELSE 0)
        prevRun == IF state = "NATIVE" THEN s.run ELSE s.prevRun
        next    == s.offset + in.size
        cleared == IF prevRun = 1 THEN set_state(s.states, s.prevOffset, s.offset, "NATIVE")
                   ELSE s.states
        filled  == set_state(cleared, s.offset, next,
                             IF state = "NATIVE" THEN "NATIVE" ELSE "CONT")
    IN  [states |-> CASE state = "BEGIN" -> set_state(filled, s.offset, s.offset + 1, "BEGIN")
                      [] state = "END"   -> set_state(filled, next - 1, next, "END")
                      [] OTHER           -> filled,
         run |-> run, prevRun |-> prevRun, prev |-> state,
         prevOffset |-> s.offset, offset |-> next]

initialise_state_bytes(b) ==
    FoldLeft(StateOf,
             [states |-> [j \in 0 .. NumBytes(b) |-> "NATIVE"], run |-> 0, prevRun |-> 0,
              prev |-> "NATIVE", prevOffset |-> 0, offset |-> 0], b).states

Safe(state) == state \in {"NATIVE", "BEGIN"}

\* The offsets between which the block has to be copied, or <<>>.
get_interrupt_delay_range(b, current) ==
    LET states == initialise_state_bytes(b)
        ends   == {i \in current .. NumBytes(b) - 1 : states[i] = "END"}
        begins == {i \in 0 .. current - 1 : Safe(states[i])}
    IN  IF \/ ~requires_state_bytes(b) \/ current = 0
           \/ Safe(states[current]) \/ ends = {} \/ begins = {}
        THEN <<>>
        ELSE <<Max(begins), Min(ends) + 1>>

-----------------------------------------------------------------------------
(* interrupt.cc: the copy of a region                                      *)

\* An instruction of the copy knows its place in the block; a label does not
\* take up any.
Copied(op, i) == [op |-> op, from |-> i, to |-> 0]

mangle_delayed_instruction(b, i) ==
    CASE b[i].op \in {"cli", "sti"} -> <<Copied("label", i)>>
      [] b[i].op = "popf" ->
            <<Copied("label", i), Copied("push", 0), Copied("mov", 0), Copied("and", 0),
              Copied("pop", 0), Copied("popf", 0)>>
      [] OTHER -> <<Copied(b[i].op, i)>>

\* Redirects a branch of the copy to the copy of its target; one that leads
\* elsewhere is a fault.
mangle_cti(b, ls, k) ==
    LET places == {n \in 1 .. Len(ls) : ls[n].from = b[ls[k].from].to}
    IN  [ls[k] EXCEPT !.to = Min(places)]

\* The branches among the first num_ctis instructions are redirected.
emit_delayed_interrupt(b, current, begin, finish) ==
    LET range == {i \in 1 .. Len(b) : begin <= Offset(b, i) /\ Offset(b, i) < finish}
        One(ls, i) == ls \o (IF Offset(b, i) = current THEN <<Copied("delay_in", 0)>> ELSE <<>>)
                         \o mangle_delayed_instruction(b, i)
        ls   == FoldLeft(One, <<>>, SetToSortSeq(range, <))
        ctis == Len(SelectSeq(ls, LAMBDA in : in.op = "cti"))
    IN  [k \in 1 .. Len(ls) |->
            IF k <= ctis /\ ls[k].op = "cti" THEN mangle_cti(b, ls, k) ELSE ls[k]]

-----------------------------------------------------------------------------

InBlock(i) == [where |-> "block", i |-> i]
InCopy(k) == [where |-> "copy", i |-> k]

Init ==
    /\ block \in Blocks
    /\ copy = <<>>
    /\ end = 0
    /\ at = InBlock(1)
    /\ irq = NotYet

\* handle_code_cache_interrupt; labels take no room, so that the address of a
\* label is that of the instruction behind it.
Interrupt ==
    /\ irq = NotYet
    /\ at.where = "block" /\ at.i <= Len(block) /\ block[at.i].size > 0
    /\ LET current == Offset(block, at.i)
           range   == get_interrupt_delay_range(block, current)
           ls      == emit_delayed_interrupt(block, current, range[1], range[2])
       IN  IF range = <<>>
           THEN irq' = current /\ UNCHANGED <<copy, end, at>>
           ELSE /\ irq' = Delayed
                /\ copy' = ls
                /\ end' = range[2]
                /\ at' = InCopy(CHOOSE k \in 1 .. Len(ls) : ls[k].op = "delay_in")
    /\ UNCHANGED block

\* A branch may be taken or not.
ExecuteBlock ==
    /\ at.where = "block" /\ at.i <= Len(block)
    /\ \/ at' = InBlock(at.i + 1)
       \/ block[at.i].op = "cti" /\ at' = InBlock(block[at.i].to)
    /\ UNCHANGED <<block, copy, end, irq>>

\* Behind the copy the interrupt is issued again; it then comes from delay_end.
ExecuteCopy ==
    /\ at.where = "copy"
    /\ IF at.i > Len(copy)
       THEN /\ irq' = end
            /\ at' = InBlock(CHOOSE i \in 1 .. Len(block) + 1 :
                                Offset(block, i) = end /\ (i <= Len(block) => block[i].size > 0))
       ELSE /\ \/ at' = InCopy(at.i + 1)
               \/ /\ copy[at.i].op = "cti"
                  /\ at' = IF copy[at.i].to = 0 THEN InBlock(block[copy[at.i].from].to)
                           ELSE InCopy(copy[at.i].to)
            /\ UNCHANGED irq
    /\ UNCHANGED <<block, copy, end>>

Next == Interrupt \/ ExecuteBlock \/ ExecuteCopy

Spec == Init /\ [][Next]_vars

-----------------------------------------------------------------------------

\* The regions of a block as a client marks them, as intervals of instructions;
\* one that consists of a single instruction "makes no sense", and is none.
Regions(b) ==
    {r \in (1 .. Len(b)) \X (1 .. Len(b)) :
        /\ r[1] < r[2] /\ b[r[1]].mark = "begin" /\ b[r[2]].mark = "end"
        /\ \A i \in r[1] + 1 .. r[2] - 1 : b[i].mark = "none"
        /\ Len(SelectSeq(SubSeq(b, r[1], r[2]), LAMBDA in : in.size > 0)) > 1}

\* get_interrupt_delay_range: "Returns true iff this interrupt must be delayed".
\* No interrupt reaches the kernel when part of a region has been executed.
RegionsAreAtomic ==
    irq >= 0 =>
        \A r \in Regions(block) :
            ~ (Offset(block, r[1]) < irq /\ irq < Offset(block, r[2] + 1))

\* "Control flow within the delay region stays within the delay region": while an
\* interrupt is delayed the copy is executed, at whose end it is issued again.
DelayedStaysInCopy == irq = Delayed => at.where = "copy"

=============================================================================
