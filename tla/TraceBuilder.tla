---------------------------- MODULE TraceBuilder ----------------------------
(***************************************************************************)
(* How basic_block::translate makes a trace: it decodes a block, follows   *)
(* its last jump into new blocks (visit_branches), links the branches that *)
(* stay in the trace and splits the blocks that they enter in the middle   *)
(* (fixup_branches), until nothing changes, and lays the blocks out one    *)
(* after the other.  The finished trace is then executed next to the       *)
(* program that it was made from.                                          *)
(***************************************************************************)
EXTENDS Integers, SequencesExt, FiniteSetsExt

CONSTANTS Programs,  \* [code : address -> instruction, detach, profile, kernel]
          FallThroughs \* CONFIG_FOLLOW_FALL_THROUGH_BRANCHES

VARIABLES program,
          cached,    \* addresses that are in the code cache
          trace,     \* trace_bbs: a sequence of blocks
          cursor,    \* identifier of the block that is visited next, or 0
          phase,     \* "follow", "fixup" or "run"
          changed,
          falls,     \* num_fall_throughs
          lo, hi,    \* trace_min_pc, trace_max_pc
          at,        \* the instruction of the trace that is executed
          native     \* where the program would be

vars == <<program, cached, trace, cursor, phase, changed, falls, lo, hi, at, native>>

NoPc == 0
ToPc(pc) == [k |-> "pc", n |-> pc]
ToBlock(id) == [k |-> "block", n |-> id]
ToLocal(n) == [k |-> "local", n |-> n]   \* relative to the branch
ToCache(pc) == [k |-> "cache", n |-> pc]

Instr(op, pc, to) ==
    [op |-> op, at |-> pc, to |-> to, rev |-> FALSE, fall |-> FALSE, mangled |-> FALSE]
Mangled(in) == [in EXCEPT !.mangled = TRUE]
Jmp(pc) == Instr("jmp", NoPc, ToPc(pc))

Code == program.code
IsCti(in) == in.op \in {"jmp", "jcc", "loop", "call", "ret"}

-----------------------------------------------------------------------------
(* Decoding                                                                *)

\* The binary search in the profile, whose entries are sorted.
search(array, key) ==
    LET range == 0 .. Len(array) + 1
        from[first \in range, last \in range] ==
            LET middle == (first + last) \div 2
            IN  CASE ~(first <= middle /\ middle <= last) -> NoPc
                  [] array[middle].key = key -> array[middle].value
                  [] array[middle].key < key -> from[middle + 1, last]
                  [] OTHER -> from[first, middle - 1]
    IN  from[1, Len(array)]

\* A branch that is mostly taken is reversed and its target becomes the fall-through.
profile_optimise_jcc(in, start, next) ==
    LET target == search(program.profile, start)
    IN  IF in.op # "jcc" \/ target \in {NoPc, next}
        THEN [in |-> in, next |-> next]
        ELSE [in |-> [in EXCEPT !.rev = TRUE, !.to = ToPc(next)], next |-> target]

\* loop <foo>  =>  jmp try; do: jmp <foo>; try: loop do
LoopAsJumps(in) ==
    <<Mangled(Instr("jmp", NoPc, ToLocal(2))), Instr("jmp", NoPc, in.to),
      Mangled([in EXCEPT !.to = ToLocal(-1)])>>

translate_loops(body) ==
    FlattenSeq([i \in 1 .. Len(body) |->
        IF body[i].op = "loop" THEN LoopAsJumps(body[i]) ELSE <<body[i]>>])

Detach(pc) == Mangled(Instr("jmp", NoPc, ToPc(pc)))

\* At an iret the block is cut before the last change of the stack pointer.
CutAtStackSwitch(body) ==
    LET i == SelectLastInSeq(body, LAMBDA in : in.op = "movrsp")
        n == IF i = 0 THEN Len(body) ELSE i
    IN  IF Last(body).op # "iret" THEN body
        ELSE Append(SubSeq(body, 1, n - 1), Detach(body[n].at))

decode(start, desired) ==
    LET from[pc \in DOMAIN Code] ==
            LET c     == Code[pc]
                after == pc + c.len
                in    == Instr(c.op, pc, ToPc(c.to))
                p     == profile_optimise_jcc(in, start, after)
            IN  CASE pc = desired -> [body |-> <<Jmp(pc)>>, end |-> pc]
                  [] pc # desired /\ c.op = "ud" -> [body |-> <<Detach(pc)>>, end |-> pc]
                  [] pc # desired /\ c.op \in {"jmp", "ret", "iret"} ->
                        [body |-> <<in>>, end |-> after]
                  [] pc # desired /\ c.op \in {"jcc", "loop"} ->
                        [body |-> <<p.in, [Jmp(p.next) EXCEPT !.fall = TRUE]>>,
                         end |-> after]
                  [] OTHER -> LET rest == from[after]
                              IN  [rest EXCEPT !.body = <<in>> \o @]
        d == from[start]
    IN  [body |-> translate_loops(CutAtStackSwitch(d.body)),
         end |-> IF d.end = start THEN desired ELSE d.end]

-----------------------------------------------------------------------------
(* Blocks                                                                  *)

block_translator(id, start) ==
    [id |-> id, start |-> start, end |-> NoPc, split |-> NoPc,
     translated |-> FALSE, canSplit |-> TRUE, body |-> <<>>]

reinitialise_for_split(b) ==
    IF b.split = NoPc THEN b
    ELSE [b EXCEPT !.translated = FALSE, !.end = b.split, !.split = NoPc]

\* As run would be if blocks could be split again after a split that missed.
run_AlwaysSplittable(b, split) ==
    LET d == decode(b.start, b.end)
    IN  [b EXCEPT !.translated = TRUE, !.end = d.end, !.body = d.body]

run(b, split) ==
    LET Decoded(d) ==
            [b EXCEPT !.translated = TRUE, !.end = d.end, !.body = d.body,
                      !.canSplit = @ /\ ~(split # NoPc /\ d.end # split)]
    IN  Decoded(decode(b.start, b.end))

Index(id) == CHOOSE i \in 1 .. Len(trace) : trace[i].id = id

\* The last block of the first group of blocks that contain an address, or 0.
find_block_translator(blocks, pc) ==
    LET Has(i) == blocks[i].start <= pc /\ pc < blocks[i].end
        first  == SelectInSeq(blocks, LAMBDA b : b.start <= pc /\ pc < b.end)
    IN  IF first = 0 THEN 0
        ELSE CHOOSE i \in first .. Len(blocks) :
                /\ \A j \in first .. i : Has(j)
                /\ i < Len(blocks) => ~Has(i + 1)

Init ==
    /\ program \in Programs
    /\ cached = {}
    /\ trace = <<block_translator(1, 1)>>
    /\ cursor = 1 /\ phase = "follow" /\ changed = FALSE
    /\ falls = FallThroughs
    /\ lo = 1 /\ hi = NoPc
    /\ at = <<0, 0>> /\ native = NoPc

-----------------------------------------------------------------------------
(* Following                                                               *)

Followable(in) ==
    /\ in.op = "jmp" /\ ~in.mangled /\ in.to.k = "pc"
    /\ IF in.fall THEN falls > 0 ELSE in.at # NoPc

\* A jump out of a block can only be its last instruction.
visit_branches(blocks, i) ==
    LET b     == blocks[i]
        last  == Len(b.body)
        in    == b.body[last]
        pc    == in.to.n
        found == find_block_translator(blocks, pc)
        known == pc \in cached \/ (~in.fall /\ pc \in program.detach)
        id    == IF found # 0 THEN blocks[found].id ELSE Len(blocks) + 1
        Linked(to) == [blocks EXCEPT ![i].body[last] =
                            Mangled([in EXCEPT !.to = to])]
    IN  CASE ~Followable(in) \/ (~known /\ found # 0 /\ blocks[found].start # pc) ->
                [trace |-> blocks, changed |-> FALSE, falls |-> falls]
          [] Followable(in) /\ known ->
                [trace |-> Linked(ToCache(pc)), changed |-> FALSE, falls |-> falls]
          [] Followable(in) /\ ~known /\ found # 0 /\ blocks[found].start = pc ->
                [trace |-> Linked(ToBlock(id)), changed |-> FALSE, falls |-> falls]
          [] OTHER ->
                [trace |-> InsertAt(Linked(ToBlock(id)), i + 1, block_translator(id, pc)),
                 changed |-> TRUE,
                 falls |-> IF in.fall THEN falls - 1 ELSE falls]

\* One block of the first loop of translate.  Which block is next is decided
\* before new ones are put into the list.
Follow ==
    /\ phase = "follow" /\ cursor # 0
    /\ LET i == Index(cursor)
           b == reinitialise_for_split(trace[i])
       IN  \E c \in {IF b.translated THEN b ELSE run(b, trace[i].split)} :
           \E v \in {IF b.translated
                     THEN [trace |-> trace, changed |-> FALSE, falls |-> falls]
                     ELSE visit_branches([trace EXCEPT ![i] = c], i)} :
                /\ trace' = v.trace /\ falls' = v.falls
                /\ changed' = (changed \/ v.changed)
                /\ cursor' = IF i < Len(trace) THEN trace[i + 1].id ELSE 0
                /\ lo' = IF c.start < lo THEN c.start ELSE lo
                /\ hi' = IF c.end > hi THEN c.end ELSE hi
    /\ UNCHANGED <<program, cached, phase, at, native>>

EndPass ==
    /\ phase = "follow" /\ cursor = 0
    /\ phase' = IF changed THEN "follow" ELSE "fixup"
    /\ changed' = FALSE /\ cursor' = trace[1].id
    /\ UNCHANGED <<program, cached, trace, falls, lo, hi, at, native>>

\* Another CPU adds a block to the code cache.
Publish ==
    /\ phase = "follow"
    /\ \E pc \in DOMAIN Code \ {1} : cached = {} /\ cached' = {pc}
    /\ UNCHANGED <<program, trace, cursor, phase, changed, falls, lo, hi, at, native>>

-----------------------------------------------------------------------------
(* Linking and splitting                                                   *)

\* As Link would be if the start of the block that was found did not matter.
Link_AnyBlock(in, block) == Mangled([in EXCEPT !.to = ToBlock(block.id)])

\* What cannot be split is not linked.
Link(in, block) ==
    IF block.start # in.to.n THEN in ELSE Mangled([in EXCEPT !.to = ToBlock(block.id)])

\* The branches of the i-th block are linked up to the first that has a block split.
fixup_branches(i) ==
    LET body == trace[i].body
        found == [j \in 1 .. Len(body) |->
                    LET in == body[j]
                    IN  IF in.mangled \/ ~IsCti(in) \/ in.op = "ret"
                           \/ in.to.n \notin lo .. hi - 1
                        THEN 0 ELSE find_block_translator(trace, in.to.n)]
        splits == {j \in 1 .. Len(body) :
                    /\ found[j] # 0
                    /\ trace[found[j]].start < body[j].to.n /\ trace[found[j]].canSplit}
        first == IF splits = {} THEN Len(body) + 1 ELSE Min(splits)
        linked == [trace EXCEPT ![i].body = [j \in 1 .. Len(body) |->
                    IF j < first /\ found[j] # 0 THEN Link(body[j], trace[found[j]])
                    ELSE body[j]]]
    IN  IF splits = {} THEN linked
        ELSE [linked EXCEPT ![found[first]].split = body[first].to.n]

Fixup ==
    /\ phase = "fixup" /\ cursor # 0
    /\ \E t \in {fixup_branches(Index(cursor))} :
        LET i     == Index(cursor)
            split == \E b \in Range(t) : b.split # NoPc
        IN  /\ trace' = t
            /\ phase' = IF split THEN "follow" ELSE "fixup"
            /\ cursor' = CASE split -> trace[1].id
                           [] ~split /\ i < Len(trace) -> trace[i + 1].id
                           [] OTHER -> 0
    /\ UNCHANGED <<program, cached, changed, falls, lo, hi, at, native>>

-----------------------------------------------------------------------------
(* The finished trace                                                      *)

\* nops and jumps to the block that follows are dropped.
optimise(i) ==
    LET body == trace[i].body
        last == body[Len(body)]
        drop == /\ i < Len(trace)
                /\ last.op = "jmp" /\ last.to = ToBlock(trace[i + 1].id)
        kept == IF drop THEN Front(body) ELSE body
    IN  SelectSeq(kept, LAMBDA in : in.op # "nop")

\* Any block can be entered: all of them are put into the code cache.
Finish ==
    /\ phase = "fixup" /\ cursor = 0
    /\ trace' = [i \in 1 .. Len(trace) |-> [trace[i] EXCEPT !.body = optimise(i)]]
    /\ phase' = "run"
    /\ \E i \in 1 .. Len(trace) : at' = <<i, 1>> /\ native' = trace[i].start
    /\ UNCHANGED <<program, cached, cursor, changed, falls, lo, hi>>

Exit(pc) == <<0, pc>>

Goto(to) ==
    CASE to.k = "block" -> <<Index(to.n), 1>>
      [] to.k = "local" -> <<at[1], at[2] + to.n>>
      [] OTHER -> Exit(to.n)

\* Where the program goes after one of its instructions.
NativeNext(pc, taken) ==
    LET c == Code[pc]
    IN  CASE c.op = "ret" -> NoPc
          [] c.op = "jmp" \/ (c.op \in {"jcc", "loop", "call"} /\ taken) -> c.to
          [] OTHER -> pc + c.len

Execute(taken) ==
    LET body == trace[at[1]].body
        in   == body[at[2]]
    IN  IF at[2] > Len(body) THEN at' = <<at[1] + 1, 1>> /\ UNCHANGED native
        ELSE /\ native' = IF in.at = NoPc THEN native ELSE NativeNext(in.at, taken)
             /\ at' = CASE in.op = "ret" -> Exit(NoPc)
                        [] in.op = "jmp" \/ (in.op \in {"jcc", "loop", "call"}
                                             /\ taken # in.rev) -> Goto(in.to)
                        [] OTHER -> <<at[1], at[2] + 1>>

Run ==
    /\ phase = "run" /\ at[1] \in 1 .. Len(trace)
    /\ \E taken \in BOOLEAN : Execute(taken)
    /\ UNCHANGED <<program, cached, trace, cursor, phase, changed, falls, lo, hi>>

Build == Follow \/ EndPass \/ Fixup \/ Finish

Next == Build \/ Run \/ Publish

\* The CPU that translates goes on.
Spec == Init /\ [][Next]_vars /\ WF_vars(Build)

-----------------------------------------------------------------------------

RECURSIVE AfterNops(_)
AfterNops(pc) == IF pc # NoPc /\ Code[pc].op = "nop" THEN AfterNops(pc + 1) ELSE pc

\* Whatever was followed, linked, split, reversed and dropped, and whichever
\* block it is entered at, the trace executes the instructions of the program
\* in their order, and leaves to where the program goes.
TraceIsNative ==
    phase = "run" =>
        IF at[1] = 0 THEN AfterNops(at[2]) = AfterNops(native)
        ELSE /\ at[1] \in 1 .. Len(trace)
             /\ at[2] <= Len(trace[at[1]].body) =>
                    LET pc == trace[at[1]].body[at[2]].at
                    IN  pc # NoPc => AfterNops(native) = pc

\* translate is done with the trace.
TraceIsBuilt == phase = "run"

=============================================================================
