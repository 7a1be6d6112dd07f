------------------------------ MODULE Hotpatch ------------------------------
(***************************************************************************)
(* Patch wrappers (kernel/hotpatch.cc and PATCH_WRAPPER of wrapper.h): a   *)
(* kernel function is copied, or translated into the code cache, and then  *)
(* its first eight bytes are overwritten by a jump to the wrapper, which   *)
(* calls the copy.                                                         *)
(***************************************************************************)
EXTENDS Integers, FiniteSets, Sequences

CONSTANTS Functions,  \* functions to patch: by offset, the instructions
          MaxRun      \* bound on the instructions of one call

VARIABLES fn,         \* the function: offset -> [op, size, to]
          instrument, \* the wrapper calls an instrumented version of it
          phase,      \* "loaded", "prepared", "patched"
          copy,       \* copy_and_rerelativize_function was called: where to call
          cache,      \* translated blocks: [at, user, clean]
          thread,     \* a CPU in the function
          ran         \* the offsets it ran in this call, its passes through the
                      \* wrapper, and whether it was in the function when patched

vars == <<fn, instrument, phase, copy, cache, thread, ran>>

PatchSize == 8
InFunction(to) == to \in DOMAIN fn
Follows(at) == at + fn[at].size
IsDirect(at) == fn[at].op \in {"jmp", "jcc"}

\* Where the function goes on after an instruction. It is left by "ret", and
\* by a jump out of it; a jump table leads past the bytes that are patched.
Successors(at) ==
    CASE fn[at].op = "jmp" -> {fn[at].to}
      [] fn[at].op = "jcc" -> {fn[at].to, Follows(at)}
      [] fn[at].op = "ijmp" -> {to \in DOMAIN fn : to >= PatchSize}
      [] fn[at].op = "ret" -> {-1}
      [] OTHER -> {Follows(at)}

Outside == [where |-> "outside", at |-> 0, block |-> 0, user |-> FALSE, acc |-> FALSE]
NoRun == [path |-> <<>>, wraps |-> 0, caught |-> FALSE]

Init ==
    /\ fn \in Functions /\ instrument \in BOOLEAN
    /\ phase = "loaded" /\ copy = "none" /\ cache = {}
    /\ thread = Outside /\ ran = NoRun

-----------------------------------------------------------------------------

\* The inner loop of instrument_function: the blocks found from one that
\* starts at an offset. It walks through calls and indirect jumps.
Found ==
    LET f[at \in DOMAIN fn \union {-1}] ==
            IF at = -1 \/ ~InFunction(at) \/ fn[at].op = "ret" THEN {}
            ELSE IF fn[at].op = "jmp" THEN {fn[at].to} \cap DOMAIN fn
            ELSE IF fn[at].op = "jcc" THEN {fn[at].to, Follows(at)} \cap DOMAIN fn
            ELSE f[IF InFunction(Follows(at)) THEN Follows(at) ELSE -1]
    IN  f

\* As process_bbs would be if the fall-through were left to be found later.
process_bbs_NoFallThrough ==
    LET bbs[n \in 0 .. Cardinality(DOMAIN fn)] ==
            IF n = 0 THEN {0}
            ELSE bbs[n - 1] \union UNION {IF IsDirect(at) THEN {fn[at].to} \cap DOMAIN fn ELSE Found[at]
                                           : at \in bbs[n - 1]}
    IN  bbs[Cardinality(DOMAIN fn)]

\* The blocks of the function that are looked up.
process_bbs ==
    LET bbs[n \in 0 .. Cardinality(DOMAIN fn)] ==
            IF n = 0 THEN {0} ELSE bbs[n - 1] \union UNION {Found[at] : at \in bbs[n - 1]}
    IN  bbs[Cardinality(DOMAIN fn)]

\* prepare_patch_: with START_POLICY, before anything is patched. A copy's
\* branches within the function are re-encoded to stay in the copy.
Prepare ==
    /\ phase = "loaded" /\ phase' = "prepared"
    /\ copy' = IF instrument THEN "cache" ELSE "copy"
    /\ cache' = IF instrument THEN {[at |-> at, user |-> FALSE, clean |-> TRUE] : at \in process_bbs}
                ELSE cache
    /\ UNCHANGED <<fn, instrument, thread, ran>>

\* patch_: redirect_function stores the jump, eight bytes at once.
Patch ==
    /\ phase = "prepared" /\ phase' = "patched"
    /\ ran' = [ran EXCEPT !.caught = (thread.where # "outside")]
    /\ UNCHANGED <<fn, instrument, copy, cache, thread>>

Call ==
    /\ thread.where = "outside"
    /\ thread' = [Outside EXCEPT !.where = "function"]
    /\ ran' = NoRun
    /\ UNCHANGED <<fn, instrument, phase, copy, cache>>

\* The jump at the start of the patched function leads to the wrapper, and
\* the wrapper calls the copy.
Wrapper == [where |-> copy, at |-> 0, block |-> 0, user |-> FALSE, acc |-> FALSE]

\* code_cache::find of a block. It is decoded from the bytes there are now.
Block(at, user) ==
    IF \E b \in cache : b.at = at /\ b.user = user
    THEN CHOOSE b \in cache : b.at = at /\ b.user = user
    ELSE [at |-> at, user |-> user, clean |-> phase # "patched"]

\* The CPU fetches bytes that were overwritten.
Overwritten ==
    /\ thread.at < PatchSize
    /\ \/ thread.where = "function" /\ phase = "patched"
       \/ thread.where = "cache" /\ ~Block(thread.block, thread.user).clean

Redirected ==
    /\ Overwritten /\ Len(ran.path) < MaxRun
    /\ thread' = Wrapper
    /\ ran' = [ran EXCEPT !.wraps = @ + 1]
    /\ UNCHANGED <<fn, instrument, phase, copy, cache>>

\* Where a copy of the function goes on: its branches were re-encoded to stay
\* in it, but a jump table leads back to the function.
duplicate_function(where, op) == IF where = "copy" /\ op = "ijmp" THEN "function" ELSE where

\* One instruction. In the code cache, a branch goes to another block; the
\* blocks after an access to user data are translated for that policy.
Run ==
    /\ thread.where # "outside" /\ ~Overwritten /\ Len(ran.path) < MaxRun
    /\ \E next \in Successors(thread.at) :
        LET acc == thread.acc \/ fn[thread.at].op = "user"
            ends == fn[thread.at].op \in {"jmp", "jcc", "ijmp"}
            block == IF ends THEN next ELSE thread.block
        IN  /\ ran' = [ran EXCEPT !.path = Append(@, thread.at)]
            /\ thread' = IF ~InFunction(next) THEN Outside
                         ELSE [thread EXCEPT !.at = next, !.block = block,
                                !.where = duplicate_function(@, fn[thread.at].op),
                                !.acc = acc, !.user = IF ends THEN acc ELSE @]
            /\ cache' = IF thread.where = "cache" /\ InFunction(next)
                        THEN cache \union {Block(block, thread'.user)} ELSE cache
    /\ UNCHANGED <<fn, instrument, phase, copy>>

Next == Prepare \/ Patch \/ Call \/ Redirected \/ Run

Spec == Init /\ [][Next]_vars

-----------------------------------------------------------------------------

\* A call of the function passes through the wrapper at most once, and what
\* it runs is a path through the function as it was before it was patched;
\* a CPU that was in the function when it was patched is not protected.
WrappedOnce ==
    ~ran.caught =>
    /\ ran.wraps <= 1
    /\ ran.path # <<>> => ran.path[1] = 0
    /\ \A i \in 1 .. Len(ran.path) - 1 : ran.path[i + 1] \in Successors(ran.path[i])
=============================================================================
