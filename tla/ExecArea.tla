------------------------------ MODULE ExecArea ------------------------------
(***************************************************************************)
(* The executable area of Granary (granary/allocator.cc).  One static      *)
(* array holds three kinds of generated code:                              *)
(*                                                                         *)
(*   0 ..................... WrapperStart .......... ExecEnd               *)
(*   |--- code cache --->  <--- gencode ---|--- wrappers --->              *)
(*      codeCacheEnd    genCodeStart             wrapperEnd                *)
(*                                                                         *)
(* The code cache grows up, the gencode grows down towards it, and the     *)
(* wrappers have a part of their own.  No lock protects the three bump     *)
(* pointers: an allocator first moves its pointer with one atomic          *)
(* instruction and only then, in a second access to memory, compares its   *)
(* new region with the pointer that limits it.  It faults if the region    *)
(* does not fit, and the pointer stays moved.                              *)
(*                                                                         *)
(* Addresses are counted from GRANARY_EXEC_START, in units of the smallest *)
(* allocation.                                                             *)
(***************************************************************************)
EXTENDS Integers

CONSTANTS
    AreaCpus,          \* The CPUs that may be allocating at the same time.
    Sizes,         \* The sizes they ask for.
    WrapperStart,  \* CODE_CACHE_SIZE - _1_MB: where the wrapper part begins.
    ExecEnd        \* CODE_CACHE_SIZE: the end of the executable area.

ASSUME ExecAreaAssumption ==
    /\ Sizes \subseteq Nat \ {0}
    /\ WrapperStart \in Nat
    /\ ExecEnd \in Nat
    /\ WrapperStart <= ExecEnd

VARIABLES
    codeCacheEnd,  \* CODE_CACHE_END
    genCodeStart,  \* GEN_CODE_START
    wrapperEnd,    \* WRAPPER_END
    at,            \* at[c]: how far CPU c is in global_allocate_executable.
    region,        \* region[c]: the region CPU c is about to return.
    granted        \* The regions that calls have returned (history).

pointers == <<codeCacheEnd, genCodeStart, wrapperEnd>>
areaVars == <<codeCacheEnd, genCodeStart, wrapperEnd, at, region, granted>>

\* enum executable_memory_kind
Kinds == {"code_cache", "gen_code", "wrapper"}

Region == [kind: Kinds, start: Int, end: Int]

\* The region of a CPU that is not allocating.
NoRegion == [kind |-> "code_cache", start |-> 0, end |-> 0]

\* Outside of the allocator; between the bump and the comparison; stopped.
Places == {"idle", "reserved", "fault"}

\* The bump pointers are addresses, and a region is what one of them handed out.
AreaTypeOK ==
    /\ codeCacheEnd \in Nat
    /\ genCodeStart \in Int
    /\ wrapperEnd \in Int
    /\ at \in [AreaCpus -> Places]
    /\ region \in [AreaCpus -> Region]
    /\ granted \in SUBSET Region

-----------------------------------------------------------------------------

\* init_code_cache
AreaInit ==
    /\ codeCacheEnd = 0
    /\ genCodeStart = WrapperStart
    /\ wrapperEnd = WrapperStart
    /\ at = [c \in AreaCpus |-> "idle"]
    /\ region = [c \in AreaCpus |-> NoRegion]
    /\ granted = {}

\* CPU c now owns the bytes from start up to end, if they turn out to fit.
Reserve(c, kind, start, end) ==
    /\ at[c] = "idle"
    /\ at' = [at EXCEPT ![c] = "reserved"]
    /\ region' = [region EXCEPT
                    ![c] = [kind |-> kind, start |-> start, end |-> end]]
    /\ UNCHANGED granted

\* case EXEC_CODE_CACHE: mem = __sync_fetch_and_add(&CODE_CACHE_END, size)
ReserveCodeCache(c, size) ==
    /\ codeCacheEnd' = codeCacheEnd + size
    /\ Reserve(c, "code_cache", codeCacheEnd, codeCacheEnd + size)
    /\ UNCHANGED <<genCodeStart, wrapperEnd>>

\* case EXEC_GEN_CODE: mem = __sync_sub_and_fetch(&GEN_CODE_START, size)
ReserveGenCode(c, size) ==
    /\ genCodeStart' = genCodeStart - size
    /\ Reserve(c, "gen_code", genCodeStart - size, genCodeStart)
    /\ UNCHANGED <<codeCacheEnd, wrapperEnd>>

\* case EXEC_WRAPPER: mem = __sync_fetch_and_add(&WRAPPER_END, size)
ReserveWrapper(c, size) ==
    /\ wrapperEnd' = wrapperEnd + size
    /\ Reserve(c, "wrapper", wrapperEnd, wrapperEnd + size)
    /\ UNCHANGED <<codeCacheEnd, genCodeStart>>

\* The gencode is not compared with the code cache it grows towards.
Fits_GenCodeUnchecked(r) ==
    /\ r.kind = "code_cache" => r.end <= genCodeStart
    /\ r.kind = "gen_code"   => r.start >= 0
    /\ r.kind = "wrapper"    => r.end <= ExecEnd

\* The comparison that follows each bump.
Fits(r) ==
    /\ r.kind = "code_cache" => r.end <= genCodeStart
    /\ r.kind = "gen_code"   => r.start >= codeCacheEnd
    /\ r.kind = "wrapper"    => r.end <= ExecEnd

\* The region fits: it is filled with 0xCC and returned.
Grant(c) ==
    /\ at[c] = "reserved"
    /\ Fits(region[c])
    /\ granted' = granted \cup {region[c]}
    /\ at' = [at EXCEPT ![c] = "idle"]
    /\ region' = [region EXCEPT ![c] = NoRegion]
    /\ UNCHANGED pointers

\* The region does not fit: granary_fault() stops the CPU.
Fault(c) ==
    /\ at[c] = "reserved"
    /\ ~Fits(region[c])
    /\ at' = [at EXCEPT ![c] = "fault"]
    /\ UNCHANGED <<pointers, region, granted>>

AreaNext ==
    \E c \in AreaCpus :
        \/ \E size \in Sizes :
            \/ ReserveCodeCache(c, size)
            \/ ReserveGenCode(c, size)
            \/ ReserveWrapper(c, size)
        \/ Grant(c)
        \/ Fault(c)

AreaSpec == AreaInit /\ [][AreaNext]_areaVars

-----------------------------------------------------------------------------
(* The classification of addresses.                                        *)

\* is_code_cache_address
IsCodeCacheAddress(a) == 0 <= a /\ a < codeCacheEnd

\* is_gencode_address
IsGenCodeAddress(a) == genCodeStart <= a /\ a < WrapperStart

\* is_wrapper_address
IsWrapperAddress(a) == WrapperStart <= a /\ a < wrapperEnd

HasKind(a, kind) ==
    /\ kind = "code_cache" => IsCodeCacheAddress(a)
    /\ kind = "gen_code"   => IsGenCodeAddress(a)
    /\ kind = "wrapper"    => IsWrapperAddress(a)

-----------------------------------------------------------------------------
(* Properties.                                                             *)

Apart(r, s) == r.end <= s.start \/ s.end <= r.start

\* No byte of the executable area is handed out twice by
\* global_allocate_executable: two regions it has returned do not overlap,
\* in particular not a code cache slab and a gencode slab whose allocators
\* raced between their bump and their comparison.
GrantedDisjoint == \A r, s \in granted : r = s \/ Apart(r, s)

\* A region that a CPU has reserved, and may be about to be returned, overlaps
\* neither what was returned before nor what another CPU has reserved of the
\* same kind: the atomic bump never gives two CPUs the same bytes.
ReservationsDisjoint ==
    \A c \in AreaCpus : at[c] = "reserved" =>
        /\ \A r \in granted :
              r.kind = region[c].kind => Apart(r, region[c])
        /\ \A d \in AreaCpus \ {c} :
              /\ at[d] = "reserved"
              /\ region[d].kind = region[c].kind
              => Apart(region[c], region[d])

\* Code cache and gencode regions lie below WRAPPER_START, which bounds the
\* index that granary_find_fragment_slab computes, and wrapper regions lie
\* between WRAPPER_START and GRANARY_EXEC_END.
GrantedInArea ==
    \A r \in granted :
        /\ r.start < r.end
        /\ IF r.kind = "wrapper"
           THEN WrapperStart <= r.start /\ r.end <= ExecEnd
           ELSE 0 <= r.start /\ r.end <= WrapperStart

\* Every address in a region that was returned is classified as the kind it
\* was allocated for, at every later time: patch_instruction relies on this
\* for the stub it is called from and for the branch that it patches.
GrantedAddressesKnown ==
    \A r \in granted :
        HasKind(r.start, r.kind) /\ HasKind(r.end - 1, r.kind)

\* The two pointers cross only when an allocator has faulted or is bound to:
\* until then no address is both a code cache and a gencode address.
CrossingIsFatal ==
    genCodeStart < codeCacheEnd =>
        \E c \in AreaCpus :
            \/ at[c] = "fault"
            \/ at[c] = "reserved" /\ ~Fits(region[c])

=============================================================================
