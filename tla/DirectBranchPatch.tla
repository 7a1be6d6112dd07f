------------------------- MODULE DirectBranchPatch --------------------------
(***************************************************************************)
(* Direct branch lookup (granary/dbl.cc).  A direct branch whose target is *)
(* not translated yet leads to a stub of its own; the stub calls           *)
(* patch_instruction, which translates the target, publishes it in the     *)
(* patch structure, rewrites the 32-bit displacement of the branch, and    *)
(* returns to the target.  Any number of CPUs may take the same branch     *)
(* meanwhile: a CPU that cannot get the lock of the patch structure goes   *)
(* to the published target, or else back to the call in the stub to try    *)
(* again.                                                                  *)
(***************************************************************************)
EXTENDS Integers

CONSTANTS
    Cpus,
    Branches,  \* Direct branches, each with its stub and patch structure.
    Blocks,    \* Addresses of translated blocks in the code cache.
    None,
    Stub,      \* The address of the stub of a branch.
    Redzone    \* REDZONE_SIZE: 0 in the kernel, in user space 128 bytes.

ASSUME DirectBranchPatchAssumption ==
    /\ None \notin Blocks \cup Branches \cup Cpus
    /\ Stub \notin Blocks \cup {None}
    /\ Redzone \in Nat

VARIABLES
    rel32,       \* rel32[b]: where the displacement of branch b leads.
    translated,  \* translated[b]: translated_target_address of its patch.
    lock,        \* lock[b]: the CPU that owns the lock of its patch, or None.
    at,          \* at[c]: how far CPU c is.
    branch,      \* branch[c]: the branch that CPU c took last.
    target,      \* target[c]: target_pc in patch_instruction.
    resume,      \* resume[c]: where CPU c continues once it has arrived.
    shift        \* shift[c]: how far %rsp of CPU c is below its native value.

vars == <<rel32, translated, lock, at, branch, target, resume, shift>>

\* From the try-lock to the unlock.
Owning == {"owner", "found", "published", "written"}

\* From the stub to the return of patch_instruction.
Patching == {"call", "patcher", "refused"} \cup Owning

\* The offset of a branch, its published target and the owner of its patch
\* structure are what patch_instruction may store there.
TypeOK ==
    /\ rel32 \in [Branches -> Blocks \cup {Stub}]
    /\ translated \in [Branches -> Blocks \cup {None}]
    /\ lock \in [Branches -> Cpus \cup {None}]
    /\ at \in [Cpus -> {"running", "arrived"} \cup Patching]
    /\ branch \in [Cpus -> Branches \cup {None}]
    /\ target \in [Cpus -> Blocks \cup {None}]
    /\ resume \in [Cpus -> Blocks \cup {None}]
    /\ shift \in [Cpus -> Int]
    /\ \A c \in Cpus : at[c] \in Patching => branch[c] \in Branches

-----------------------------------------------------------------------------

\* insert_dbl_lookup_stub has made every branch lead to its stub.
Init ==
    /\ rel32 = [b \in Branches |-> Stub]
    /\ translated = [b \in Branches |-> None]
    /\ lock = [b \in Branches |-> None]
    /\ at = [c \in Cpus |-> "running"]
    /\ branch = [c \in Cpus |-> None]
    /\ target = [c \in Cpus |-> None]
    /\ resume = [c \in Cpus |-> None]
    /\ shift = [c \in Cpus |-> 0]

\* CPU c executes branch b, which still leads to the stub.  In user space the
\* first instruction of the stub moves %rsp below the red zone.
TakeStub(c, b) ==
    /\ at[c] = "running"
    /\ rel32[b] = Stub
    /\ at' = [at EXCEPT ![c] = "call"]
    /\ branch' = [branch EXCEPT ![c] = b]
    /\ shift' = [shift EXCEPT ![c] = @ + Redzone]
    /\ UNCHANGED <<rel32, translated, lock, target, resume>>

\* CPU c executes branch b, which has been patched.
TakePatched(c, b) ==
    /\ at[c] = "running"
    /\ rel32[b] # Stub
    /\ at' = [at EXCEPT ![c] = "arrived"]
    /\ branch' = [branch EXCEPT ![c] = b]
    /\ resume' = [resume EXCEPT ![c] = rel32[b]]
    /\ UNCHANGED <<rel32, translated, lock, target, shift>>

\* The stub calls patch_instruction, which sets its own return address to this
\* call before it does anything else.
CallPatcher(c) ==
    /\ at[c] = "call"
    /\ at' = [at EXCEPT ![c] = "patcher"]
    /\ UNCHANGED <<rel32, translated, lock, branch, target, resume, shift>>

\* patch->lock.try_acquire()
TryAcquire(c) ==
    /\ at[c] = "patcher"
    /\ IF lock[branch[c]] = None
       THEN /\ at' = [at EXCEPT ![c] = "owner"]
            /\ lock' = [lock EXCEPT ![branch[c]] = c]
       ELSE /\ at' = [at EXCEPT ![c] = "refused"]
            /\ UNCHANGED lock
    /\ UNCHANGED <<rel32, translated, branch, target, resume, shift>>

\* The return from patch_instruction to address t: ret_imm in user space.
ReturnTo(c, t) ==
    /\ at' = [at EXCEPT ![c] = "arrived"]
    /\ resume' = [resume EXCEPT ![c] = t]
    /\ shift' = [shift EXCEPT ![c] = @ - Redzone]

\* The return from patch_instruction to the call that led to it.
ReturnToCall(c) ==
    /\ at' = [at EXCEPT ![c] = "call"]
    /\ shift' = [shift EXCEPT ![c] = @ - Redzone]
    /\ UNCHANGED resume

\* Another CPU owns the patch: go where it leads, or try again.
Refused(c) ==
    /\ at[c] = "refused"
    /\ IF translated[branch[c]] # None
       THEN ReturnTo(c, translated[branch[c]])
       ELSE ReturnToCall(c)
    /\ UNCHANGED <<rel32, translated, lock, branch, target>>

\* The branch was patched between the call and the try-lock.
AlreadyPatched(c) ==
    /\ at[c] = "owner"
    /\ translated[branch[c]] # None
    /\ lock' = [lock EXCEPT ![branch[c]] = None]
    /\ ReturnTo(c, translated[branch[c]])
    /\ UNCHANGED <<rel32, translated, branch, target>>

\* The owner does not look whether the branch has been patched meanwhile.
Find_Unchecked(c, t) ==
    /\ at[c] = "owner"
    /\ at' = [at EXCEPT ![c] = "found"]
    /\ target' = [target EXCEPT ![c] = t]
    /\ UNCHANGED <<rel32, translated, lock, branch, resume, shift>>

\* target_pc = code_cache::find(cpu, patch->target_address): any block, as the
\* code cache may return different translations at different times.
Find(c, t) ==
    /\ at[c] = "owner"
    /\ translated[branch[c]] = None
    /\ at' = [at EXCEPT ![c] = "found"]
    /\ target' = [target EXCEPT ![c] = t]
    /\ UNCHANGED <<rel32, translated, lock, branch, resume, shift>>

\* The displacement is written before the target is published.
Publish_RewriteFirst(c) ==
    /\ at[c] = "found"
    /\ at' = [at EXCEPT ![c] = "published"]
    /\ rel32' = [rel32 EXCEPT ![branch[c]] = target[c]]
    /\ UNCHANGED <<translated, lock, branch, target, resume, shift>>

\* patch->translated_target_address = target_pc
Publish(c) ==
    /\ at[c] = "found"
    /\ at' = [at EXCEPT ![c] = "published"]
    /\ translated' = [translated EXCEPT ![branch[c]] = target[c]]
    /\ UNCHANGED <<rel32, lock, branch, target, resume, shift>>

\* The displacement is computed but not stored.
Rewrite_Lost(c) ==
    /\ at[c] = "published"
    /\ at' = [at EXCEPT ![c] = "written"]
    /\ UNCHANGED <<rel32, translated, lock, branch, target, resume, shift>>

\* *old_rel32 = new_rel32: one aligned store.
Rewrite(c) ==
    /\ at[c] = "published"
    /\ at' = [at EXCEPT ![c] = "written"]
    /\ rel32' = [rel32 EXCEPT ![branch[c]] = target[c]]
    /\ UNCHANGED <<translated, lock, branch, target, resume, shift>>

\* patch->lock.release(), and the return to the target.
Release(c) ==
    /\ at[c] = "written"
    /\ lock' = [lock EXCEPT ![branch[c]] = None]
    /\ target' = [target EXCEPT ![c] = None]
    /\ ReturnTo(c, target[c])
    /\ UNCHANGED <<rel32, translated, branch>>

\* The translated code goes on to its next branch.
Continue(c) ==
    /\ at[c] = "arrived"
    /\ at' = [at EXCEPT ![c] = "running"]
    /\ branch' = [branch EXCEPT ![c] = None]
    /\ resume' = [resume EXCEPT ![c] = None]
    /\ UNCHANGED <<rel32, translated, lock, target, shift>>

\* The steps of CPU c from the stub to the target.
PatchStep(c) ==
    \/ CallPatcher(c)
    \/ TryAcquire(c)
    \/ Refused(c)
    \/ AlreadyPatched(c)
    \/ \E t \in Blocks : Find(c, t)
    \/ Publish(c)
    \/ Rewrite(c)
    \/ Release(c)

Next ==
    \E c \in Cpus :
        \/ \E b \in Branches : TakeStub(c, b) \/ TakePatched(c, b)
        \/ PatchStep(c)
        \/ Continue(c)

SafeSpec == Init /\ [][Next]_vars

\* A CPU that is in the patcher keeps executing: patch_instruction runs with
\* interrupts off and does not wait for anyone.  Which branches a program takes
\* is left to the program.
Fairness == \A c \in Cpus : WF_vars(PatchStep(c))

Spec == SafeSpec /\ Fairness

-----------------------------------------------------------------------------
(* Properties.                                                             *)

\* A CPU that leaves the patcher or a patched branch continues at the address
\* that is published for the branch it took, never at the null address and
\* never at a translation that another CPU did not get.
ArrivesAtPublished ==
    \A c \in Cpus :
        at[c] = "arrived" =>
            resume[c] # None /\ resume[c] = translated[branch[c]]

\* At most one CPU at a time is between the try-lock and the unlock of a patch
\* structure, and it is the one that the lock says.
OwnerHoldsLock ==
    \A c \in Cpus : at[c] \in Owning => lock[branch[c]] = c

\* Once a target is published for a branch it is not replaced: code_cache::find
\* is called once per branch, although it could return another block next time.
ResolvedOnce ==
    [][\A b \in Branches :
          translated[b] # None => translated'[b] = translated[b]]_vars

\* A published target does reach the instruction: later executions of the
\* branch no longer go through the stub.
EventuallyPatched ==
    \A b \in Branches :
        translated[b] # None ~> rel32[b] # Stub

\* insert_dbl_lookup_stub says that the red zone is unshifted by the return of
\* the patcher, and patch_instruction that re-entering it is fine: a CPU that
\* arrives at the target has the stack pointer it took the branch with.
StackRestored ==
    \A c \in Cpus : at[c] = "arrived" => shift[c] = 0

-----------------------------------------------------------------------------
(* The abstract specification that this one implements.                    *)

where == [c \in Cpus |-> IF at[c] \in Patching THEN "waiting" ELSE at[c]]

Abstract == INSTANCE BranchResolution WITH resolved <- translated

\* patch_instruction implements branch resolution: one lookup per branch, made
\* by a CPU that took it, and everyone continues at its result.
ImplementsResolution == Abstract!SafeSpec

=============================================================================
