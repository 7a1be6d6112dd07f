-------------------------- MODULE BranchResolution --------------------------
(***************************************************************************)
(* What the direct branch lookup of Granary promises, without saying how:  *)
(* the target of a direct branch in the code cache is looked up once, when *)
(* a CPU first takes the branch, and whoever takes the branch continues at *)
(* the one address that the lookup returned.  DirectBranchPatch implements *)
(* this with a stub, a try-lock and a rewrite of the branch.               *)
(***************************************************************************)
EXTENDS Naturals

CONSTANTS
    Cpus,
    Branches,  \* Direct branches of translated blocks.
    Blocks,    \* Addresses of translated blocks in the code cache.
    None

VARIABLES
    resolved,  \* resolved[b]: where branch b leads, None before the lookup.
    where,     \* where[c]: what CPU c is doing.
    branch,    \* branch[c]: the branch that CPU c took last.
    resume     \* resume[c]: where CPU c continues once it has arrived.

absVars == <<resolved, where, branch, resume>>

Init ==
    /\ resolved = [b \in Branches |-> None]
    /\ where = [c \in Cpus |-> "running"]
    /\ branch = [c \in Cpus |-> None]
    /\ resume = [c \in Cpus |-> None]

\* CPU c takes branch b and has to wait for its target.
Take(c, b) ==
    /\ where[c] = "running"
    /\ where' = [where EXCEPT ![c] = "waiting"]
    /\ branch' = [branch EXCEPT ![c] = b]
    /\ UNCHANGED <<resolved, resume>>

\* CPU c takes branch b, which already leads to its target.
Follow(c, b) ==
    /\ where[c] = "running"
    /\ resolved[b] # None
    /\ where' = [where EXCEPT ![c] = "arrived"]
    /\ branch' = [branch EXCEPT ![c] = b]
    /\ resume' = [resume EXCEPT ![c] = resolved[b]]
    /\ UNCHANGED resolved

\* A waiting CPU looks up the target: this happens once for each branch.
Resolve(c, t) ==
    /\ where[c] = "waiting"
    /\ resolved[branch[c]] = None
    /\ resolved' = [resolved EXCEPT ![branch[c]] = t]
    /\ UNCHANGED <<where, branch, resume>>

\* A waiting CPU continues at the target.
Resume(c) ==
    /\ where[c] = "waiting"
    /\ resolved[branch[c]] # None
    /\ where' = [where EXCEPT ![c] = "arrived"]
    /\ resume' = [resume EXCEPT ![c] = resolved[branch[c]]]
    /\ UNCHANGED <<resolved, branch>>

\* The translated code goes on to its next branch.
Continue(c) ==
    /\ where[c] = "arrived"
    /\ where' = [where EXCEPT ![c] = "running"]
    /\ branch' = [branch EXCEPT ![c] = None]
    /\ resume' = [resume EXCEPT ![c] = None]
    /\ UNCHANGED resolved

Next ==
    \E c \in Cpus :
        \/ \E b \in Branches : Take(c, b) \/ Follow(c, b)
        \/ \E t \in Blocks : Resolve(c, t)
        \/ Resume(c)
        \/ Continue(c)

\* The safety part of the promise.
SafeSpec == Init /\ [][Next]_absVars

=============================================================================
