---------------------------- MODULE MCCodeCache -----------------------------
(***************************************************************************)
(* The code cache with two blocks that are reached in every way. The first  *)
(* block takes the second one along in a trace, and all addresses share one *)
(* entry of the jump table.                                                 *)
(***************************************************************************)
EXTENDS CodeCache, TLC

CONSTANTS p1, p2

MCFollows == [p \in Pcs |-> IF p = p1 THEN {p2} ELSE {}]
MCIblHash == [p \in Pcs |-> 0]

Address(p, via, host) == [pc |-> p, via |-> via, host |-> host]

MCBranches ==
    {Address(p1, "direct", FALSE), Address(p1, "indirect", FALSE),
     Address(p2, "direct", FALSE), Address(p2, "return", FALSE)}

Symmetry == Permutations(Cpus)
=============================================================================
