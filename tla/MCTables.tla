------------------------------ MODULE MCTables ------------------------------
(***************************************************************************)
(* The data structures of Granary. A behaviour is about one of them: CPUs   *)
(* use a locked hash table (part = "hash"), or the heap ("heap"), or the    *)
(* tables of detach points are filled ("detach"), or lists are changed      *)
(* ("lists"). They share no state, so that the states are the sum and not   *)
(* the product of theirs.                                                   *)
(***************************************************************************)
EXTENDS Heap, HashTable, TLC

CONSTANTS c1, c2, c3, g, h, i, j

VARIABLES part,
          detachTable, detachIndex, detachTodo, detachAdded,
          listNext, prev, list, free, model

\* Eight slots with five entries: three more keys make the table grow, either
\* because of the load or because of the distance.
MCHash ==
    "a" :> 3 @@ "b" :> 3 @@ "c" :> 9 @@ "e" :> 6 @@ "f" :> 6 @@ "g" :> 7 @@ "h" :> 1
    @@ "i" :> 4

MCKeys == DOMAIN MCHash

Entry(k) == [key |-> k, value |-> "o"]

MCBefore == <<Entry("e"), Entry("f"), Entry("g"), Entry("h"), Entry("a")>>

MCOperations ==
    [kind : {"load"}, key : {"a", "b", "g"}, value : {"null"}]
        \cup [kind : {"overwrite"}, key : {"b", "c", "i"}, value : {"v"}]
        \cup [kind : {"keep"}, key : {"a", "b"}, value : {"u"}]

\* A wrapper without an address, one without a host wrapper, and points that
\* collide with them and replace them.
SomeHash ==
    "a" :> 2 @@ "b" :> 2 @@ "c" :> 6 @@ "d" :> 3 @@ "e" :> 10 @@ "f" :> 7

SomeWrappers ==
    <<[address |-> "a", app |-> "a1", host |-> "null"],
      [address |-> "null", app |-> "z1", host |-> "z2"],
      [address |-> "b", app |-> "b1", host |-> "b2"]>>

SomePoints ==
    {[address |-> k, redirect |-> k, context |-> x] :
        k \in {"a", "c", "d", "e", "f"}, x \in {"app", "host"}}

D == INSTANCE DetachTable
        WITH Keys <- DOMAIN SomeHash, Hash <- SomeHash, Wrappers <- SomeWrappers,
             Points <- SomePoints, HostAddresses <- {"a", "b", "c", "d"},
             Kernel <- TRUE, MaxScan <- 2, MinEntries <- 8,
             table <- detachTable, index <- detachIndex, todo <- detachTodo,
             added <- detachAdded

\* Lists of items and lists of instructions, two of each.
L == INSTANCE Lists
        WITH Items <- {1, 2, 3}, Generic <- {g, h}, Instructions <- {i, j}, null <- 0,
             next <- listNext

\* The sizes that are asked for, and all up to 300 bytes, fall into classes.
ASSUME TablesAssumption ==
    /\ ConstantsOK /\ SizeClassesOK(Requests) /\ SizeClassesOK(1 .. 300)
    /\ TableOK /\ SizesOK /\ PowersOK(MaxScale) /\ D!HashOK

detachVars == <<detachTable, detachIndex, detachTodo, detachAdded>>
listVars == <<listNext, prev, list, free, model>>

TablesInit ==
    /\ part \in {"hash", "detach", "heap", "lists"}
    /\ Init /\ TableInit /\ D!Init /\ L!Init

TablesNext ==
    \/ part = "heap" /\ Next /\ UNCHANGED <<part, tableVars, detachVars, listVars>>
    \/ part = "hash" /\ TableNext /\ UNCHANGED <<part, vars, detachVars, listVars>>
    \/ part = "detach" /\ D!Next /\ UNCHANGED <<part, vars, tableVars, listVars>>
    \/ part = "lists" /\ L!Next /\ UNCHANGED <<part, vars, tableVars, detachVars>>

\* A CPU that is in the heap goes on, as interrupts are disabled there.
TablesSpec ==
    /\ TablesInit /\ [][TablesNext]_<<part, vars, tableVars, detachVars, listVars>>
    /\ \A c \in Cpus : WF_vars(part = "heap" /\ Work(c))

\* A detach target is found: find_detach_target returns "a translated target
\* address, or nullptr if this isn't a detach target".
DetachTargetsAreFound == part = "detach" => D!DetachTargetsAreFound

\* Every target that was added to the tables of detach.cc is in them, and no
\* other; and the links of a list, forwards and backwards, its length and its
\* cache agree with what was added to it and removed.
ListsAndTargetsAreKept ==
    /\ part = "detach" => D!NothingForgotten
    /\ part = "lists" => L!ListsAreConsistent
=============================================================================
