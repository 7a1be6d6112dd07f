--------------------------- MODULE CodeCacheProofs --------------------------
(***************************************************************************)
(* Proofs about CodeCache: for any number of CPUs, blocks, traces and      *)
(* exit routines, nothing that can be reached leads to a discarded block,  *)
(* and every branch that arrives does so at code for its target, with a    *)
(* balanced stack; and about ExecArea, the memory that the code is in.     *)
(***************************************************************************)
EXTENDS ExecArea, CodeCache, Induction, FiniteSetTheorems, TLAPS

-----------------------------------------------------------------------------
(* The inductive invariant, and the facts about code and addresses that its *)
(* proof rests on.                                                         *)

Labels ==
    {"run", "walk", "hit", "load", "base", "translate", "add", "commit",
     "winner", "ibl", "routine", "stub"}

\* The part of the types that the proofs need.
Types ==
    /\ DOMAIN cache = Addresses
    /\ DOMAIN fragment = Fragments
    /\ \A f \in Fragments : fragment[f] = [blocks |-> fragment[f].blocks,
                                           info |-> fragment[f].info]
    /\ DOMAIN routine = Routines
    /\ DOMAIN table = {IblHash[q] : q \in Pcs}
    /\ pc \in [Cpus -> Labels]
    /\ DOMAIN want = Cpus
    /\ DOMAIN target = Cpus
    /\ DOMAIN mine = Cpus
    /\ DOMAIN todo = Cpus
    /\ DOMAIN node = Cpus
    /\ pushed \in [Cpus -> BOOLEAN]

\* c has a fragment that it has not committed to yet.
Busy(c) == pc[c] \in {"add", "commit"}

\* The address of the first block of that fragment.
Entry(c) == Block(mine[c], Base(want[c]))

\* r is an exit routine for the indirect address a.
IsRoutineFor(r, a) == r \in Routines /\ routine[r].guard = a /\ routine[r] # NoRoutine

\* What holds of a CPU in each of its steps.
Local(c) ==
    /\ pc[c] = "run" => /\ ~pushed[c]
                        /\ target[c] # None => /\ want[c] \in Addresses
                                               /\ LeadsTo(target[c], want[c])
    /\ pc[c] # "run" => /\ want[c] \in Addresses
                        /\ pushed[c] <=> Indirect(want[c])
    /\ pc[c] \in {"walk", "hit", "ibl", "routine", "stub"} => Indirect(want[c])
    /\ pc[c] = "walk" /\ node[c] # Global => /\ node[c] \in Routines
                                             /\ routine[node[c]] # NoRoutine
    /\ pc[c] \in {"hit", "stub"} =>
          \E r \in Routines : target[c] = Hit(r) /\ IsRoutineFor(r, want[c])
    /\ pc[c] \in {"ibl", "routine"} => LeadsTo(target[c], want[c])
    /\ pc[c] = "winner" => cache[Base(want[c])] # None

\* What holds of the fragment of a busy CPU.
Fragment(c) ==
    Busy(c) => /\ mine[c] \in Fragments
               /\ target[c] = Entry(c)
               /\ Base(want[c]) \in fragment[mine[c]].blocks
               /\ todo[c] \subseteq fragment[mine[c]].blocks \ {Base(want[c])}
               /\ \A b \in todo[c] : b \in Addresses /\ Base(b) = b /\ ~Indirect(b)

\* Nobody else knows the first block of that fragment.
Private(c) ==
    Busy(c) => /\ \A a \in Addresses : cache[a] # Entry(c)
               /\ \A r \in Routines : routine[r].target # Entry(c)
               /\ \A d \in Cpus \ {c} :
                     pc[d] \in {"run", "ibl", "routine"} => target[d] # Entry(c)
               /\ \A d \in Cpus \ {c} : Busy(d) => mine[d] # mine[c]

CacheOK ==
    \A a \in Addresses : cache[a] # None =>
        IF Indirect(a) THEN \E r \in Routines : cache[a] = Hit(r) /\ IsRoutineFor(r, a)
        ELSE LeadsTo(cache[a], a)

RoutinesOK ==
    /\ \A r \in Routines : routine[r] # NoRoutine =>
          /\ routine[r].guard \in Addresses /\ Indirect(routine[r].guard)
          /\ LeadsTo(routine[r].target, routine[r].guard)
          /\ routine[r].next # Global => /\ routine[r].next \in Routines
                                         /\ routine[routine[r].next] # NoRoutine
    /\ \A i \in DOMAIN table : table[i] # Global =>
          table[i] \in Routines /\ routine[table[i]] # NoRoutine

IInv ==
    /\ Types
    /\ \A c \in Cpus : Local(c) /\ Fragment(c) /\ Private(c)
    /\ CacheOK
    /\ RoutinesOK

-----------------------------------------------------------------------------
\* The kinds of code are told apart, and so are the places of each kind.
LEMMA CodeFacts ==
    ASSUME NEW f, NEW g, NEW a, NEW b, NEW r, NEW q, NEW p
    PROVE  /\ Block(f, a) # None /\ Hit(r) # None /\ Native(p) # None
           /\ Block(f, a) # Hit(r) /\ Block(f, a) # Native(p) /\ Hit(r) # Native(p)
           /\ Block(f, a) = Block(g, b) => f = g /\ a = b
           /\ Hit(r) = Hit(q) => r = q
           /\ Hit(r)[1] = "hit" /\ Hit(r)[2] = r
           /\ Block(f, a)[1] = "block" /\ Block(f, a)[2] = f
           /\ Native(p)[1] = "native"
  BY Zenon DEF Block, Hit, Native, None

\* Blocks are known as blocks.
LEMMA BlockTag == \A f, a : Block(f, a)[1] = "block"
  BY CodeFacts

\* The base of an address is a direct address, and its own base.
LEMMA BaseFacts ==
    ASSUME NEW a \in Addresses
    PROVE  /\ Base(a) \in Addresses
           /\ Base(Base(a)) = Base(a)
           /\ ~Indirect(Base(a))
           /\ Base(a).pc = a.pc
  BY DEF Addresses, Base, Indirect, Vias

\* Code for an address is neither missing nor the half of an exit routine.
LEMMA LeadsToFacts ==
    ASSUME NEW code, NEW a \in Addresses, LeadsTo(code, a)
    PROVE  /\ code # None
           /\ \A r : code # Hit(r)
           /\ code[1] # "hit"
           /\ LeadsTo(code, Base(a))
  BY CodeFacts, BaseFacts DEF LeadsTo

\* The only code for the base of an address is code for the address.
LEMMA BaseLeadsTo ==
    ASSUME NEW code, NEW a \in Addresses, LeadsTo(code, Base(a))
    PROVE  LeadsTo(code, a)
  BY Zenon, BaseFacts DEF LeadsTo

\* The variables of the CPUs other than c are left alone.
OthersSame(c) ==
    \A d \in Cpus \ {c} :
        /\ pc'[d] = pc[d] /\ want'[d] = want[d] /\ target'[d] = target[d]
        /\ mine'[d] = mine[d] /\ todo'[d] = todo[d] /\ node'[d] = node[d]
        /\ pushed'[d] = pushed[d]

\* A step that changes only what belongs to one CPU.
LEMMA LocalStep ==
    ASSUME NEW c \in Cpus, IInv, Types', OthersSame(c),
           UNCHANGED <<cache, fragment, routine, table>>,
           Local(c)', ~Busy(c)',
           pc'[c] \in {"run", "ibl", "routine"} =>
               \A d \in Cpus \ {c} : Busy(d) => target'[c] # Entry(d)
    PROVE  IInv'
  <1>1. ASSUME NEW d \in Cpus \ {c} PROVE Local(d)'
    BY <1>1 DEF IInv, Local, OthersSame, LeadsTo, IsRoutineFor
  <1>2. ASSUME NEW d \in Cpus \ {c} PROVE Fragment(d)'
    BY <1>2 DEF IInv, Fragment, OthersSame, Busy, Entry
  <1>3. ASSUME NEW d \in Cpus \ {c} PROVE Private(d)'
    BY <1>3 DEF IInv, Private, OthersSame, Busy, Entry
  <1>4. Fragment(c)' /\ Private(c)'
    BY Zenon DEF Fragment, Private
  <1>5. CacheOK' /\ RoutinesOK'
    BY Zenon DEF IInv, CacheOK, RoutinesOK, LeadsTo, IsRoutineFor
  <1> QED BY Zenon, <1>1, <1>2, <1>3, <1>4, <1>5 DEF IInv

\* Code that is reachable is not the uncommitted block of another CPU.
LEMMA ReachableIsNotPrivate ==
    ASSUME IInv, NEW d \in Cpus, Busy(d)
    PROVE  /\ \A a \in Addresses : cache[a] # Entry(d)
           /\ \A r \in Routines : routine[r].target # Entry(d)
           /\ \A p : Native(p) # Entry(d)
           /\ \A r : Hit(r) # Entry(d)
  BY CodeFacts DEF IInv, Private, Entry

\* Nothing is translated and every CPU runs at first.
LEMMA InitIInv == Init => IInv
  <1> SUFFICES ASSUME Init PROVE IInv
    OBVIOUS
  <1>1. Types
    BY Zenon DEF Init, Types, Labels, Unused
  <1>2. \A c \in Cpus : Local(c) /\ Fragment(c) /\ Private(c)
    BY Zenon DEF Init, Local, Fragment, Private, Busy
  <1>3. CacheOK /\ RoutinesOK
    BY Zenon DEF Init, CacheOK, RoutinesOK
  <1> QED BY Zenon, <1>1, <1>2, <1>3 DEF IInv

\* The steps of translated code.
LEMMA BranchStep ==
    ASSUME IInv, NEW c \in Cpus, NEW a \in Branches,
           DirectBranch(c, a) \/ IndirectBranch(c, a)
    PROVE  IInv'
  <1>0. Types
    BY Zenon DEF IInv
  <1>1. Types'
    <2>1. CASE DirectBranch(c, a)
      BY Zenon, <1>0, <2>1 DEF Types, DirectBranch, Step, Labels
    <2>2. CASE IndirectBranch(c, a)
      BY Zenon, <1>0, <2>2 DEF Types, IndirectBranch, Step, Labels
    <2> QED BY Zenon, <2>1, <2>2
  <1>2. OthersSame(c) /\ UNCHANGED <<cache, fragment, routine, table>>
    BY DEF IInv, Types, OthersSame, DirectBranch, IndirectBranch, Step
  <1>3. a \in Addresses /\ IblHash[a.pc] \in DOMAIN table
    BY Zenon, CodeCacheAssumption DEF IInv, Types, Addresses
  <1>4. Local(c)' /\ ~Busy(c)'
    <2>1. CASE DirectBranch(c, a)
      BY Zenon, <1>3, <2>1 DEF IInv, Types, Local, Busy, DirectBranch, Step, Labels
    <2>2. CASE IndirectBranch(c, a)
      <3>1. /\ pc'[c] = "walk" /\ want'[c] = a /\ pushed'[c] = TRUE /\ Indirect(a)
            /\ node'[c] = table[IblHash[a.pc]] /\ routine' = routine
        BY Zenon, <2>2 DEF IInv, Types, IndirectBranch, Step
      <3>2. node'[c] # Global => node'[c] \in Routines /\ routine'[node'[c]] # NoRoutine
        BY Zenon, <1>3, <3>1 DEF IInv, RoutinesOK
      <3> QED BY Zenon, <1>3, <3>1, <3>2 DEF Local, Busy
    <2> QED BY Zenon, <2>1, <2>2
  <1>5. pc'[c] \notin {"run", "ibl", "routine"}
    <2>1. pc \in [Cpus -> Labels]
      BY Zenon, <1>0 DEF Types
    <2>2. pc'[c] \in {"load", "walk"}
      BY Zenon, <2>1 DEF DirectBranch, IndirectBranch, Step
    <2> QED BY Zenon, <2>2
  <1> QED BY Zenon, <1>1, <1>2, <1>4, <1>5, LocalStep

\* Walking a chain of exit routines, and the call of find at its end.
LEMMA IblStep ==
    ASSUME IInv, NEW c \in Cpus,
           Miss(c) \/ IblHit(c) \/ IblMiss(c) \/ ReturnedHit(c)
    PROVE  IInv'
  <1>1. CASE Miss(c)
    <2>1. Types' /\ OthersSame(c) /\ UNCHANGED <<cache, fragment, routine, table>>
      BY Zenon, <1>1 DEF IInv, Types, OthersSame, Miss, Step, Labels
    <2>2. Local(c)' /\ ~Busy(c)' /\ pc'[c] = "walk"
      BY Zenon, <1>1 DEF IInv, Types, Local, Busy, Miss, Step, RoutinesOK
    <2> QED BY Zenon, <2>1, <2>2, LocalStep
  <1>2. CASE IblHit(c)
    <2> DEFINE code == routine[node[c]].target
    <2>1. /\ want[c] \in Addresses /\ node[c] \in Routines
          /\ LeadsTo(code, want[c])
      BY Zenon, <1>2 DEF IInv, Local, RoutinesOK, IblHit
    <2>2. pc' = [pc EXCEPT ![c] = "run"] /\ target' = [target EXCEPT ![c] = code]
      BY <1>2, <2>1, LeadsToFacts, Zenon DEF IblHit, Arrive, Step
    <2>3. Types' /\ OthersSame(c) /\ UNCHANGED <<cache, fragment, routine, table>>
      BY Zenon, <1>2, <2>2 DEF IInv, Types, OthersSame, IblHit, Labels
    <2>4. Local(c)' /\ ~Busy(c)'
      BY Zenon, <1>2, <2>1, <2>2 DEF IInv, Types, Local, Busy, IblHit, LeadsTo
    <2>5. \A d \in Cpus \ {c} : Busy(d) => target'[c] # Entry(d)
      BY <2>1, <2>2, ReachableIsNotPrivate, Zenon DEF IInv, Types
    <2> QED BY Zenon, <2>3, <2>4, <2>5, LocalStep
  <1>3. CASE IblMiss(c)
    <2>1. Types' /\ OthersSame(c) /\ UNCHANGED <<cache, fragment, routine, table>>
      BY Zenon, <1>3 DEF IInv, Types, OthersSame, IblMiss, Step, Labels
    <2>2. Local(c)' /\ ~Busy(c)' /\ pc'[c] = "load"
      BY Zenon, <1>3 DEF IInv, Types, Local, Busy, IblMiss, Step
    <2> QED BY Zenon, <2>1, <2>2, LocalStep
  <1>4. CASE ReturnedHit(c)
    <2>1. PICK r \in Routines : target[c] = Hit(r) /\ IsRoutineFor(r, want[c])
      BY Zenon, <1>4 DEF IInv, Local, ReturnedHit
    <2>2. /\ want[c] \in Addresses /\ LeadsTo(routine[r].target, want[c])
          /\ target[c][2] = r
      BY SMTT(60), <1>4, <2>1, CodeFacts DEF IInv, Local, RoutinesOK, IsRoutineFor, ReturnedHit
    <2>3. /\ pc' = [pc EXCEPT ![c] = "run"]
          /\ target' = [target EXCEPT ![c] = routine[r].target]
      BY <1>4, <2>2, LeadsToFacts, Zenon DEF ReturnedHit, Arrive, Step
    <2>4. Types' /\ OthersSame(c) /\ UNCHANGED <<cache, fragment, routine, table>>
      BY Zenon, <1>4, <2>3 DEF IInv, Types, OthersSame, ReturnedHit, Labels
    <2>5. Local(c)' /\ ~Busy(c)'
      BY <1>4, <2>2, <2>3, Zenon DEF IInv, Types, Local, Busy, ReturnedHit, LeadsTo
    <2>6. \A d \in Cpus \ {c} : Busy(d) => target'[c] # Entry(d)
      BY <2>3, ReachableIsNotPrivate, Zenon DEF IInv, Types
    <2> QED BY Zenon, <2>4, <2>5, <2>6, LocalStep
  <1> QED BY Zenon, <1>1, <1>2, <1>3, <1>4

\* find has a target: what Found does to the CPU.
LEMMA FoundFacts ==
    ASSUME IInv, NEW c \in Cpus, NEW from, NEW code, Found(c, from, code),
           want[c] \in Addresses, LeadsTo(code, want[c])
    PROVE  /\ pc[c] = from
           /\ pc' = [pc EXCEPT ![c] = IF Indirect(want[c]) THEN "ibl" ELSE "run"]
           /\ target' = [target EXCEPT ![c] = code]
  BY Zenon, LeadsToFacts DEF Found, Arrive, Step

\* find returns what it found before it translated anything.
LEMMA FoundStep ==
    ASSUME IInv, NEW c \in Cpus, NEW from, NEW code, Found(c, from, code),
           pc[c] # "run", LeadsTo(code, want[c]),
           \A d \in Cpus \ {c} : Busy(d) => code # Entry(d),
           UNCHANGED <<cache, fragment, routine, table, want, mine, todo, node,
                       pushed>>
    PROVE  IInv'
  <1>1. want[c] \in Addresses /\ (pushed[c] <=> Indirect(want[c]))
    BY Zenon DEF IInv, Local
  <1>2. /\ pc' = [pc EXCEPT ![c] = IF Indirect(want[c]) THEN "ibl" ELSE "run"]
        /\ target' = [target EXCEPT ![c] = code]
    BY Zenon, <1>1, FoundFacts
  <1>3. Types' /\ OthersSame(c)
    BY Zenon, <1>2 DEF IInv, Types, OthersSame, Labels
  <1>4. Local(c)' /\ ~Busy(c)'
    BY Zenon, <1>1, <1>2 DEF IInv, Types, Local, Busy, LeadsTo
  <1>5. target'[c] = code
    BY <1>2, Zenon DEF IInv, Types
  <1> QED BY Zenon, <1>3, <1>4, <1>5, LocalStep

\* The first lookup of find, of the address with its temporary properties.
LEMMA LoadStep ==
    ASSUME IInv, NEW c \in Cpus, Load(c)
    PROVE  IInv'
  <1>1. want[c] \in Addresses /\ (pushed[c] <=> Indirect(want[c]))
    BY Zenon DEF IInv, Local, Load
  <1>2. CASE cache[want[c]] = None
    <2>1. pc' = [pc EXCEPT ![c] = "base"] /\ UNCHANGED target
      BY Zenon, <1>2 DEF Load, Step
    <2>2. Types' /\ OthersSame(c) /\ UNCHANGED <<cache, fragment, routine, table>>
      BY Zenon, <2>1 DEF IInv, Types, OthersSame, Load, Labels
    <2>3. Local(c)' /\ ~Busy(c)' /\ pc'[c] = "base"
      BY <1>1, <2>1, Zenon DEF IInv, Types, Local, Busy, Load
    <2> QED BY Zenon, <2>2, <2>3, LocalStep
  <1>3. CASE cache[want[c]] # None /\ Indirect(want[c])
    <2>1. PICK r \in Routines : cache[want[c]] = Hit(r) /\ IsRoutineFor(r, want[c])
      BY Zenon, <1>1, <1>3 DEF IInv, CacheOK
    <2>2. pc' = [pc EXCEPT ![c] = "hit"] /\ target' = [target EXCEPT ![c] = Hit(r)]
      BY <1>3, <2>1, CodeFacts DEF Load, Arrive, Step
    <2>3. Types' /\ OthersSame(c) /\ UNCHANGED <<cache, fragment, routine, table>>
      BY Zenon, <2>2 DEF IInv, Types, OthersSame, Load, Labels
    <2>4. Local(c)' /\ ~Busy(c)' /\ pc'[c] = "hit"
      BY Zenon, <1>1, <1>3, <2>1, <2>2 DEF IInv, Types, Local, Busy, Load, IsRoutineFor
    <2> QED BY Zenon, <2>3, <2>4, LocalStep
  <1>4. CASE cache[want[c]] # None /\ ~Indirect(want[c])
    <2>1. LeadsTo(cache[want[c]], want[c])
      BY Zenon, <1>1, <1>4 DEF IInv, CacheOK
    <2>2. Found(c, "load", cache[want[c]])
      BY Zenon, <1>4 DEF Load, Found
    <2>3. \A d \in Cpus \ {c} : Busy(d) => cache[want[c]] # Entry(d)
      BY Zenon, <1>1, ReachableIsNotPrivate
    <2>4. /\ pc[c] # "run"
          /\ UNCHANGED <<cache, fragment, routine, table, want, mine, todo, node,
                         pushed>>
      BY Zenon DEF Load
    <2> HIDE DEF Found
    <2> QED BY Zenon, <2>1, <2>2, <2>3, <2>4, FoundStep
  <1> QED BY Zenon, <1>2, <1>3, <1>4

\* An entry of a base address is code for every address with that base.
LEMMA BaseEntry ==
    ASSUME IInv, NEW a \in Addresses, cache[Base(a)] # None
    PROVE  LeadsTo(cache[Base(a)], a)
  BY Zenon, BaseFacts, BaseLeadsTo DEF IInv, CacheOK

\* The second lookup of find, of the base address, and detaching.
LEMMA FindBaseStep ==
    ASSUME IInv, NEW c \in Cpus, FindBase(c)
    PROVE  IInv'
  <1> DEFINE code == KnownTarget(want[c])
  <1>1. want[c] \in Addresses /\ (pushed[c] <=> Indirect(want[c]))
    BY Zenon DEF IInv, Local, FindBase
  <1>2. CASE code = None
    <2>1. pc' = [pc EXCEPT ![c] = "translate"] /\ UNCHANGED target
      BY Zenon, <1>2 DEF FindBase, Step
    <2>2. Types' /\ OthersSame(c) /\ UNCHANGED <<cache, fragment, routine, table>>
      BY Zenon, <2>1 DEF IInv, Types, OthersSame, FindBase, Labels
    <2>3. Local(c)' /\ ~Busy(c)' /\ pc'[c] = "translate"
      BY <1>1, <2>1, Zenon DEF IInv, Types, Local, Busy, FindBase
    <2> QED BY Zenon, <2>2, <2>3, LocalStep
  <1>3. CASE code # None
    <2>1. code = Native(want[c].pc) \/ (code = cache[Base(want[c])])
      BY Zenon, <1>3 DEF KnownTarget
    <2>2. LeadsTo(code, want[c])
      BY Zenon, <1>1, <1>3, <2>1, BaseEntry DEF LeadsTo
    <2>3. Found(c, "base", code)
      BY Zenon, <1>3 DEF FindBase
    <2>4. \A d \in Cpus \ {c} : Busy(d) => code # Entry(d)
      BY Zenon, <1>1, <2>1, BaseFacts, ReachableIsNotPrivate
    <2>5. /\ pc[c] # "run"
          /\ UNCHANGED <<cache, fragment, routine, table, want, mine, todo, node,
                         pushed>>
      BY Zenon DEF FindBase
    <2> HIDE DEF code
    <2> QED BY Zenon, <2>2, <2>3, <2>4, <2>5, FoundStep
  <1> QED BY Zenon, <1>2, <1>3

\* find uses the block of the CPU that was faster.
LEMMA LoadWinnerStep ==
    ASSUME IInv, NEW c \in Cpus, LoadWinner(c)
    PROVE  IInv'
  <1> DEFINE code == cache[Base(want[c])]
  <1>1. want[c] \in Addresses /\ code # None
    BY Zenon DEF IInv, Local, LoadWinner
  <1>2. LeadsTo(code, want[c])
    BY Zenon, <1>1, BaseEntry
  <1>3. \A d \in Cpus \ {c} : Busy(d) => code # Entry(d)
    BY Zenon, <1>1, BaseFacts, ReachableIsNotPrivate
  <1>4. /\ pc[c] # "run" /\ Found(c, "winner", code)
        /\ UNCHANGED <<cache, fragment, routine, table, want, mine, todo, node,
                       pushed>>
    BY Zenon DEF LoadWinner
  <1> HIDE DEF code
  <1> QED BY Zenon, <1>2, <1>3, <1>4, FoundStep

\* find takes the lock of the IBL jump table.
LEMMA LockIblStep ==
    ASSUME IInv, NEW c \in Cpus, LockIbl(c)
    PROVE  IInv'
  <1>1. Types' /\ OthersSame(c) /\ UNCHANGED <<cache, fragment, routine, table>>
    BY Zenon DEF IInv, Types, OthersSame, LockIbl, Step, Labels
  <1>2. Local(c)' /\ ~Busy(c)'
    BY Zenon DEF IInv, Types, Local, Busy, LockIbl, Step, LeadsTo
  <1>3. \A d \in Cpus \ {c} : Busy(d) => target'[c] # Entry(d)
    BY Zenon DEF IInv, Private, LockIbl, Step
  <1> QED BY Zenon, <1>1, <1>2, <1>3, LocalStep

-----------------------------------------------------------------------------
(* The steps that translate blocks and commit to them keep the invariant.  *)

\* A new fragment: nothing leads into it yet.
LEMMA TranslateStep ==
    ASSUME IInv, NEW c \in Cpus, Translate(c)
    PROVE  IInv'
  <1> DEFINE base == Base(want[c])
             f == CHOOSE f \in Fragments : fragment[f].blocks = {}
             trace == TraceFrom(base)
  <1>1. f \in Fragments /\ fragment[f].blocks = {}
    BY Zenon DEF Translate
  <1>2. want[c] \in Addresses /\ base \in Addresses /\ pc[c] = "translate"
    BY Zenon, BaseFacts DEF IInv, Local, Translate
  <1>3. /\ pc' = [pc EXCEPT ![c] = "add"]
        /\ fragment' = [fragment EXCEPT ![f] =
                          [blocks |-> {base} \cup trace, info |-> FALSE]]
        /\ mine' = [mine EXCEPT ![c] = f]
        /\ todo' = [todo EXCEPT ![c] = trace]
        /\ target' = [target EXCEPT ![c] = Block(f, base)]
        /\ UNCHANGED <<cache, routine, table, iblLock, want, node, pushed>>
    BY Zenon DEF Translate, Step
  <1>4. \A b \in trace : b \in Addresses /\ b # base /\ Base(b) = b /\ ~Indirect(b)
    <2> SUFFICES ASSUME NEW b \in trace
                 PROVE  b \in Addresses /\ b # base /\ Base(b) = b /\ ~Indirect(b)
      OBVIOUS
    <2>1. base.pc \in Pcs
      BY Zenon, <1>2 DEF Addresses
    <2>2. PICK p \in Follows[base.pc] : b = BaseOf(p) /\ b # base
      BY Zenon DEF TraceFrom
    <2>3. p \in Pcs
      BY Zenon, <2>1, <2>2, CodeCacheAssumption
    <2> QED BY <2>2, <2>3 DEF BaseOf, Base, Addresses, Vias, Indirect
  <1> HIDE DEF f, trace, base
  <1>5. ASSUME NEW a, NEW code, LeadsTo(code, a)
        PROVE  LeadsTo(code, a)' /\ \A x : code # Block(f, x)
    <2>0. \A g, x, y, q : Native(q) # Block(g, x) /\ (Block(g, x) = Block(f, y) => g = f)
      BY CodeFacts
    <2>1. \A g \in Fragments : g # f => fragment'[g] = fragment[g]
      BY Zenon, <1>3 DEF IInv, Types
    <2>2. CASE code = Native(a.pc)
      BY Zenon, <2>0, <2>2 DEF LeadsTo
    <2>3. CASE \E g \in Fragments : code = Block(g, Base(a)) /\ Base(a) \in fragment[g].blocks
      <3>1. PICK g \in Fragments : code = Block(g, Base(a)) /\ Base(a) \in fragment[g].blocks
        BY Zenon, <2>3
      <3>2. g # f
        BY Zenon, <1>1, <3>1
      <3>3. \A x : code # Block(f, x)
        BY Zenon, <2>0, <3>1, <3>2
      <3>4. Base(a) \in fragment'[g].blocks
        BY Zenon, <2>1, <3>1, <3>2
      <3> QED BY Zenon, <3>1, <3>3, <3>4 DEF LeadsTo
    <2> QED BY Zenon, <1>5, <2>2, <2>3 DEF LeadsTo
  <1>6. Types' /\ OthersSame(c)
    BY <1>1, <1>3, Zenon DEF IInv, Types, OthersSame, Labels
  <1>7. ASSUME NEW d \in Cpus PROVE Local(d)'
    <2>1. CASE d = c
      BY Zenon, <1>2, <1>3, <2>1 DEF IInv, Types, Local
    <2>2. CASE d # c
      BY SMTT(60), <1>3, <1>5, <1>6, <2>2 DEF IInv, Local, OthersSame, IsRoutineFor
    <2> QED BY Zenon, <2>1, <2>2
  <1>8. ASSUME NEW d \in Cpus PROVE Fragment(d)'
    <2>1. CASE d = c
      BY Zenon, <1>1, <1>3, <1>4, <2>1 DEF IInv, Types, Fragment, Entry, base
    <2>2. CASE d # c
      <3>1. Busy(d) => mine[d] # f
        BY Zenon, <1>1 DEF IInv, Fragment
      <3> QED BY <1>3, <1>6, <2>2, <3>1 DEF IInv, Fragment, OthersSame, Busy, Entry
    <2> QED BY Zenon, <2>1, <2>2
  <1>9. ASSUME NEW d \in Cpus PROVE Private(d)'
    <2>1. \A a \in Addresses : \A x : cache[a] # Block(f, x)
      BY <1>5, CodeFacts DEF IInv, CacheOK
    <2>2. \A r \in Routines : \A x : routine[r].target # Block(f, x)
      BY <1>5, CodeFacts DEF IInv, RoutinesOK, NoRoutine
    <2>3. \A e \in Cpus : \A x : pc[e] \in {"run", "ibl", "routine"} =>
                               target[e] # Block(f, x)
      BY <1>5, CodeFacts DEF IInv, Local
    <2>4. \A e \in Cpus : Busy(e) => mine[e] # f
      BY Zenon, <1>1 DEF IInv, Fragment
    <2>5. CASE d = c
      <3>1. Entry(d)' = Block(f, base) /\ mine'[d] = f
        BY Zenon, <1>3, <2>5 DEF IInv, Types, Entry, base
      <3> QED BY <1>3, <1>6, <2>1, <2>2, <2>3, <2>4, <2>5, <3>1
              DEF Private, OthersSame, Busy
    <2>6. CASE d # c
      <3>1. Busy(d)' => Busy(d) /\ Entry(d)' = Entry(d)
        BY Zenon, <1>3, <1>6, <2>6 DEF Busy, Entry, OthersSame
      <3>2. pc'[c] = "add" /\ mine'[c] = f
        BY Zenon, <1>3 DEF IInv, Types
      <3> QED BY <1>3, <1>6, <2>4, <2>6, <3>1, <3>2
              DEF IInv, Private, OthersSame, Busy
    <2> QED BY Zenon, <2>5, <2>6
  <1>10. CacheOK' /\ RoutinesOK'
    BY Zenon, <1>3, <1>5 DEF IInv, CacheOK, RoutinesOK, IsRoutineFor
  <1> QED BY Zenon, <1>6, <1>7, <1>8, <1>9, <1>10 DEF IInv

\* The other blocks of a trace become known; its first block does not.
LEMMA AddStep ==
    ASSUME IInv, NEW c \in Cpus, Add(c)
    PROVE  IInv'
  <1>1. PICK b \in todo[c] :
          /\ cache' = [cache EXCEPT ![b] = Block(mine[c], b)]
          /\ todo' = [todo EXCEPT ![c] = @ \ {b}]
    BY Zenon DEF Add
  <1>2. /\ pc[c] = "add" /\ pc' = pc
        /\ UNCHANGED <<fragment, routine, table, iblLock, want, target, mine, node,
                       pushed>>
    BY DEF Add, Step, IInv, Types
  <1>3. /\ mine[c] \in Fragments /\ b \in fragment[mine[c]].blocks
        /\ b # Base(want[c]) /\ b \in Addresses /\ Base(b) = b /\ ~Indirect(b)
    BY Zenon, <1>1, <1>2 DEF IInv, Fragment, Busy
  <1>4. Types'
    BY Zenon, <1>1, <1>2 DEF IInv, Types
  <1>5. ASSUME NEW d \in Cpus PROVE Local(d)'
    BY SMTT(60), <1>1, <1>2, CodeFacts DEF IInv, Types, Local, LeadsTo, IsRoutineFor
  <1>6. ASSUME NEW d \in Cpus PROVE Fragment(d)'
    BY Zenon, <1>1, <1>2 DEF IInv, Types, Fragment, Busy, Entry
  <1>7. ASSUME NEW d \in Cpus PROVE Private(d)'
    <2>1. Busy(d) => Block(mine[c], b) # Entry(d)
      BY SMTT(60), <1>2, <1>3, CodeFacts DEF IInv, Private, Busy, Entry
    <2> QED BY Zenon, <1>1, <1>2, <2>1 DEF IInv, Types, Private, Busy, Entry
  <1>8. CacheOK'
    <2>1. LeadsTo(Block(mine[c], b), b)'
      BY Zenon, <1>2, <1>3 DEF LeadsTo
    <2> QED BY Zenon, <1>1, <1>2, <1>3, <2>1 DEF IInv, Types, CacheOK, IsRoutineFor, LeadsTo
  <1>9. RoutinesOK'
    BY Zenon, <1>2 DEF IInv, RoutinesOK, LeadsTo
  <1> QED BY Zenon, <1>4, <1>5, <1>6, <1>7, <1>8, <1>9 DEF IInv

\* The meta-information of a fragment is stored; its blocks stay.
LEMMA StoreInfoStep ==
    ASSUME IInv, NEW c \in Cpus, StoreInfo(c)
    PROVE  IInv'
  <1>1. /\ pc[c] = "add" /\ pc' = [pc EXCEPT ![c] = "commit"]
        /\ fragment' = [fragment EXCEPT ![mine[c]].info = TRUE]
        /\ UNCHANGED <<cache, routine, table, iblLock, want, target, mine, todo,
                       node, pushed>>
    BY Zenon DEF StoreInfo, Step
  <1>2. \A f \in Fragments : fragment'[f].blocks = fragment[f].blocks
    BY <1>1 DEF IInv, Types
  <1>3. Types'
    <2>1. \A f \in Fragments : fragment'[f] = [blocks |-> fragment'[f].blocks,
                                               info |-> fragment'[f].info]
      <3> SUFFICES ASSUME NEW f \in Fragments
                   PROVE  fragment'[f] = [blocks |-> fragment'[f].blocks,
                                          info |-> fragment'[f].info]
        BY Zenon
      <3>1. CASE f = mine[c]
        <4>1. fragment[f] = [blocks |-> fragment[f].blocks, info |-> fragment[f].info]
          BY Zenon DEF IInv, Types
        <4>2. fragment'[f] = [fragment[f] EXCEPT !.info = TRUE]
          BY Zenon, <1>1, <3>1 DEF IInv, Types
        <4>3. fragment'[f] = [blocks |-> fragment[f].blocks, info |-> TRUE]
          BY <4>1, <4>2, Zenon
        <4> QED BY Zenon, <4>3
      <3>2. CASE f # mine[c]
        BY Zenon, <1>1, <3>2 DEF IInv, Types
      <3> QED BY Zenon, <3>1, <3>2
    <2>2. DOMAIN fragment' = Fragments /\ pc' \in [Cpus -> Labels]
      BY Zenon, <1>1 DEF IInv, Types, Labels
    <2> QED BY <1>1, <2>1, <2>2, Zenon DEF IInv, Types
  <1>4. \A code, a : LeadsTo(code, a)' = LeadsTo(code, a)
    BY Zenon, <1>2 DEF LeadsTo
  <1>5. ASSUME NEW d \in Cpus PROVE Local(d)' /\ Fragment(d)' /\ Private(d)'
    <2>1. Local(d)'
      BY Zenon, <1>1, <1>4 DEF IInv, Types, Local, IsRoutineFor
    <2>2. Fragment(d)'
      BY <1>1, <1>2 DEF IInv, Types, Fragment, Busy, Entry
    <2>3. Private(d)'
      BY <1>1 DEF IInv, Types, Private, Busy, Entry
    <2> QED BY Zenon, <2>1, <2>2, <2>3
  <1>6. CacheOK' /\ RoutinesOK'
    BY Zenon, <1>1, <1>4 DEF IInv, CacheOK, RoutinesOK, IsRoutineFor
  <1> QED BY Zenon, <1>3, <1>5, <1>6 DEF IInv

\* The first block of a fragment becomes known, and its CPU is done with it.
LEMMA CommitStep ==
    ASSUME IInv, NEW c \in Cpus, CommitBlock(c) \/ CommitTrace(c)
    PROVE  IInv'
  <1> DEFINE base == Base(want[c])
  <1>1. /\ pc[c] = "commit" /\ Found(c, "commit", target[c])
        /\ cache' = [cache EXCEPT ![base] = target[c]]
        /\ mine' = [mine EXCEPT ![c] = None]
        /\ UNCHANGED <<fragment, routine, table, iblLock, want, todo, node, pushed>>
    BY Zenon DEF CommitBlock, CommitTrace
  <1>2. /\ want[c] \in Addresses /\ (pushed[c] <=> Indirect(want[c]))
        /\ base \in Addresses /\ ~Indirect(base) /\ Base(base) = base
    BY Zenon, <1>1, BaseFacts DEF IInv, Local
  <1>3. Busy(c) /\ target[c] = Entry(c)
    BY Zenon, <1>1 DEF IInv, Fragment, Busy
  <1>4. LeadsTo(target[c], want[c]) /\ LeadsTo(target[c], base)
    <2>1. mine[c] \in Fragments /\ base \in fragment[mine[c]].blocks
      BY Zenon, <1>3 DEF IInv, Fragment
    <2> QED BY Zenon, <1>2, <1>3, <2>1 DEF LeadsTo, Entry
  <1>5. /\ pc' = [pc EXCEPT ![c] = IF Indirect(want[c]) THEN "ibl" ELSE "run"]
        /\ target' = [target EXCEPT ![c] = target[c]]
    <2> HIDE DEF Found
    <2> QED BY Zenon, <1>1, <1>2, <1>4, FoundFacts
  <1> HIDE DEF base
  <1>6. Types' /\ OthersSame(c) /\ target'[c] = target[c] /\ ~Busy(c)'
    BY Zenon, <1>1, <1>5 DEF IInv, Types, OthersSame, Labels, Busy
  <1>7. ASSUME NEW d \in Cpus \ {c}, Busy(d)
        PROVE  target[c] # Entry(d)
    BY SMTT(60), <1>3, <1>7, CodeFacts DEF IInv, Private, Entry
  <1>8. /\ \A x, a : LeadsTo(x, a)' = LeadsTo(x, a)
        /\ \A q, a : IsRoutineFor(q, a)' = IsRoutineFor(q, a)
    BY Zenon, <1>1 DEF LeadsTo, IsRoutineFor
  <1>9. Types /\ CacheOK /\ RoutinesOK
    BY Zenon DEF IInv
  <1>10. cache'[base] = target[c] /\ \A a \in Addresses : a # base => cache'[a] = cache[a]
    BY Zenon, <1>1, <1>2, <1>9 DEF Types
  <1>11. ASSUME NEW d \in Cpus PROVE Local(d)'
    <2>1. CASE d = c
      <3>1. pc'[c] = IF Indirect(want[c]) THEN "ibl" ELSE "run"
        BY Zenon, <1>5, <1>9 DEF Types
      <3> QED BY Zenon, <1>1, <1>2, <1>4, <1>6, <1>8, <2>1, <3>1 DEF IInv, Local
    <2>2. CASE d # c
      <3>1. target[c] # None
        BY SMTT(60), <1>3, CodeFacts DEF Entry
      <3>2. pc[d] = "winner" => cache'[Base(want[d])] # None
        <4>1. pc[d] = "winner" => /\ cache[Base(want[d])] # None
                                  /\ Base(want[d]) \in Addresses
          BY Zenon, BaseFacts DEF IInv, Local
        <4> QED BY Zenon, <1>10, <3>1, <4>1
      <3>3. Local(d)
        BY Zenon DEF IInv
      <3>4. /\ pc'[d] = pc[d] /\ want'[d] = want[d] /\ target'[d] = target[d]
            /\ node'[d] = node[d] /\ pushed'[d] = pushed[d] /\ routine' = routine
        BY Zenon, <1>1, <1>6, <2>2 DEF OthersSame
      <3> QED BY <1>8, <3>2, <3>3, <3>4, Zenon DEF Local
    <2> QED BY Zenon, <2>1, <2>2
  <1>12. ASSUME NEW d \in Cpus PROVE Fragment(d)' /\ Private(d)'
    <2>1. CASE d = c
      BY Zenon, <1>6, <2>1 DEF Fragment, Private
    <2>2. CASE d # c
      <3>1. Fragment(d)'
        BY Zenon, <1>1, <1>6, <2>2 DEF IInv, Fragment, OthersSame, Busy, Entry
      <3>2. Busy(d)' => Busy(d) /\ Entry(d)' = Entry(d) /\ mine'[d] = mine[d]
        BY Zenon, <1>1, <1>6, <2>2 DEF OthersSame, Busy, Entry
      <3>3. OthersSame(c) /\ routine' = routine /\ ~Busy(c)' /\ target'[c] = target[c]
        BY Zenon, <1>1, <1>6
      <3>4. Busy(d)' => Private(d) /\ target[c] # Entry(d)
        BY Zenon, <1>7, <2>2, <3>2 DEF IInv
      <3>5. Busy(d)' => \A a \in Addresses : cache'[a] # Entry(d)
        BY Zenon, <1>2, <1>10, <3>2, <3>4 DEF Private
      <3> QED BY <2>2, <3>1, <3>2, <3>3, <3>4, <3>5 DEF Private, OthersSame, Busy
    <2> QED BY Zenon, <2>1, <2>2
  <1>13. CacheOK'
    BY Zenon, <1>2, <1>4, <1>8, <1>9, <1>10 DEF CacheOK
  <1>14. RoutinesOK'
    BY Zenon, <1>1, <1>8, <1>9 DEF RoutinesOK
  <1> QED BY Zenon, <1>6, <1>11, <1>12, <1>13, <1>14 DEF IInv

-----------------------------------------------------------------------------
(* The steps that discard blocks and patch branches, and the theorems.     *)

\* A block that lost is given back: nothing but its CPU ever knew it.
LEMMA DiscardStep ==
    ASSUME IInv, NEW c \in Cpus, DiscardBlock(c)
    PROVE  IInv'
  <1>1. /\ pc[c] = "commit" /\ cache[Base(want[c])] # None
        /\ fragment[mine[c]].blocks = {Base(want[c])}
        /\ pc' = [pc EXCEPT ![c] = "winner"]
        /\ fragment' = [fragment EXCEPT ![mine[c]] = Unused]
        /\ mine' = [mine EXCEPT ![c] = None]
        /\ UNCHANGED <<cache, routine, table, iblLock, want, target, todo, node,
                       pushed>>
    BY Zenon DEF DiscardBlock, Single, Step
  <1>2. /\ want[c] \in Addresses /\ (pushed[c] <=> Indirect(want[c]))
        /\ Busy(c) /\ mine[c] \in Fragments
    BY Zenon, <1>1 DEF IInv, Local, Fragment, Busy
  <1>3. ASSUME NEW code, NEW a, LeadsTo(code, a), code # Entry(c)
        PROVE  LeadsTo(code, a)'
    <2>1. CASE code = Native(a.pc)
      BY Zenon, <2>1 DEF LeadsTo
    <2>2. CASE \E f \in Fragments : code = Block(f, Base(a)) /\ Base(a) \in fragment[f].blocks
      <3>1. PICK f \in Fragments : code = Block(f, Base(a)) /\ Base(a) \in fragment[f].blocks
        BY Zenon, <2>2
      <3>2. f # mine[c]
        BY Zenon, <1>1, <1>3, <3>1 DEF Entry
      <3>3. fragment'[f] = fragment[f]
        BY Zenon, <1>1, <3>2 DEF IInv, Types
      <3> QED BY Zenon, <3>1, <3>3 DEF LeadsTo
    <2> QED BY Zenon, <1>3, <2>1, <2>2 DEF LeadsTo
  <1>4. Types' /\ OthersSame(c) /\ ~Busy(c)' /\ pc'[c] = "winner"
    <2>1. DOMAIN fragment' = Fragments
      BY Zenon, <1>1 DEF IInv, Types
    <2>2. \A f \in Fragments : fragment'[f] = [blocks |-> fragment'[f].blocks,
                                               info |-> fragment'[f].info]
      BY <1>1, Zenon DEF IInv, Types, Unused
    <2> QED BY Zenon, <1>1, <2>1, <2>2 DEF IInv, Types, OthersSame, Labels, Busy
  <1>5. ASSUME NEW d \in Cpus PROVE Local(d)'
    <2>1. CASE d = c
      BY Zenon, <1>1, <1>2, <1>4, <2>1 DEF IInv, Types, Local
    <2>2. CASE d # c
      <3>1. pc[d] \in {"run", "ibl", "routine"} => target[d] # Entry(c)
        BY Zenon, <1>2, <2>2 DEF IInv, Private
      <3> QED BY SMTT(60), <1>1, <1>3, <1>4, <2>2, <3>1
              DEF IInv, Local, OthersSame, IsRoutineFor
    <2> QED BY Zenon, <2>1, <2>2
  <1>6. ASSUME NEW d \in Cpus PROVE Fragment(d)' /\ Private(d)'
    <2>1. CASE d = c
      BY Zenon, <1>4, <2>1 DEF Fragment, Private
    <2>2. CASE d # c
      <3>1. Busy(d) => mine[d] # mine[c]
        BY Zenon, <1>2, <2>2 DEF IInv, Private
      <3>2. Fragment(d)'
        BY Zenon, <1>1, <1>4, <2>2, <3>1 DEF IInv, Types, Fragment, OthersSame, Busy, Entry
      <3>3. Private(d)'
        BY SMTT(60), <1>1, <1>4, <2>2 DEF IInv, Private, OthersSame, Busy, Entry
      <3> QED BY Zenon, <3>2, <3>3
    <2> QED BY Zenon, <2>1, <2>2
  <1>7. CacheOK'
    <2>1. \A a \in Addresses : cache[a] # Entry(c)
      BY Zenon, <1>2 DEF IInv, Private
    <2> QED BY Zenon, <1>1, <1>3, <2>1 DEF IInv, CacheOK, IsRoutineFor
  <1>8. RoutinesOK'
    <2>1. \A r \in Routines : routine[r].target # Entry(c)
      BY Zenon, <1>2 DEF IInv, Private
    <2> QED BY Zenon, <1>1, <1>3, <2>1 DEF IInv, RoutinesOK
  <1> QED BY Zenon, <1>4, <1>5, <1>6, <1>7, <1>8 DEF IInv

\* A new exit routine: the others stay as they are.
LEMMA ExitRoutineStep ==
    ASSUME IInv, NEW c \in Cpus, ExitRoutine(c)
    PROVE  IInv' /\ \A q \in Routines : routine[q] # NoRoutine => routine'[q] = routine[q]
  <1> DEFINE index == IblHash[want[c].pc]
  <1>1. PICK r \in Routines : /\ routine[r] = NoRoutine
                             /\ r = CHOOSE q \in Routines : routine[q] = NoRoutine
    BY Zenon DEF ExitRoutine
  <1>2. /\ pc[c] = "routine" /\ pc' = [pc EXCEPT ![c] = "stub"]
        /\ routine' = [routine EXCEPT ![r] = [guard |-> want[c], target |-> target[c],
                                              next |-> table[index]]]
        /\ table' = [table EXCEPT ![index] = r]
        /\ target' = [target EXCEPT ![c] = Hit(r)]
        /\ UNCHANGED <<cache, fragment, iblLock, want, mine, todo, node, pushed>>
    BY Zenon, <1>1 DEF ExitRoutine, Step
  <1>3. /\ want[c] \in Addresses /\ Indirect(want[c]) /\ pushed[c]
        /\ LeadsTo(target[c], want[c])
    BY Zenon, <1>2 DEF IInv, Local
  <1>4. index \in DOMAIN table
    BY Zenon, <1>3, CodeCacheAssumption DEF IInv, Types, Addresses
  <1> HIDE DEF index
  <1>5. /\ routine'[r].guard = want[c] /\ routine'[r].target = target[c]
        /\ routine'[r].next = table[index] /\ routine'[r] # NoRoutine
    <2>1. routine'[r] = [guard |-> want[c], target |-> target[c], next |-> table[index]]
      BY Zenon, <1>1, <1>2 DEF IInv, Types
    <2>2. target[c] # None
      BY Zenon, <1>3, LeadsToFacts
    <2> QED BY <2>1, <2>2 DEF NoRoutine
  <1>6. \A q \in Routines : q # r => routine'[q] = routine[q]
    BY Zenon, <1>2 DEF IInv, Types
  <1>7. /\ \A q \in Routines : routine[q] # NoRoutine => routine'[q] = routine[q]
        /\ \A q, a : IsRoutineFor(q, a) => IsRoutineFor(q, a)'
    BY Zenon, <1>1, <1>6 DEF IsRoutineFor
  <1>8. Types' /\ OthersSame(c) /\ ~Busy(c)' /\ pc'[c] = "stub" /\ target'[c] = Hit(r)
    BY Zenon, <1>2 DEF IInv, Types, OthersSame, Labels, Busy
  <1>9. ASSUME NEW d \in Cpus PROVE Local(d)'
    <2>1. CASE d = c
      <3>1. IsRoutineFor(r, want[c])'
        BY Zenon, <1>1, <1>2, <1>5 DEF IsRoutineFor
      <3> QED BY <1>1, <1>2, <1>3, <1>8, <2>1, <3>1, Zenon DEF Local
    <2>2. CASE d # c
      <3>1. \A code, a : LeadsTo(code, a)' = LeadsTo(code, a)
        BY Zenon, <1>2 DEF LeadsTo
      <3>2. pc[d] = "walk" /\ node[d] # Global => routine'[node[d]] # NoRoutine
        BY Zenon, <1>7 DEF IInv, Local
      <3>3. /\ pc'[d] = pc[d] /\ want'[d] = want[d] /\ target'[d] = target[d]
            /\ node'[d] = node[d] /\ pushed'[d] = pushed[d] /\ cache' = cache
        BY Zenon, <1>2, <1>8, <2>2 DEF OthersSame
      <3>4. Local(d)
        BY Zenon DEF IInv
      <3>5. pc[d] \in {"hit", "stub"} =>
               \E q \in Routines : target[d] = Hit(q) /\ IsRoutineFor(q, want[d])'
        <4>1. pc[d] \in {"hit", "stub"} =>
                 \E q \in Routines : target[d] = Hit(q) /\ IsRoutineFor(q, want[d])
          BY Zenon, <3>4 DEF Local
        <4>2. \A q \in Routines : IsRoutineFor(q, want[d]) => IsRoutineFor(q, want[d])'
          BY Zenon, <1>7, <3>3 DEF IsRoutineFor
        <4> QED BY Zenon, <4>1, <4>2
      <3> QED BY <3>1, <3>2, <3>3, <3>4, <3>5 DEF Local
    <2> QED BY Zenon, <2>1, <2>2
  <1>10. ASSUME NEW d \in Cpus PROVE Fragment(d)' /\ Private(d)'
    <2>1. CASE d = c
      BY Zenon, <1>8, <2>1 DEF Fragment, Private
    <2>2. CASE d # c
      <3>1. Fragment(d)'
        BY Zenon, <1>2, <1>8, <2>2 DEF IInv, Fragment, OthersSame, Busy, Entry
      <3>2. Busy(d) => target[c] # Entry(d)
        BY Zenon, <1>2, <2>2 DEF IInv, Private
      <3>3. Busy(d)' => Busy(d) /\ Entry(d)' = Entry(d)
        BY Zenon, <1>2, <1>8, <2>2 DEF Busy, Entry, OthersSame
      <3>4. Busy(d)' => \A q \in Routines : routine'[q].target # Entry(d)
        BY Zenon, <1>5, <1>6, <3>2, <3>3 DEF IInv, Private
      <3> QED BY <1>2, <1>8, <2>2, <3>1, <3>3, <3>4
              DEF IInv, Private, OthersSame, Busy
    <2> QED BY Zenon, <2>1, <2>2
  <1>11. CacheOK'
    BY Zenon, <1>2, <1>7 DEF IInv, CacheOK, LeadsTo
  <1>12. RoutinesOK'
    <2>1. \A code, a : LeadsTo(code, a)' = LeadsTo(code, a)
      BY Zenon, <1>2 DEF LeadsTo
    <2>2. table[index] # Global => /\ table[index] \in Routines
                                   /\ routine'[table[index]] # NoRoutine
      BY Zenon, <1>4, <1>7 DEF IInv, RoutinesOK
    <2>3. ASSUME NEW q \in Routines, routine'[q] # NoRoutine
          PROVE  /\ routine'[q].guard \in Addresses /\ Indirect(routine'[q].guard)
                 /\ LeadsTo(routine'[q].target, routine'[q].guard)
                 /\ routine'[q].next # Global => /\ routine'[q].next \in Routines
                                                 /\ routine'[routine'[q].next] # NoRoutine
      <3>1. CASE q = r
        BY Zenon, <1>3, <1>5, <2>2, <3>1
      <3>2. CASE q # r
        <4>1. routine'[q] = routine[q] /\ routine[q] # NoRoutine
          BY Zenon, <1>6, <2>3, <3>2
        <4> QED BY Zenon, <1>7, <4>1 DEF IInv, RoutinesOK
      <3> QED BY Zenon, <3>1, <3>2
    <2>4. \A i \in DOMAIN table' : table'[i] # Global =>
             table'[i] \in Routines /\ routine'[table'[i]] # NoRoutine
      BY Zenon, <1>1, <1>2, <1>4, <1>5, <1>7 DEF IInv, Types, RoutinesOK
    <2> QED BY Zenon, <2>1, <2>3, <2>4 DEF RoutinesOK
  <1> QED BY Zenon, <1>7, <1>8, <1>9, <1>10, <1>11, <1>12 DEF IInv

\* The exit routine becomes the entry of its indirect address, if none is.
LEMMA StoreStubStep ==
    ASSUME IInv, NEW c \in Cpus, StoreStub(c)
    PROVE  IInv'
  <1> DEFINE code == IF cache[want[c]] = None THEN target[c] ELSE cache[want[c]]
  <1>1. /\ pc[c] = "stub"
        /\ cache' = [cache EXCEPT ![want[c]] = code]
        /\ Arrive(c, "stub", cache'[want[c]])
        /\ UNCHANGED <<fragment, routine, table, want, mine, todo, node, pushed>>
    BY Zenon DEF StoreStub
  <1>2. want[c] \in Addresses /\ Indirect(want[c]) /\ pushed[c]
    BY Zenon, <1>1 DEF IInv, Local
  <1>3. PICK r \in Routines : code = Hit(r) /\ IsRoutineFor(r, want[c])
    BY Zenon, <1>1, <1>2 DEF IInv, Local, CacheOK
  <1> HIDE DEF code
  <1>4. cache'[want[c]] = Hit(r)
    BY Zenon, <1>1, <1>2, <1>3 DEF IInv, Types
  <1>5. pc' = [pc EXCEPT ![c] = "hit"] /\ target' = [target EXCEPT ![c] = Hit(r)]
    BY <1>1, <1>4, CodeFacts, Zenon DEF Arrive, Step
  <1>6. Types' /\ OthersSame(c) /\ ~Busy(c)' /\ pc'[c] = "hit" /\ target'[c] = Hit(r)
    BY Zenon, <1>1, <1>5 DEF IInv, Types, OthersSame, Labels, Busy
  <1>7. /\ \A x, a : LeadsTo(x, a)' = LeadsTo(x, a)
        /\ \A q, a : IsRoutineFor(q, a)' = IsRoutineFor(q, a)
    BY Zenon, <1>1 DEF LeadsTo, IsRoutineFor
  <1>8. Types /\ CacheOK /\ RoutinesOK
    BY Zenon DEF IInv
  <1>9. \A a \in Addresses : cache'[a] = IF a = want[c] THEN Hit(r) ELSE cache[a]
    BY Zenon, <1>1, <1>3, <1>8 DEF Types
  <1>10. ASSUME NEW d \in Cpus PROVE Local(d)'
    <2>1. CASE d = c
      BY Zenon, <1>1, <1>2, <1>3, <1>6, <1>7, <2>1 DEF Local
    <2>2. CASE d # c
      <3>1. pc[d] = "winner" => cache'[Base(want[d])] # None
        <4>1. pc[d] = "winner" => /\ cache[Base(want[d])] # None
                                  /\ Base(want[d]) \in Addresses
          BY Zenon, BaseFacts DEF IInv, Local
        <4> QED BY <1>9, <4>1, CodeFacts
      <3>2. Local(d)
        BY Zenon DEF IInv
      <3>3. /\ pc'[d] = pc[d] /\ want'[d] = want[d] /\ target'[d] = target[d]
            /\ node'[d] = node[d] /\ pushed'[d] = pushed[d] /\ routine' = routine
        BY Zenon, <1>1, <1>6, <2>2 DEF OthersSame
      <3> QED BY <1>7, <3>1, <3>2, <3>3, Zenon DEF Local
    <2> QED BY Zenon, <2>1, <2>2
  <1>11. ASSUME NEW d \in Cpus PROVE Fragment(d)' /\ Private(d)'
    <2>1. CASE d = c
      BY Zenon, <1>6, <2>1 DEF Fragment, Private
    <2>2. CASE d # c
      <3>1. Fragment(d)'
        BY Zenon, <1>1, <1>6, <2>2 DEF IInv, Fragment, OthersSame, Busy, Entry
      <3>2. /\ pc'[d] = pc[d] /\ want'[d] = want[d] /\ mine'[d] = mine[d]
            /\ routine' = routine
        BY Zenon, <1>1, <1>6, <2>2 DEF OthersSame
      <3>3. Busy(d)' = Busy(d) /\ Entry(d)' = Entry(d)
        BY Zenon, <3>2 DEF Busy, Entry
      <3>4. Hit(r) # Entry(d)
        BY CodeFacts DEF Entry
      <3>5. Private(d)
        BY Zenon DEF IInv
      <3>6. Busy(d) => \A a \in Addresses : cache'[a] # Entry(d)
        BY Zenon, <1>9, <3>4, <3>5 DEF Private
      <3>7. Busy(d) => \A q \in Routines : routine'[q].target # Entry(d)
        BY <3>2, <3>5, Zenon DEF Private
      <3>8. ASSUME NEW e \in Cpus \ {d}, Busy(d)
            PROVE  /\ pc'[e] \in {"run", "ibl", "routine"} => target'[e] # Entry(d)
                   /\ Busy(e)' => mine'[e] # mine[d]
        <4>1. CASE e = c
          BY Zenon, <1>6, <4>1
        <4>2. CASE e # c
          BY Zenon, <1>6, <3>5, <3>8, <4>2 DEF OthersSame, Private, Busy
        <4> QED BY Zenon, <4>1, <4>2
      <3> QED BY Zenon, <3>1, <3>2, <3>3, <3>6, <3>7, <3>8 DEF Private
    <2> QED BY Zenon, <2>1, <2>2
  <1>12. CacheOK'
    BY Zenon, <1>2, <1>3, <1>7, <1>8, <1>9 DEF CacheOK
  <1>13. RoutinesOK'
    BY Zenon, <1>1, <1>7, <1>8 DEF RoutinesOK
  <1> QED BY Zenon, <1>6, <1>10, <1>11, <1>12, <1>13 DEF IInv

\* Every step of the code cache and of the exit routines keeps IInv.
LEMMA NextIInv == IInv /\ [Next]_vars => IInv'
  <1> SUFFICES ASSUME IInv, [Next]_vars PROVE IInv'
    OBVIOUS
  <1>1. CASE UNCHANGED vars
    <2>1. Types' /\ \A c \in Cpus : Local(c)'
      BY Zenon, <1>1 DEF vars, IInv, Types, Local, IsRoutineFor, LeadsTo
    <2>2. \A c \in Cpus : Fragment(c)' /\ Private(c)'
      BY <1>1, Zenon DEF vars, IInv, Fragment, Private, Busy, Entry
    <2>3. /\ \A x, a : LeadsTo(x, a)' = LeadsTo(x, a)
          /\ \A q, a : IsRoutineFor(q, a)' = IsRoutineFor(q, a)
      BY Zenon, <1>1 DEF vars, LeadsTo, IsRoutineFor
    <2>4. CacheOK' /\ RoutinesOK'
      BY <1>1, <2>3, Zenon DEF vars, IInv, CacheOK, RoutinesOK
    <2> QED BY <2>1, <2>2, <2>4, Zenon DEF IInv
  <1>2. CASE Next
    <2>1. PICK c \in Cpus : Branch(c) \/ Lookup(c)
      BY Zenon, <1>2 DEF Next
    <2>2. CASE Branch(c)
      BY Zenon, <2>2, BranchStep DEF Branch
    <2>3. CASE Lookup(c)
      BY Zenon, <2>3, IblStep, LoadStep, FindBaseStep, TranslateStep, AddStep, StoreInfoStep,
         CommitStep, DiscardStep, LoadWinnerStep, LockIblStep, ExitRoutineStep,
         StoreStubStep, Zenon
      DEF Lookup
    <2> QED BY Zenon, <2>1, <2>2, <2>3
  <1> QED BY Zenon, <1>1, <1>2

-----------------------------------------------------------------------------
\* What is known of the code cache at every step of find, for any number of
\* CPUs: IInv.
THEOREM IInvariant == Spec => []IInv
  BY InitIInv, NextIInv, PTL DEF Spec

\* A branch arrives at code for its target and never in a discarded block,
\* however find interleaves with translations on other CPUs.
THEOREM BranchesArriveRight == Spec => []ArrivesRight
  <1>1. IInv => ArrivesRight
    BY Zenon DEF IInv, Local, ArrivesRight
  <1> QED BY <1>1, IInvariant, PTL

\* Neither an entry of the code cache nor an exit routine leads to a block
\* that find gave back.
THEOREM NothingLeadsToDiscarded == Spec => []ReachableIsLive
  <1>1. IInv => ReachableIsLive
    BY Zenon DEF IInv, CacheOK, RoutinesOK, IsRoutineFor, ReachableIsLive
  <1> QED BY <1>1, IInvariant, PTL

\* find returns the popping half of an exit routine only when the IBL code
\* has pushed.
THEOREM StackStaysBalanced == Spec => []StackBalanced
  <1>1. IInv => StackBalanced
    BY Zenon DEF IInv, Local, StackBalanced
  <1> QED BY <1>1, IInvariant, PTL

\* An exit routine is never changed once it is on a chain, so that code that
\* walks the chain needs no lock.
THEOREM ChainsOnlyGrow == Spec => ChainsGrow
  <1>1. IInv /\ [Next]_vars =>
          [\A r \in Routines : routine[r] # NoRoutine => routine'[r] = routine[r]]_vars
    <2> SUFFICES ASSUME IInv, Next
                 PROVE  \A r \in Routines : routine[r] # NoRoutine =>
                                                 routine'[r] = routine[r]
      OBVIOUS
    <2>1. PICK c \in Cpus : Branch(c) \/ Lookup(c)
      BY Zenon DEF Next
    <2>2. CASE ExitRoutine(c)
      BY Zenon, <2>2, ExitRoutineStep
    <2>3. CASE ~ExitRoutine(c)
      BY Zenon, <2>1, <2>3 DEF Branch, Lookup, DirectBranch, IndirectBranch, Miss, IblHit,
         IblMiss, ReturnedHit, Load, FindBase, Translate, Add, StoreInfo, CommitBlock,
         DiscardBlock, LoadWinner, CommitTrace, LockIbl, StoreStub
    <2> QED BY Zenon, <2>2, <2>3
  <1> QED BY <1>1, IInvariant, PTL DEF Spec, ChainsGrow

-----------------------------------------------------------------------------
(* Code that must be instrumented.                                          *)

\* What find gives to a CPU that is on its way to such code is a block, because
\* only blocks are stored for addresses that are not indirect.
AttachInv ==
    /\ \A a \in Addresses : ~Indirect(a) /\ cache[a] # None => cache[a][1] = "block"
    /\ AttachIsInstrumented

\* Nothing but blocks is stored for an address that is not indirect.
LEMMA StoredBlocks ==
    ASSUME IInv, NEW c \in Cpus, Branch(c) \/ Lookup(c), NEW a \in Addresses, ~Indirect(a)
    PROVE  cache'[a] = cache[a] \/ cache'[a][1] = "block"
  <1>0. Types
    BY Zenon DEF IInv
  <1>1. CASE Add(c)
    <2>1. PICK b \in todo[c] : cache' = [cache EXCEPT ![b] = Block(mine[c], b)]
      BY Zenon, <1>1 DEF Add
    <2>2. cache'[a] = cache[a] \/ cache'[a] = Block(mine[c], b)
      BY Zenon, <1>0, <2>1 DEF Types
    <2> QED BY Zenon, <2>2, BlockTag
  <1>2. CASE CommitBlock(c) \/ CommitTrace(c)
    <2>1. /\ pc[c] = "commit"
          /\ cache' = [cache EXCEPT ![Base(want[c])] = target[c]]
      BY Zenon, <1>2 DEF CommitBlock, CommitTrace
    <2>2. target[c] = Entry(c)
      BY Zenon, <2>1 DEF IInv, Fragment, Busy
    <2>3. target[c][1] = "block"
      BY Zenon, <2>2, BlockTag DEF Entry
    <2> QED BY Zenon, <1>0, <2>1, <2>3 DEF Types
  <1>3. CASE StoreStub(c)
    <2>1. Indirect(want[c])
      BY Zenon, <1>3 DEF IInv, Local, StoreStub
    <2>2. a # want[c]
      BY Zenon, <2>1
    <2> QED BY Zenon, <1>0, <1>3, <2>2 DEF StoreStub, Types
  <1>4. CASE ~ (Add(c) \/ CommitBlock(c) \/ CommitTrace(c) \/ StoreStub(c))
    <2>1. cache' = cache
      BY Zenon, <1>4 DEF Branch, Lookup, DirectBranch, IndirectBranch, Miss, IblHit,
         IblMiss, ReturnedHit, Load, FindBase, Translate, StoreInfo, DiscardBlock,
         LoadWinner, LockIbl, ExitRoutine
    <2> QED BY Zenon, <2>1
  <1> QED BY Zenon, <1>1, <1>2, <1>3, <1>4

\* A step of a CPU leaves the others alone.
LEMMA StepIsOwn ==
    ASSUME IInv, NEW c \in Cpus, Branch(c) \/ Lookup(c), NEW d \in Cpus \ {c}
    PROVE  pc'[d] = pc[d] /\ want'[d] = want[d] /\ target'[d] = target[d]
  <1>1. DOMAIN pc = Cpus /\ DOMAIN want = Cpus /\ DOMAIN target = Cpus
    BY Zenon DEF IInv, Types
  <1>2. pc' = pc \/ \E x : pc' = [pc EXCEPT ![c] = x]
    BY Zenon DEF Branch, Lookup, DirectBranch, IndirectBranch, Miss, IblHit,
       IblMiss, ReturnedHit, Load, FindBase, Translate, Add, StoreInfo, CommitBlock,
       DiscardBlock, LoadWinner, CommitTrace, LockIbl, ExitRoutine, StoreStub, Arrive,
       Found, Step
  <1>3. want' = want \/ \E x : want' = [want EXCEPT ![c] = x]
    BY Zenon DEF Branch, Lookup, DirectBranch, IndirectBranch, Miss, IblHit,
       IblMiss, ReturnedHit, Load, FindBase, Translate, Add, StoreInfo, CommitBlock,
       DiscardBlock, LoadWinner, CommitTrace, LockIbl, ExitRoutine, StoreStub
  <1>4. target' = target \/ \E x : target' = [target EXCEPT ![c] = x]
    BY Zenon DEF Branch, Lookup, DirectBranch, IndirectBranch, Miss, IblHit,
       IblMiss, ReturnedHit, Load, FindBase, Translate, Add, StoreInfo, CommitBlock,
       DiscardBlock, LoadWinner, CommitTrace, LockIbl, ExitRoutine, StoreStub, Arrive,
       Found
  <1> QED BY Zenon, <1>1, <1>2, <1>3, <1>4

\* find leads a branch that must be instrumented to a block, or to code of
\* Granary's own.
LEMMA LeadsToBlock ==
    ASSUME IInv, AttachInv, NEW c \in Cpus, Branch(c) \/ Lookup(c),
           pc'[c] = "run", want'[c].via = "attach"
    PROVE  target'[c][1] = "block" \/ want'[c].pc \in Own
  <1>0. Types /\ Local(c) /\ Fragment(c)
    BY Zenon DEF IInv
  <1>1. CASE Branch(c)
    <2>1. pc'[c] \in {"load", "walk"}
      BY Zenon, <1>0, <1>1 DEF Branch, DirectBranch, IndirectBranch, Step, Types
    <2> QED BY Zenon, <2>1
  <1>2. CASE Lookup(c)
    <2>1. want' = want /\ pc[c] # "run"
      BY Zenon, <1>2 DEF Lookup, Miss, IblHit,
         IblMiss, ReturnedHit, Load, FindBase, Translate, Add, StoreInfo, CommitBlock,
         DiscardBlock, LoadWinner, CommitTrace, LockIbl, ExitRoutine, StoreStub, Arrive, Step
    <2>2. want[c].via = "attach" /\ want[c] \in Addresses /\ ~Indirect(want[c]) /\ ~CanDetach(want[c])
      BY Zenon, <1>0, <2>1 DEF Local, Indirect, CanDetach
    <2>3. pc[c] \notin {"walk", "hit", "ibl", "routine", "stub"}
      BY Zenon, <1>0, <2>2 DEF Local
    <2>4. pc[c] \in {"load", "base", "winner", "commit"}
      <3>1. CASE Translate(c) \/ Add(c) \/ StoreInfo(c)
        <4>1. pc'[c] \in {"add", "commit"}
          BY Zenon, <1>0, <3>1 DEF Types, Translate, Add, StoreInfo, Step
        <4> QED BY Zenon, <4>1
      <3> QED BY Zenon, <1>2, <2>3, <3>1 DEF Lookup, Miss, IblHit,
         IblMiss, ReturnedHit, Load, FindBase, CommitBlock,
         DiscardBlock, LoadWinner, CommitTrace, LockIbl, ExitRoutine, StoreStub, Arrive, Step
    <2>5. CASE Load(c)
      <3>1. cache[want[c]] # None
        BY Zenon, <1>0, <2>5 DEF Load, Types, Step
      <3>2. target'[c] = cache[want[c]]
        BY Zenon, <1>0, <2>5, <3>1 DEF Load, Types, Arrive
      <3> QED BY Zenon, <2>2, <3>1, <3>2 DEF AttachInv
    <2>6. CASE FindBase(c)
      <3>1. KnownTarget(want[c]) # None
        BY Zenon, <1>0, <2>6 DEF FindBase, Types, Step
      <3>2. target'[c] = KnownTarget(want[c])
        BY Zenon, <1>0, <2>2, <2>6, <3>1 DEF FindBase, Types, Arrive, Found
      <3>3. want[c].pc \in Own \/ (target'[c] = cache[Base(want[c])] /\ cache[Base(want[c])] # None)
        BY Zenon, <2>2, <3>1, <3>2 DEF KnownTarget
      <3> QED BY Zenon, <2>1, <2>2, <3>3, BaseFacts DEF AttachInv
    <2>7. CASE LoadWinner(c)
      <3>1. cache[Base(want[c])] # None
        BY Zenon, <1>0, <2>7 DEF Local, LoadWinner
      <3>2. target'[c] = cache[Base(want[c])]
        BY Zenon, <1>0, <2>2, <2>7 DEF LoadWinner, Types, Arrive, Found
      <3> QED BY Zenon, <2>2, <3>1, <3>2, BaseFacts DEF AttachInv
    <2>8. CASE CommitBlock(c) \/ CommitTrace(c)
      <3>1. target[c] = Entry(c)
        BY Zenon, <1>0, <2>8 DEF Fragment, Busy, CommitBlock, CommitTrace
      <3>2. target'[c] = target[c]
        BY Zenon, <1>0, <2>2, <2>8 DEF CommitBlock, CommitTrace, Types, Arrive, Found
      <3> QED BY Zenon, <3>1, <3>2, BlockTag DEF Entry
    <2>9. CASE DiscardBlock(c)
      BY Zenon, <1>0, <2>9 DEF DiscardBlock, Step, Types
    <2> QED BY Zenon, <1>2, <2>4, <2>5, <2>6, <2>7, <2>8, <2>9 DEF Lookup, Miss, IblHit,
         IblMiss, ReturnedHit, Translate, Add, StoreInfo, LockIbl, ExitRoutine, StoreStub, Arrive, Step
  <1> QED BY Zenon, <1>1, <1>2

\* Every step of find and of the exit routines keeps AttachInv.
LEMMA NextAttachInv == IInv /\ AttachInv /\ [Next]_vars => AttachInv'
  <1> SUFFICES ASSUME IInv, AttachInv, [Next]_vars PROVE AttachInv'
    OBVIOUS
  <1>1. CASE UNCHANGED vars
    BY Zenon, <1>1 DEF vars, AttachInv, AttachIsInstrumented
  <1>2. CASE Next
    <2>1. PICK c \in Cpus : Branch(c) \/ Lookup(c)
      BY Zenon, <1>2 DEF Next
    <2>2. ASSUME NEW a \in Addresses, ~Indirect(a), cache'[a] # None PROVE cache'[a][1] = "block"
      BY Zenon, <2>1, <2>2, StoredBlocks DEF AttachInv
    <2>3. ASSUME NEW d \in Cpus, pc'[d] = "run", target'[d] # None, want'[d].via = "attach"
          PROVE  target'[d][1] = "block" \/ want'[d].pc \in Own
      <3>1. CASE d = c
        BY Zenon, <2>1, <2>3, <3>1, LeadsToBlock
      <3>2. CASE d # c
        <4>1. pc'[d] = pc[d] /\ want'[d] = want[d] /\ target'[d] = target[d]
          BY Zenon, <2>1, <3>2, StepIsOwn
        <4> QED BY Zenon, <2>3, <4>1 DEF AttachInv, AttachIsInstrumented
      <3> QED BY Zenon, <3>1, <3>2
    <2> QED BY Zenon, <2>2, <2>3 DEF AttachInv, AttachIsInstrumented
  <1> QED BY Zenon, <1>1, <1>2

\* Code that is attached to with force is instrumented when it is reached, also
\* if find takes other CPUs off it at a detach point.
THEOREM AttachedIsInstrumented == Spec => []AttachIsInstrumented
  <1>1. ASSUME Init PROVE AttachInv
    <2>1. (\A a \in Addresses : cache[a] = None) /\ (\A c \in Cpus : target[c] = None)
      BY Zenon, <1>1 DEF Init
    <2> QED BY Zenon, <2>1 DEF AttachInv, AttachIsInstrumented
  <1>2. AttachInv => AttachIsInstrumented
    BY Zenon DEF AttachInv
  <1> QED BY <1>1, <1>2, NextAttachInv, IInvariant, PTL DEF Spec

-----------------------------------------------------------------------------
(* The chains of exit routines.                                             *)

Ends == Routines \cup {Global}

\* The routines that n steps lead to, where rt are the exit routines.
ReachesIn(rt) ==
    CHOOSE f : f = [n \in Nat |->
        [r \in Routines \cup {Global} |->
            IF r = Global THEN {}
            ELSE {r} \cup (IF n = 0 THEN {} ELSE f[n - 1][rt[r].next])]]

\* Every routine leads to a routine or to the global lookup routine.
Linked(rt) == \A r \in Routines : rt[r].next \in Ends

\* What the jumps at the ends of the exit routines lead to.
LEMMA ReachesInIs ==
    ASSUME NEW rt, Linked(rt)
    PROVE  /\ \A n \in Nat : ReachesIn(rt)[n][Global] = {}
           /\ \A r \in Routines : ReachesIn(rt)[0][r] = {r}
           /\ \A n \in Nat, r \in Routines :
                 ReachesIn(rt)[n + 1][r] = {r} \cup ReachesIn(rt)[n][rt[r].next]
  <1> DEFINE S == [Ends -> SUBSET Routines]
             z == [r \in Ends |-> IF r = Global THEN {} ELSE {r}]
             g(h) == [r \in Ends |-> IF r = Global THEN {} ELSE {r} \cup h[rt[r].next]]
             G == [n \in Nat |-> [h \in S |-> g(h)]]
             Body(f) == [n \in Nat |->
                [r \in Routines \cup {Global} |->
                    IF r = Global THEN {}
                    ELSE {r} \cup (IF n = 0 THEN {} ELSE f[n - 1][rt[r].next])]]
  <1>0. Global \notin Routines
    BY CodeCacheAssumption
  <1>1. z \in S
    BY DEF Ends
  <1>2. ASSUME NEW h \in S PROVE g(h) \in S
    <2>1. ASSUME NEW r \in Routines PROVE h[rt[r].next] \in SUBSET Routines
      BY Zenon DEF Linked
    <2> HIDE DEF g
    <2>2. \A r \in Ends : g(h)[r] \in SUBSET Routines
      BY <2>1 DEF Ends, g
    <2>3. g(h) = [r \in Ends |-> g(h)[r]]
      BY Zenon DEF g
    <2> QED BY Zenon, <2>2, <2>3
  <1> HIDE DEF z, g, S
  <1>3. G \in [Nat -> [S -> S]]
    BY Zenon, <1>2
  <1> HIDE DEF G
  <1>4. PICK F \in [Nat -> S] : F[0] = z /\ \A n \in Nat \ {0} : F[n] = G[n][F[n - 1]]
    <2>1. HasSolution(S, z, G)
      BY Zenon, <1>1, <1>3, RecursionExists
    <2> QED BY Zenon, <2>1 DEF HasSolution
  <1>5. ASSUME NEW n \in Nat \ {0} PROVE F[n] = g(F[n - 1])
    <2>1. n - 1 \in Nat
      OBVIOUS
    <2>2. F[n - 1] \in S
      BY Zenon, <2>1
    <2> QED BY Zenon, <1>4, <2>2 DEF G
  <1>6. F = Body(F)
    <2>1. F = [n \in Nat |-> F[n]]
      BY Zenon
    <2>2. ASSUME NEW n \in Nat
          PROVE  F[n] = [r \in Routines \cup {Global} |->
                    IF r = Global THEN {}
                    ELSE {r} \cup (IF n = 0 THEN {} ELSE F[n - 1][rt[r].next])]
      <3>1. CASE n = 0
        BY <1>4, <3>1 DEF z, Ends
      <3>2. CASE n # 0
        <4>1. F[n] = g(F[n - 1])
          BY Zenon, <1>5, <3>2
        <4> QED BY <3>2, <4>1 DEF g, Ends
      <3> QED BY Zenon, <3>1, <3>2
    <2> QED BY Zenon, <2>1, <2>2
  <1> DEFINE R == ReachesIn(rt)
  <1>7. R = Body(R)
    <2>1. R = CHOOSE f : f = Body(f)
      BY Zenon DEF ReachesIn
    <2> HIDE DEF Body, R
    <2> QED BY Zenon, <1>6, <2>1
  <1> HIDE DEF R
  <1>8. ASSUME NEW n \in Nat PROVE R[n][Global] = {}
    BY Zenon, <1>7
  <1>9. ASSUME NEW r \in Routines PROVE R[0][r] = {r}
    <2>1. R[0] = [q \in Routines \cup {Global} |->
                    IF q = Global THEN {}
                    ELSE {q} \cup (IF 0 = 0 THEN {} ELSE R[0 - 1][rt[q].next])]
      BY Zenon, <1>7
    <2> QED BY <1>0, <2>1
  <1>10. ASSUME NEW n \in Nat, NEW r \in Routines PROVE R[n + 1][r] = {r} \cup R[n][rt[r].next]
    <2>1. n + 1 \in Nat /\ n + 1 # 0 /\ (n + 1) - 1 = n
      OBVIOUS
    <2>2. R[n + 1] = [q \in Routines \cup {Global} |->
                    IF q = Global THEN {}
                    ELSE {q} \cup (IF n + 1 = 0 THEN {} ELSE R[(n + 1) - 1][rt[q].next])]
      BY Zenon, <1>7, <2>1
    <2> QED BY <1>0, <2>1, <2>2
  <1> QED BY Zenon, <1>8, <1>9, <1>10 DEF R

\* More steps lead to more routines.
LEMMA ReachesMore ==
    ASSUME NEW rt, Linked(rt), NEW m \in Nat, NEW n \in Nat, m <= n, NEW r \in Ends
    PROVE  ReachesIn(rt)[m][r] \subseteq ReachesIn(rt)[n][r]
  <1> DEFINE R == ReachesIn(rt)
             Bad == {k \in Nat : \E q \in Ends : ~ (R[k][q] \subseteq R[k + 1][q])}
             Far == {k \in Nat : m <= k /\ ~ (R[m][r] \subseteq R[k][r])}
  <1>0. /\ \A k \in Nat : R[k][Global] = {}
        /\ \A q \in Routines : R[0][q] = {q}
        /\ \A k \in Nat, q \in Routines : R[k + 1][q] = {q} \cup R[k][rt[q].next]
    BY Zenon, ReachesInIs
  <1> HIDE DEF R
  <1>1. Bad = {}
    <2> SUFFICES ASSUME Bad # {} PROVE FALSE
      OBVIOUS
    <2>1. Bad \in SUBSET Nat
      OBVIOUS
    <2>2. PICK k \in Bad : \A e \in Bad : k <= e
      <3> HIDE DEF Bad
      <3> QED BY Zenon, <2>1, Smallest
    <2>3. PICK q \in Ends : ~ (R[k][q] \subseteq R[k + 1][q])
      OBVIOUS
    <2>4. k \in Nat /\ k + 1 \in Nat
      OBVIOUS
    <2>5. q \in Routines
      BY <1>0, <2>3, <2>4 DEF Ends
    <2>6. CASE k = 0
      BY <1>0, <2>3, <2>5, <2>6
    <2>7. CASE k # 0
      <3>1. k - 1 \in Nat /\ k - 1 \notin Bad /\ (k - 1) + 1 = k
        BY <2>2, <2>4, <2>7
      <3>2. rt[q].next \in Ends
        BY Zenon, <2>5 DEF Linked
      <3>3. R[k - 1][rt[q].next] \subseteq R[(k - 1) + 1][rt[q].next]
        BY Zenon, <3>1, <3>2
      <3>4. R[(k - 1) + 1][q] = {q} \cup R[k - 1][rt[q].next]
        BY Zenon, <1>0, <2>5, <3>1
      <3>5. R[k + 1][q] = {q} \cup R[k][rt[q].next]
        BY Zenon, <1>0, <2>4, <2>5
      <3> QED BY Zenon, <2>3, <3>1, <3>3, <3>4, <3>5
    <2> QED BY Zenon, <2>6, <2>7
  <1>2. Far = {}
    <2> SUFFICES ASSUME Far # {} PROVE FALSE
      OBVIOUS
    <2>1. Far \in SUBSET Nat
      OBVIOUS
    <2>2. PICK k \in Far : \A e \in Far : k <= e
      <3> HIDE DEF Far
      <3> QED BY Zenon, <2>1, Smallest
    <2>3. k \in Nat /\ m <= k /\ ~ (R[m][r] \subseteq R[k][r])
      OBVIOUS
    <2>4. k # m
      BY Zenon, <2>3
    <2>5. k - 1 \in Nat /\ k - 1 \notin Far /\ m <= k - 1 /\ (k - 1) + 1 = k
      BY <2>2, <2>3, <2>4
    <2>6. R[m][r] \subseteq R[k - 1][r]
      BY Zenon, <2>5
    <2>7. R[k - 1][r] \subseteq R[(k - 1) + 1][r]
      BY Zenon, <1>1, <2>5
    <2> QED BY Zenon, <2>3, <2>5, <2>6, <2>7
  <1> QED BY Zenon, <1>2 DEF R

\* The routines of U stay as they are, and lead to each other.
Kept(U, rt, nt) ==
    /\ U \in SUBSET Routines
    /\ \A r \in U : nt[r] = rt[r] /\ rt[r].next \in U \cup {Global}

\* A walk over routines that stay as they are leads where it did.
LEMMA ReachesSame ==
    ASSUME NEW rt, NEW nt, Linked(rt), Linked(nt), NEW U, Kept(U, rt, nt),
           NEW n \in Nat, NEW r \in U \cup {Global}
    PROVE  ReachesIn(nt)[n][r] = ReachesIn(rt)[n][r]
  <1> DEFINE R == ReachesIn(rt)
             N == ReachesIn(nt)
             Bad == {k \in Nat : \E q \in U \cup {Global} : N[k][q] # R[k][q]}
  <1>0. /\ \A k \in Nat : R[k][Global] = {} /\ N[k][Global] = {}
        /\ \A q \in Routines : R[0][q] = {q} /\ N[0][q] = {q}
        /\ \A k \in Nat, q \in Routines : R[k + 1][q] = {q} \cup R[k][rt[q].next]
        /\ \A k \in Nat, q \in Routines : N[k + 1][q] = {q} \cup N[k][nt[q].next]
    BY Zenon, ReachesInIs
  <1> HIDE DEF R, N
  <1> SUFFICES ASSUME Bad # {} PROVE FALSE
    BY Zenon DEF R, N
  <1>1. Bad \in SUBSET Nat
    OBVIOUS
  <1>2. PICK k \in Bad : \A e \in Bad : k <= e
    <2> HIDE DEF Bad
    <2> QED BY Zenon, <1>1, Smallest
  <1>3. PICK q \in U \cup {Global} : N[k][q] # R[k][q]
    OBVIOUS
  <1>4. k \in Nat
    OBVIOUS
  <1>5. q \in U /\ q \in Routines
    BY Zenon, <1>0, <1>3, <1>4 DEF Kept
  <1>6. k # 0
    <2>1. R[0][q] = {q} /\ N[0][q] = {q}
      BY Zenon, <1>0, <1>5
    <2> QED BY Zenon, <1>3, <2>1
  <1>7. k - 1 \in Nat /\ k - 1 \notin Bad /\ (k - 1) + 1 = k
    BY <1>2, <1>4, <1>6
  <1>8. N[k - 1][rt[q].next] = R[k - 1][rt[q].next] /\ nt[q].next = rt[q].next
    BY Zenon, <1>5, <1>7 DEF Kept
  <1>9. /\ R[(k - 1) + 1][q] = {q} \cup R[k - 1][rt[q].next]
        /\ N[(k - 1) + 1][q] = {q} \cup N[k - 1][nt[q].next]
    <2>1. k - 1 \in Nat /\ q \in Routines
      BY Zenon, <1>5, <1>7
    <2>2. \A j \in Nat, s \in Routines : R[j + 1][s] = {s} \cup R[j][rt[s].next]
      BY Zenon, <1>0
    <2>3. R[(k - 1) + 1][q] = {q} \cup R[k - 1][rt[q].next]
      BY Zenon, <2>1, <2>2
    <2>4. \A j \in Nat, s \in Routines : N[j + 1][s] = {s} \cup N[j][nt[s].next]
      BY Zenon, <1>0
    <2>5. N[(k - 1) + 1][q] = {q} \cup N[k - 1][nt[q].next]
      BY Zenon, <2>1, <2>4
    <2> QED BY Zenon, <2>3, <2>5
  <1> QED BY Zenon, <1>3, <1>7, <1>8, <1>9

\* The exit routines that were made.
Used == {r \in Routines : routine[r] # NoRoutine}

\* Each of them is on the chain that its hash selects, no further away than the
\* number of routines.
OnChain(r, rt, tbl, m) ==
    \E n \in Nat : n <= m /\ r \in ReachesIn(rt)[n][tbl[IblHash[rt[r].guard.pc]]]

ChainInv == \A r \in Used : OnChain(r, routine, table, Cardinality(Used))

\* The jumps of the exit routines lead to exit routines that were made, or to the
\* global lookup routine.
LEMMA LinkedFacts ==
    ASSUME IInv
    PROVE  /\ Linked(routine)
           /\ \A r \in Used : routine[r].next \in Used \cup {Global}
           /\ \A a \in Addresses : /\ IblHash[a.pc] \in DOMAIN table
                                   /\ table[IblHash[a.pc]] \in Used \cup {Global}
  <1>1. \A r \in Used : routine[r].next \in Used \cup {Global}
    BY Zenon DEF IInv, RoutinesOK, Used
  <1>2. Linked(routine)
    BY <1>1 DEF Linked, Ends, Used, NoRoutine
  <1>3. ASSUME NEW a \in Addresses
        PROVE  IblHash[a.pc] \in DOMAIN table /\ table[IblHash[a.pc]] \in Used \cup {Global}
    <2>1. IblHash[a.pc] \in DOMAIN table
      BY Zenon, CodeCacheAssumption DEF IInv, Types, Addresses
    <2> QED BY Zenon, <2>1 DEF IInv, RoutinesOK, Used
  <1> QED BY Zenon, <1>1, <1>2, <1>3

\* The same after a step.
LEMMA LinkedNext == IInv' => Linked(routine)'
  <1>1. IInv => Linked(routine)
    BY Zenon, LinkedFacts
  <1> QED BY <1>1, PTL

\* A new exit routine is put in front: it does not take the others off their
\* chains.
LEMMA ExitRoutineChains ==
    ASSUME IInv, IInv', ChainInv, NEW c \in Cpus, ExitRoutine(c)
    PROVE  ChainInv'
  <1> DEFINE index == IblHash[want[c].pc]
             m == Cardinality(Used)
  <1>1. PICK r \in Routines : /\ routine[r] = NoRoutine
                             /\ r = CHOOSE q \in Routines : routine[q] = NoRoutine
    BY Zenon DEF ExitRoutine
  <1>2. /\ pc[c] = "routine"
        /\ routine' = [routine EXCEPT ![r] = [guard |-> want[c], target |-> target[c],
                                              next |-> table[index]]]
        /\ table' = [table EXCEPT ![index] = r]
    BY Zenon, <1>1 DEF ExitRoutine, Step
  <1>3. want[c] \in Addresses
    BY Zenon, <1>2 DEF IInv, Local
  <1>4. /\ index \in DOMAIN table /\ table[index] \in Used \cup {Global}
        /\ Linked(routine) /\ Linked(routine')
    <2>1. Linked(routine)'
      BY Zenon, LinkedNext
    <2>2. Linked(routine')
      BY Zenon, <2>1 DEF Linked
    <2> QED BY Zenon, <1>3, <2>2, LinkedFacts
  <1>5. /\ routine'[r].guard = want[c] /\ routine'[r].next = table[index]
        /\ \A q \in Routines : q # r => routine'[q] = routine[q]
    BY <1>1, <1>2 DEF IInv, Types
  <1>6. /\ table'[index] = r
        /\ \A i \in DOMAIN table : i # index => table'[i] = table[i]
    BY Zenon, <1>2, <1>4
  <1>7. \A q \in Used : q # r /\ routine'[q] = routine[q]
    BY Zenon, <1>1, <1>5 DEF Used
  <1>8. Used' = Used \cup {r} /\ r \notin Used
    <2>1. routine'[r] # NoRoutine
      <3>1. want[c] # None
        BY <1>3 DEF Addresses, None
      <3> QED BY <1>5, <3>1 DEF NoRoutine
    <2>2. \A q \in Routines : routine'[q] # NoRoutine <=> q = r \/ routine[q] # NoRoutine
      BY Zenon, <1>5, <2>1
    <2>3. Used' = {q \in Routines : routine'[q] # NoRoutine}
      BY Zenon DEF Used
    <2> QED BY <1>1, <2>2, <2>3 DEF Used
  <1>9. m \in Nat /\ Cardinality(Used') = m + 1
    <2>1. IsFiniteSet(Used)
      <3>1. Used \subseteq Routines
        BY Zenon DEF Used
      <3> QED BY Zenon, <3>1, CodeCacheAssumption, FS_Subset
    <2>2. Cardinality(Used \cup {r}) = Cardinality(Used) + 1
      BY <1>8, <2>1, FS_AddElement
    <2>3. Cardinality(Used) \in Nat
      BY Zenon, <2>1, FS_CardinalityType
    <2> QED BY Zenon, <1>8, <2>2, <2>3
  <1> HIDE DEF m, index
  <1>10. \A n \in Nat, q \in Used \cup {Global} :
            ReachesIn(routine')[n][q] = ReachesIn(routine)[n][q]
    <2>1. \A q \in Used : routine'[q] = routine[q] /\ routine[q].next \in Used \cup {Global}
      BY Zenon, <1>7, LinkedFacts
    <2>2. Used \in SUBSET Routines
      BY Zenon DEF Used
    <2>3. Kept(Used, routine, routine')
      BY Zenon, <2>1, <2>2 DEF Kept
    <2> SUFFICES ASSUME NEW n \in Nat, NEW q \in Used \cup {Global}
                 PROVE  ReachesIn(routine')[n][q] = ReachesIn(routine)[n][q]
      BY Zenon
    <2> QED BY <1>4, <2>3, ReachesSame
  <1>11. ASSUME NEW q \in Used PROVE OnChain(q, routine', table', m + 1)
    <2> DEFINE i == IblHash[routine[q].guard.pc]
    <2>1. PICK n \in Nat : n <= m /\ q \in ReachesIn(routine)[n][table[i]]
      BY Zenon DEF ChainInv, OnChain, m
    <2>2. routine[q].guard \in Addresses
      BY Zenon DEF IInv, RoutinesOK, Used
    <2>3. i \in DOMAIN table /\ table[i] \in Used \cup {Global}
      BY Zenon, <2>2, LinkedFacts
    <2>4. IblHash[routine'[q].guard.pc] = i
      BY Zenon, <1>7
    <2> HIDE DEF i
    <2>5. q \in ReachesIn(routine')[n][table[i]]
      BY Zenon, <1>10, <2>1, <2>3
    <2>6. CASE i = index
      <3>1. ReachesIn(routine')[n + 1][r] = {r} \cup ReachesIn(routine')[n][routine'[r].next]
        <4>1. \A k \in Nat, s \in Routines :
                 ReachesIn(routine')[k + 1][s] = {s} \cup ReachesIn(routine')[k][routine'[s].next]
          BY Zenon, <1>4, ReachesInIs
        <4> QED BY Zenon, <4>1
      <3>2. q \in ReachesIn(routine')[n + 1][table'[i]]
        BY Zenon, <1>5, <1>6, <2>5, <2>6, <3>1
      <3>3. n + 1 \in Nat /\ n + 1 <= m + 1
        BY <1>9, <2>1
      <3> QED BY Zenon, <2>4, <3>2, <3>3 DEF OnChain
    <2>7. CASE i # index
      <3>1. q \in ReachesIn(routine')[n][table'[i]]
        BY Zenon, <1>6, <2>3, <2>5, <2>7
      <3>2. n <= m + 1
        BY <1>9, <2>1
      <3> QED BY Zenon, <2>1, <2>4, <3>1, <3>2 DEF OnChain
    <2> QED BY Zenon, <2>6, <2>7
  <1>12. OnChain(r, routine', table', m + 1)
    <2>1. ReachesIn(routine')[0][r] = {r}
      BY Zenon, <1>4, ReachesInIs
    <2>2. IblHash[routine'[r].guard.pc] = index
      BY Zenon, <1>5 DEF index
    <2>3. r \in ReachesIn(routine')[0][table'[IblHash[routine'[r].guard.pc]]]
      BY Zenon, <1>6, <2>1, <2>2
    <2>4. 0 \in Nat /\ 0 <= m + 1
      BY <1>9
    <2> QED BY Zenon, <2>3, <2>4 DEF OnChain
  <1> QED BY Zenon, <1>8, <1>9, <1>11, <1>12 DEF ChainInv

\* Every step of find and of the exit routines keeps ChainInv.
LEMMA NextChainInv == IInv /\ IInv' /\ ChainInv /\ [Next]_vars => ChainInv'
  <1> SUFFICES ASSUME IInv, IInv', ChainInv, [Next]_vars PROVE ChainInv'
    OBVIOUS
  <1>1. CASE \E c \in Cpus : ExitRoutine(c)
    BY Zenon, <1>1, ExitRoutineChains
  <1>2. CASE ~ \E c \in Cpus : ExitRoutine(c)
    <2>1. UNCHANGED <<routine, table>>
      BY Zenon, <1>2 DEF Next, vars, Branch, Lookup, DirectBranch, IndirectBranch, Miss, IblHit,
         IblMiss, ReturnedHit, Load, FindBase, Translate, Add, StoreInfo, CommitBlock,
         DiscardBlock, LoadWinner, CommitTrace, LockIbl, StoreStub
    <2> QED BY Zenon, <2>1 DEF ChainInv, Used
  <1> QED BY Zenon, <1>1, <1>2

\* A target that find stored an entry for is found by the IBL: its exit routine
\* is on the chain that the hash of the address selects.
THEOREM StubsAreChained == Spec => []StubIsChained
  <1>1. ASSUME Init PROVE ChainInv
    <2>1. Used = {}
      BY Zenon, <1>1 DEF Init, Used
    <2> QED BY Zenon, <2>1 DEF ChainInv
  <1>2. ASSUME IInv, ChainInv PROVE StubIsChained
    <2> SUFFICES ASSUME NEW a \in Addresses, Indirect(a), cache[a] # None
                 PROVE  cache[a] \in {Hit(r) : r \in Chained(table[IblHash[a.pc]])}
      BY Zenon DEF StubIsChained
    <2>1. PICK r \in Routines : cache[a] = Hit(r) /\ IsRoutineFor(r, a)
      BY Zenon, <1>2 DEF IInv, CacheOK
    <2>2. r \in Used /\ routine[r].guard = a
      BY Zenon, <2>1 DEF IsRoutineFor, Used
    <2>3. PICK n \in Nat : /\ n <= Cardinality(Used)
                           /\ r \in ReachesIn(routine)[n][table[IblHash[a.pc]]]
      BY Zenon, <1>2, <2>2 DEF ChainInv, OnChain
    <2>4. n <= Cardinality(Routines) /\ Cardinality(Routines) \in Nat
      <3>1. Used \subseteq Routines /\ IsFiniteSet(Routines)
        BY Zenon, CodeCacheAssumption DEF Used
      <3>2. /\ Cardinality(Used) <= Cardinality(Routines)
            /\ Cardinality(Used) \in Nat /\ Cardinality(Routines) \in Nat
        BY <3>1, FS_Subset, FS_CardinalityType
      <3> QED BY <2>3, <3>2
    <2>5. table[IblHash[a.pc]] \in Ends /\ Linked(routine)
      BY Zenon, <1>2, LinkedFacts DEF Ends, Used
    <2>6. r \in ReachesIn(routine)[Cardinality(Routines)][table[IblHash[a.pc]]]
      BY Zenon, <2>3, <2>4, <2>5, ReachesMore
    <2>7. Reaches = ReachesIn(routine)
      BY Zenon DEF Reaches, ReachesIn
    <2> QED BY Zenon, <2>1, <2>6, <2>7 DEF Chained
  <1> QED BY <1>1, <1>2, NextChainInv, IInvariant, PTL DEF Spec

\* All of what the code cache promises to a kernel with host code and detach points.
THEOREM HostBranchesArriveRight == Spec => []HostArrivesRight
  <1>1. ArrivesRight /\ AttachIsInstrumented /\ StubIsChained => HostArrivesRight
    BY Zenon DEF HostArrivesRight
  <1> QED BY <1>1, BranchesArriveRight, AttachedIsInstrumented, StubsAreChained, PTL

-----------------------------------------------------------------------------
(* The area that the code cache is in: global_allocate_executable never     *)
(* hands out a byte twice, for any number of CPUs, any sizes and any area.  *)
(* A region of some kind, once reserved, stays on its own side of the       *)
(* pointer of that kind (RegionsBehindPointers), so a later bump cannot     *)
(* reach it.  The code cache and the gencode meet in the middle, and there  *)
(* the order bump-then-compare matters: whichever of two racing allocators  *)
(* compares last sees the pointer of the other one.                         *)


\* Where a pointer may be.
PointersInArea ==
    /\ 0 <= codeCacheEnd
    /\ genCodeStart <= WrapperStart
    /\ WrapperStart <= wrapperEnd

\* r lies on the allocated side of the pointer of its kind.
BehindPointer(r) ==
    /\ r.start < r.end
    /\ r.kind = "code_cache" => 0 <= r.start /\ r.end <= codeCacheEnd
    /\ r.kind = "gen_code" => genCodeStart <= r.start /\ r.end <= WrapperStart
    /\ r.kind = "wrapper" => WrapperStart <= r.start /\ r.end <= wrapperEnd

RegionsBehindPointers ==
    /\ \A r \in granted : BehindPointer(r)
    /\ \A c \in AreaCpus : at[c] = "reserved" => BehindPointer(region[c])

\* The inductive invariant.
AreaInv ==
    /\ AreaTypeOK
    /\ PointersInArea
    /\ RegionsBehindPointers
    /\ ReservationsDisjoint
    /\ GrantedDisjoint
    /\ GrantedInArea
    /\ CrossingIsFatal

USE ExecAreaAssumption

-----------------------------------------------------------------------------

\* The state that init_code_cache sets up satisfies the invariant.
LEMMA InitAreaInv == AreaInit => AreaInv
  BY DEF AreaInit, AreaInv, AreaTypeOK, Places, Region, Kinds, NoRegion, PointersInArea,
         RegionsBehindPointers, ReservationsDisjoint, GrantedDisjoint,
         GrantedInArea, CrossingIsFatal

\* Whatever the kind, reserving bytes that lie behind the moved pointer, and
\* that are apart from all regions of this kind, preserves the parts of the
\* invariant that do not mention the crossing of the pointers.
LEMMA ReserveStep ==
    ASSUME AreaInv, NEW c \in AreaCpus, NEW kind \in Kinds, NEW s \in Int, NEW e \in Int,
           Reserve(c, kind, s, e),
           codeCacheEnd' \in Nat, genCodeStart' \in Int, wrapperEnd' \in Int,
           codeCacheEnd <= codeCacheEnd', genCodeStart' <= genCodeStart,
           wrapperEnd <= wrapperEnd',
           BehindPointer([kind |-> kind, start |-> s, end |-> e])',
           \A r \in Region : /\ r.kind = kind
                             /\ BehindPointer(r)
                             => r.end <= s \/ e <= r.start
    PROVE  /\ AreaTypeOK'
           /\ PointersInArea'
           /\ RegionsBehindPointers'
           /\ ReservationsDisjoint'
           /\ GrantedDisjoint'
           /\ GrantedInArea'
  <1> DEFINE new == [kind |-> kind, start |-> s, end |-> e]
  <1>1. /\ AreaTypeOK
        /\ at' = [at EXCEPT ![c] = "reserved"]
        /\ region' = [region EXCEPT ![c] = new]
        /\ granted' = granted
        /\ at[c] = "idle"
        /\ new \in Region
        /\ new.kind = kind /\ new.start = s /\ new.end = e
    BY Zenon DEF AreaInv, Reserve, Region
  <1>2. AreaTypeOK'
    BY Zenon, <1>1 DEF AreaTypeOK, Places
  <1>3. PointersInArea'
    BY DEF AreaInv, AreaTypeOK, PointersInArea
  <1>4. ASSUME NEW r \in Region, BehindPointer(r)
        PROVE  BehindPointer(r)'
    BY <1>1, <1>4 DEF AreaTypeOK, BehindPointer, Region, Kinds
  <1>5. /\ region'[c] = new /\ at'[c] = "reserved"
        /\ \A d \in AreaCpus \ {c} : region'[d] = region[d] /\ at'[d] = at[d]
    BY Zenon, <1>1 DEF AreaTypeOK
  <1>6. RegionsBehindPointers'
    BY <1>1, <1>4, <1>5 DEF AreaInv, AreaTypeOK, RegionsBehindPointers, BehindPointer
  <1>7. ReservationsDisjoint'
    <2>1. \A r \in granted : r.kind = kind => Apart(r, new)
      BY Zenon, <1>1 DEF AreaInv, AreaTypeOK, RegionsBehindPointers, Apart
    <2>2. \A d \in AreaCpus \ {c} :
             at[d] = "reserved" /\ region[d].kind = kind
             => Apart(region[d], new) /\ Apart(new, region[d])
      BY Zenon, <1>1 DEF AreaInv, AreaTypeOK, RegionsBehindPointers, Apart
    <2> QED
      BY <1>1, <1>5, <2>1, <2>2 DEF AreaInv, ReservationsDisjoint, Apart
  <1>8. GrantedDisjoint' /\ GrantedInArea'
    BY Zenon, <1>1 DEF AreaInv, GrantedDisjoint, GrantedInArea, Apart
  <1> QED
    BY Zenon, <1>2, <1>3, <1>6, <1>7, <1>8

\* A pointer that crosses the other one does so in a step that leaves its CPU
\* with a region that does not fit.
LEMMA ReserveKeepsCrossingFatal ==
    ASSUME AreaInv, NEW c \in AreaCpus, NEW kind \in Kinds, NEW s \in Int, NEW e \in Int,
           Reserve(c, kind, s, e),
           codeCacheEnd' \in Int, genCodeStart' \in Int,
           codeCacheEnd <= codeCacheEnd', genCodeStart' <= genCodeStart,
           \/ UNCHANGED <<codeCacheEnd, genCodeStart>>
           \/ genCodeStart' < codeCacheEnd'
              => ~Fits([kind |-> kind, start |-> s, end |-> e])'
    PROVE  CrossingIsFatal'
  <1> DEFINE new == [kind |-> kind, start |-> s, end |-> e]
  <1>1. /\ AreaTypeOK
        /\ CrossingIsFatal
        /\ region'[c] = new /\ at'[c] = "reserved" /\ at[c] = "idle"
        /\ \A d \in AreaCpus \ {c} : region'[d] = region[d] /\ at'[d] = at[d]
    BY Zenon DEF AreaInv, Reserve, AreaTypeOK
  <1>2. SUFFICES ASSUME genCodeStart' < codeCacheEnd'
                 PROVE  \E d \in AreaCpus : \/ at'[d] = "fault"
                                            \/ at'[d] = "reserved"
                                               /\ ~Fits(region[d])'
    BY Zenon DEF CrossingIsFatal, Fits
  <1>3. CASE ~Fits(new)'
    BY Zenon, <1>1, <1>3 DEF Fits
  <1>4. CASE UNCHANGED <<codeCacheEnd, genCodeStart>>
    <2>1. PICK d \in AreaCpus : \/ at[d] = "fault"
                                \/ at[d] = "reserved" /\ ~Fits(region[d])
      BY Zenon, <1>1, <1>2, <1>4 DEF CrossingIsFatal
    <2>2. d # c
      BY Zenon, <1>1, <2>1
    <2>3. at[d] = "reserved" /\ ~Fits(region[d]) => ~Fits(region[d])'
      BY Zenon, <1>1, <1>4, <2>2 DEF Fits
    <2> QED
      BY Zenon, <1>1, <2>1, <2>2, <2>3
  <1> QED
    BY Zenon, <1>2, <1>3, <1>4

\* A step of any CPU preserves the invariant.
LEMMA NextAreaInv == AreaInv /\ [AreaNext]_areaVars => AreaInv'
  <1> SUFFICES ASSUME AreaInv, [AreaNext]_areaVars PROVE AreaInv'
    OBVIOUS
  <1> USE DEF Kinds
  <1>t. AreaTypeOK /\ PointersInArea
    BY Zenon DEF AreaInv
  <1>1. ASSUME NEW c \in AreaCpus, NEW size \in Sizes, ReserveCodeCache(c, size)
        PROVE  AreaInv'
    <2>0. PICK s \in Int, e \in Int : s = codeCacheEnd /\ e = codeCacheEnd + size
      BY <1>1, <1>t DEF AreaTypeOK
    <2> DEFINE new == [kind |-> "code_cache", start |-> s, end |-> e]
    <2>1. /\ codeCacheEnd' = codeCacheEnd + size
          /\ genCodeStart' = genCodeStart /\ wrapperEnd' = wrapperEnd
          /\ Reserve(c, "code_cache", s, e)
          /\ size \in Int /\ size > 0
          /\ codeCacheEnd \in Nat /\ genCodeStart \in Int /\ wrapperEnd \in Int
      BY <1>1, <1>t, <2>0 DEF ReserveCodeCache, AreaTypeOK
    <2>2. BehindPointer(new)'
      BY <1>t, <2>0, <2>1 DEF BehindPointer, PointersInArea
    <2>3. \A r \in Region : r.kind = "code_cache" /\ BehindPointer(r)
                            => r.end <= codeCacheEnd
      BY Zenon DEF BehindPointer
    <2>4. genCodeStart' < codeCacheEnd' => ~Fits(new)'
      BY <2>0, <2>1 DEF Fits
    <2>5. CrossingIsFatal'
      BY <2>1, <2>4, ReserveKeepsCrossingFatal
    <2> QED
      BY <2>0, <2>1, <2>2, <2>3, <2>5, ReserveStep DEF AreaInv
  <1>2. ASSUME NEW c \in AreaCpus, NEW size \in Sizes, ReserveGenCode(c, size)
        PROVE  AreaInv'
    <2>0. PICK s \in Int, e \in Int : s = genCodeStart - size /\ e = genCodeStart
      BY <1>2, <1>t DEF AreaTypeOK
    <2> DEFINE new == [kind |-> "gen_code", start |-> s, end |-> e]
    <2>1. /\ genCodeStart' = genCodeStart - size
          /\ codeCacheEnd' = codeCacheEnd /\ wrapperEnd' = wrapperEnd
          /\ Reserve(c, "gen_code", s, e)
          /\ size \in Int /\ size > 0
          /\ codeCacheEnd \in Nat /\ genCodeStart \in Int /\ wrapperEnd \in Int
      BY <1>2, <1>t, <2>0 DEF ReserveGenCode, AreaTypeOK
    <2>2. BehindPointer(new)'
      BY <1>t, <2>0, <2>1 DEF BehindPointer, PointersInArea
    <2>3. \A r \in Region : r.kind = "gen_code" /\ BehindPointer(r)
                            => genCodeStart <= r.start
      BY Zenon DEF BehindPointer
    <2>4. genCodeStart' < codeCacheEnd' => ~Fits(new)'
      BY <2>0, <2>1 DEF Fits
    <2>5. CrossingIsFatal'
      BY <2>1, <2>4, ReserveKeepsCrossingFatal
    <2> QED
      BY <2>0, <2>1, <2>2, <2>3, <2>5, ReserveStep DEF AreaInv
  <1>3. ASSUME NEW c \in AreaCpus, NEW size \in Sizes, ReserveWrapper(c, size)
        PROVE  AreaInv'
    <2>0. PICK s \in Int, e \in Int : s = wrapperEnd /\ e = wrapperEnd + size
      BY <1>3, <1>t DEF AreaTypeOK
    <2> DEFINE new == [kind |-> "wrapper", start |-> s, end |-> e]
    <2>1. /\ wrapperEnd' = wrapperEnd + size
          /\ codeCacheEnd' = codeCacheEnd /\ genCodeStart' = genCodeStart
          /\ Reserve(c, "wrapper", s, e)
          /\ size \in Int /\ size > 0
          /\ codeCacheEnd \in Nat /\ genCodeStart \in Int /\ wrapperEnd \in Int
      BY <1>3, <1>t, <2>0 DEF ReserveWrapper, AreaTypeOK
    <2>2. BehindPointer(new)'
      BY <1>t, <2>0, <2>1 DEF BehindPointer, PointersInArea
    <2>3. \A r \in Region : r.kind = "wrapper" /\ BehindPointer(r)
                            => r.end <= wrapperEnd
      BY Zenon DEF BehindPointer
    <2>5. CrossingIsFatal'
      BY <2>1, ReserveKeepsCrossingFatal
    <2> QED
      BY <2>0, <2>1, <2>2, <2>3, <2>5, ReserveStep DEF AreaInv
  <1>4. ASSUME NEW c \in AreaCpus, Grant(c)
        PROVE  AreaInv'
    <2> DEFINE new == region[c]
    <2>1. /\ at[c] = "reserved" /\ Fits(new) /\ new \in Region
          /\ granted' = granted \cup {new}
          /\ UNCHANGED <<codeCacheEnd, genCodeStart, wrapperEnd>>
          /\ at'[c] = "idle"
          /\ \A d \in AreaCpus \ {c} : region'[d] = region[d] /\ at'[d] = at[d]
      BY Zenon, <1>4, <1>t DEF Grant, pointers, AreaTypeOK
    <2>2. BehindPointer(new)
      BY Zenon, <2>1 DEF AreaInv, RegionsBehindPointers
    <2>3. AreaTypeOK'
      BY <1>4, <1>t, <2>1 DEF Grant, AreaTypeOK, Places, Region, NoRegion
    <2>4. PointersInArea'
      BY Zenon, <1>t, <2>1 DEF PointersInArea
    <2>5. RegionsBehindPointers'
      BY Zenon, <2>1, <2>2 DEF AreaInv, RegionsBehindPointers, BehindPointer
    <2>6. ReservationsDisjoint'
      BY <2>1 DEF AreaInv, ReservationsDisjoint, Apart
    <2>7. \A r \in granted : Apart(r, new)
      <3>1. SUFFICES ASSUME NEW r \in granted PROVE Apart(r, new)
        OBVIOUS
      <3>2. r \in Region /\ BehindPointer(r)
        BY Zenon, <1>t DEF AreaTypeOK, AreaInv, RegionsBehindPointers
      <3>3. CASE r.kind = new.kind
        BY Zenon, <2>1, <3>3 DEF AreaInv, ReservationsDisjoint
      <3>4. CASE r.kind # new.kind
        BY <1>t, <2>1, <2>2, <3>2, <3>4
           DEF AreaInv, AreaTypeOK, Fits, BehindPointer, Apart, Region, GrantedInArea,
               PointersInArea
      <3> QED
        BY Zenon, <3>3, <3>4
    <2>8. GrantedDisjoint'
      BY Zenon, <2>1, <2>7 DEF AreaInv, GrantedDisjoint, Apart
    <2>9. GrantedInArea'
      BY <1>t, <2>1, <2>2 DEF AreaInv, AreaTypeOK, GrantedInArea, BehindPointer, Fits,
                              PointersInArea, Region
    <2>10. CrossingIsFatal'
      BY Zenon, <2>1 DEF AreaInv, CrossingIsFatal, Fits
    <2> QED
      BY Zenon, <2>3, <2>4, <2>5, <2>6, <2>8, <2>9, <2>10 DEF AreaInv
  <1>5. ASSUME NEW c \in AreaCpus, Fault(c)
        PROVE  AreaInv'
    <2>1. /\ UNCHANGED <<codeCacheEnd, genCodeStart, wrapperEnd, region, granted>>
          /\ at' = [at EXCEPT ![c] = "fault"]
          /\ at'[c] = "fault"
          /\ \A d \in AreaCpus \ {c} : at'[d] = at[d]
      BY Zenon, <1>5, <1>t DEF Fault, pointers, AreaTypeOK
    <2>2. AreaTypeOK'
      BY Zenon, <1>t, <2>1 DEF AreaTypeOK, Places
    <2>3. PointersInArea' /\ RegionsBehindPointers' /\ ReservationsDisjoint'
      BY <2>1 DEF AreaInv, PointersInArea, RegionsBehindPointers, BehindPointer,
                  ReservationsDisjoint, Apart
    <2>4. GrantedDisjoint' /\ GrantedInArea' /\ CrossingIsFatal'
      BY Zenon, <2>1 DEF AreaInv, GrantedDisjoint, GrantedInArea, Apart, CrossingIsFatal
    <2> QED
      BY Zenon, <2>2, <2>3, <2>4 DEF AreaInv
  <1>6. CASE UNCHANGED areaVars
    BY Zenon, <1>6 DEF AreaInv, areaVars, AreaTypeOK, PointersInArea, RegionsBehindPointers,
                BehindPointer, ReservationsDisjoint, GrantedDisjoint,
                GrantedInArea, CrossingIsFatal, Fits, Apart
  <1> QED
    BY Zenon, <1>1, <1>2, <1>3, <1>4, <1>5, <1>6 DEF AreaNext

\* Whatever the CPUs do, and whatever the sizes of the area and of the
\* requests are, the allocator is in a state that satisfies the invariant.
THEOREM AreaInvariant == AreaSpec => []AreaInv
  BY InitAreaInv, NextAreaInv, PTL DEF AreaSpec

\* No byte of the executable area is handed out twice.
THEOREM GrantedAreDisjoint == AreaSpec => [](GrantedDisjoint /\ ReservationsDisjoint)
  BY AreaInvariant, PTL DEF AreaInv

\* What is handed out lies in the part of the area that is meant for it.
THEOREM GrantedLieInArea == AreaSpec => []GrantedInArea
  BY AreaInvariant, PTL DEF AreaInv

\* An address that was handed out is recognised by the predicate of its kind
\* from then on.
THEOREM GrantedAreKnown == AreaSpec => []GrantedAddressesKnown
  <1>1. AreaInv => GrantedAddressesKnown
    BY DEF AreaInv, AreaTypeOK, RegionsBehindPointers, BehindPointer, Region, Kinds,
           GrantedAddressesKnown, HasKind, IsCodeCacheAddress,
           IsGenCodeAddress, IsWrapperAddress, GrantedInArea
  <1> QED
    BY <1>1, AreaInvariant, PTL

\* The code cache and the gencode cross only when an allocator has faulted or
\* is bound to.
THEOREM CrossingStopsAllocator == AreaSpec => []CrossingIsFatal
  BY AreaInvariant, PTL DEF AreaInv

====
