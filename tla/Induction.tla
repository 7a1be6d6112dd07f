----------------------------- MODULE Induction ------------------------------
(***************************************************************************)
(* What the proofs of the other modules need about natural numbers and     *)
(* sequences: that there is no infinite descent, that what is defined by   *)
(* recursion exists, and arithmetic modulo the size of a table.            *)
(***************************************************************************)
EXTENDS Integers, Sequences, FiniteSetTheorems, TLAPS

\* A set of natural numbers has a smallest one: the scan of hash_table::find goes on
\* to the first slot where it can stop, and what loops and lists of the code do is
\* shown by taking the smallest number of rounds or links for which it fails.
LEMMA Smallest ==
    ASSUME NEW S \in SUBSET Nat, S # {}
    PROVE  \E d \in S : \A e \in S : d <= e
  <1> DEFINE T == {0 .. d : d \in S}
             R == StrictSubsetOrdering(Nat)
  <1>1. IsWellFoundedOn(R, FiniteSubsetsOf(Nat))
    BY Zenon, FS_StrictSubsetOrderingWellFounded
  <1>2. T \subseteq FiniteSubsetsOf(Nat)
    <2>1. \A d \in S : IsFiniteSet(0 .. d) /\ 0 .. d \subseteq Nat
      BY FS_Interval
    <2> QED BY Zenon, <2>1 DEF FiniteSubsetsOf
  <1>3. T # {}
    BY Zenon
  <1>4. PICK x \in T : \A y \in T : ~ (<<y, x>> \in R)
    <2> HIDE DEF T, R
    <2> QED BY Zenon, <1>1, <1>2, <1>3, WFMin
  <1>5. PICK d \in S : x = 0 .. d
    OBVIOUS
  <1>6. ASSUME NEW e \in S, e < d PROVE FALSE
    <2>1. 0 .. e \in T /\ 0 .. e \in SUBSET Nat /\ 0 .. d \in SUBSET Nat
      OBVIOUS
    <2>2. 0 .. e \subseteq 0 .. d /\ 0 .. e # 0 .. d
      <3>1. d \in 0 .. d /\ d \notin 0 .. e
        BY <1>6
      <3> QED BY <3>1, <1>6
    <2>3. <<0 .. e, 0 .. d>> \in R
      BY Zenon, <2>1, <2>2 DEF StrictSubsetOrdering
    <2> QED BY Zenon, <1>4, <1>5, <2>1, <2>3
  <1> QED BY <1>5, <1>6

-----------------------------------------------------------------------------
(* Recursive definitions.                                                  *)

\* The first n + 1 values of a function that starts with z and goes on with G.
Approximates(f, n, z, G) ==
    /\ f[0] = z
    /\ \A i \in 1 .. n : f[i] = G[i][f[i - 1]]

\* A walk along the links of a list, or a loop that builds something, can be done
\* for any number of rounds,
LEMMA ApproximationExists ==
    ASSUME NEW S, NEW z \in S, NEW G \in [Nat -> [S -> S]], NEW n \in Nat
    PROVE  \E f \in [0 .. n -> S] : Approximates(f, n, z, G)
  <1> DEFINE Bad == {i \in Nat : ~ \E f \in [0 .. i -> S] : Approximates(f, i, z, G)}
  <1> SUFFICES ASSUME Bad # {} PROVE FALSE
    OBVIOUS
  <1>1. Bad \in SUBSET Nat
    OBVIOUS
  <1>2. PICK m \in Bad : \A e \in Bad : m <= e
    <2> HIDE DEF Bad
    <2> QED BY Zenon, <1>1, Smallest
  <1>3. m \in Nat /\ ~ \E f \in [0 .. m -> S] : Approximates(f, m, z, G)
    OBVIOUS
  <1>4. CASE m = 0
    <2> DEFINE f == [i \in 0 .. 0 |-> z]
    <2>1. f \in [0 .. 0 -> S] /\ f[0] = z /\ 1 .. 0 = {}
      OBVIOUS
    <2> HIDE DEF f
    <2>2. Approximates(f, 0, z, G)
      BY Zenon, <2>1 DEF Approximates
    <2> QED BY Zenon, <1>3, <1>4, <2>1, <2>2
  <1>5. CASE m # 0
    <2>1. m - 1 \in Nat /\ m - 1 \notin Bad
      BY <1>2, <1>3, <1>5
    <2>2. PICK g \in [0 .. m - 1 -> S] : Approximates(g, m - 1, z, G)
      BY Zenon, <2>1
    <2>3. g[m - 1] \in S /\ G[m][g[m - 1]] \in S
      <3>1. m - 1 \in 0 .. m - 1
        BY <1>3, <1>5
      <3> QED BY Zenon, <1>3, <3>1
    <2> DEFINE f == [i \in 0 .. m |-> IF i < m THEN g[i] ELSE G[m][g[m - 1]]]
    <2>4. f \in [0 .. m -> S]
      BY <1>3, <2>3
    <2>5. (\A i \in 0 .. m - 1 : f[i] = g[i]) /\ f[m] = G[m][g[m - 1]]
      BY <1>3
    <2> HIDE DEF f
    <2>6. f[0] = z
      <3>1. 0 \in 0 .. m - 1
        BY <1>3, <1>5
      <3> QED BY Zenon, <2>2, <2>5, <3>1 DEF Approximates
    <2>7. ASSUME NEW i \in 1 .. m PROVE f[i] = G[i][f[i - 1]]
      <3>1. CASE i = m
        <4>1. m - 1 \in 0 .. m - 1
          BY <1>3, <1>5
        <4> QED BY Zenon, <2>5, <3>1, <4>1
      <3>2. CASE i # m
        <4>1. i \in 0 .. m - 1 /\ i - 1 \in 0 .. m - 1 /\ i \in 1 .. m - 1
          BY <1>3, <3>2
        <4> QED BY Zenon, <2>2, <2>5, <4>1 DEF Approximates
      <3> QED BY Zenon, <3>1, <3>2
    <2>8. Approximates(f, m, z, G)
      BY Zenon, <2>6, <2>7 DEF Approximates
    <2> QED BY Zenon, <1>3, <2>4, <2>8
  <1> QED BY Zenon, <1>4, <1>5

\* and in one way.
LEMMA ApproximationUnique ==
    ASSUME NEW z, NEW G, NEW n \in Nat, NEW m \in Nat, NEW f, NEW g,
           Approximates(f, n, z, G), Approximates(g, m, z, G), NEW i \in 0 .. n, i <= m
    PROVE  f[i] = g[i]
  <1> DEFINE Bad == {j \in 0 .. n : j <= m /\ f[j] # g[j]}
  <1> SUFFICES ASSUME Bad # {} PROVE FALSE
    OBVIOUS
  <1>1. Bad \in SUBSET Nat
    OBVIOUS
  <1>2. PICK j \in Bad : \A e \in Bad : j <= e
    <2> HIDE DEF Bad
    <2> QED BY Zenon, <1>1, Smallest
  <1>3. j \in 0 .. n /\ j <= m /\ f[j] # g[j]
    OBVIOUS
  <1>4. f[0] = g[0]
    BY Zenon DEF Approximates
  <1>5. j \in 1 .. n /\ j \in 1 .. m /\ j - 1 \in 0 .. n /\ j - 1 <= m
    BY <1>3, <1>4
  <1>6. f[j - 1] = g[j - 1]
    BY <1>2, <1>5
  <1>7. f[j] = G[j][f[j - 1]] /\ g[j] = G[j][g[j - 1]]
    BY Zenon, <1>5 DEF Approximates
  <1> QED BY Zenon, <1>3, <1>6, <1>7

\* A function starts with z and goes on with G.
HasSolution(S, z, G) ==
    \E f \in [Nat -> S] : f[0] = z /\ \A n \in Nat \ {0} : f[n] = G[n][f[n - 1]]

\* So a definition by recursion, of the objects on a list for example, has a
\* solution.
LEMMA RecursionExists ==
    ASSUME NEW S, NEW z \in S, NEW G \in [Nat -> [S -> S]]
    PROVE  HasSolution(S, z, G)
  <1> DEFINE of(n) == CHOOSE f : f \in [0 .. n -> S] /\ Approximates(f, n, z, G)
             F == [n \in Nat |-> of(n)[n]]
  <1>1. \A n \in Nat : of(n) \in [0 .. n -> S] /\ Approximates(of(n), n, z, G)
    <2> SUFFICES ASSUME NEW n \in Nat
                 PROVE  of(n) \in [0 .. n -> S] /\ Approximates(of(n), n, z, G)
      OBVIOUS
    <2>1. \E f : f \in [0 .. n -> S] /\ Approximates(f, n, z, G)
      BY Zenon, ApproximationExists
    <2> QED BY Zenon, <2>1
  <1> HIDE DEF of
  <1>2. F \in [Nat -> S]
    <2>1. \A n \in Nat : n \in 0 .. n
      OBVIOUS
    <2> QED BY Zenon, <1>1, <2>1
  <1>3. F[0] = z
    BY Zenon, <1>1 DEF Approximates
  <1>4. ASSUME NEW n \in Nat \ {0} PROVE F[n] = G[n][F[n - 1]]
    <2>1. n \in 1 .. n /\ n - 1 \in Nat /\ n - 1 \in 0 .. n /\ n - 1 <= n - 1
      OBVIOUS
    <2>2. of(n)[n] = G[n][of(n)[n - 1]]
      BY Zenon, <1>1, <2>1 DEF Approximates
    <2>3. of(n)[n - 1] = of(n - 1)[n - 1]
      BY <1>1, <2>1, ApproximationUnique
    <2>4. F[n] = of(n)[n] /\ F[n - 1] = of(n - 1)[n - 1]
      BY Zenon, <2>1
    <2> QED BY Zenon, <2>2, <2>3, <2>4
  <1> HIDE DEF F
  <1> QED BY Zenon, <1>2, <1>3, <1>4 DEF HasSolution

-----------------------------------------------------------------------------
(* Arithmetic.                                                             *)

\* Arithmetic for the probe sequence of find and insert, which goes around the slots.
LEMMA MulMono ==
    ASSUME NEW n \in Nat \ {0}, NEW a \in Int, a >= 1
    PROVE  n * a >= n
  OBVIOUS

\* A number has one remainder: the slot that a probe of find and insert looks at is
\* determined.
LEMMA ModUnique ==
    ASSUME NEW x \in Nat, NEW n \in Nat \ {0}, NEW q \in Int, NEW r \in 0 .. n - 1, x = n * q + r
    PROVE  x % n = r
  <1> DEFINE p == x \div n
             s == x % n
  <1>1. x = n * p + s /\ s \in 0 .. n - 1 /\ p \in Int
    OBVIOUS
  <1> HIDE DEF p, s
  <1>2. n * (p - q) = r - s
    BY <1>1
  <1>3. ~ (p - q >= 1)
    <2>1. SUFFICES ASSUME p - q >= 1 PROVE FALSE
      OBVIOUS
    <2>2. n * (p - q) >= n
      BY <1>1, <2>1, MulMono
    <2> QED BY <1>1, <1>2, <2>2
  <1>4. ~ (q - p >= 1)
    <2>1. SUFFICES ASSUME q - p >= 1 PROVE FALSE
      OBVIOUS
    <2>2. n * (q - p) >= n
      BY <1>1, <2>1, MulMono
    <2>3. n * (q - p) = s - r
      BY <1>1
    <2> QED BY <1>1, <2>2, <2>3
  <1>5. p = q
    BY <1>1, <1>3, <1>4
  <1>6. s = r
    BY <1>1, <1>5
  <1> QED BY Zenon, <1>6 DEF s

\* The probe sequence of find and insert goes up, and from the last slot to the
\* first.
LEMMA ModAdd ==
    ASSUME NEW h \in Nat, NEW n \in Nat \ {0}, NEW d \in 0 .. n - 1
    PROVE  (h + d) % n = IF (h % n) + d < n THEN (h % n) + d ELSE (h % n) + d - n
  <1> DEFINE q == h \div n
             r == h % n
  <1>1. h = n * q + r /\ r \in 0 .. n - 1 /\ q \in Int
    OBVIOUS
  <1> HIDE DEF q, r
  <1>2. CASE r + d < n
    <2>1. h + d = n * q + (r + d) /\ r + d \in 0 .. n - 1 /\ h + d \in Nat
      BY <1>1, <1>2
    <2>2. (h + d) % n = r + d
      BY Zenon, <1>1, <2>1, ModUnique
    <2> QED BY Zenon, <1>2, <2>2 DEF r
  <1>3. CASE r + d >= n
    <2>1. h + d = n * (q + 1) + (r + d - n) /\ r + d - n \in 0 .. n - 1 /\ h + d \in Nat /\ q + 1 \in Int
      BY <1>1, <1>3
    <2>2. (h + d) % n = r + d - n
      BY Zenon, <1>1, <2>1, ModUnique
    <2> QED BY <1>1, <1>3, <2>2 DEF r
  <1> QED BY <1>1, <1>2, <1>3

-----------------------------------------------------------------------------
(* Sequences.                                                              *)

\* The empty sequence is the only one without elements: a call stack from which all
\* was popped, or a list of descriptors from which all were taken.
LEMMA EmptyIs ==
    ASSUME NEW S
    PROVE  << >> \in Seq(S) /\ \A s \in Seq(S) : Len(s) = 0 <=> s = << >>
  OBVIOUS

\* What is left of a sequence without its first element: of the call stack after a
\* return, and of the list of free descriptors after one is taken.
LEMMA TailIs ==
    ASSUME NEW S, NEW s \in Seq(S), s # << >>
    PROVE  /\ Head(s) \in S /\ Tail(s) \in Seq(S) /\ Len(Tail(s)) = Len(s) - 1
           /\ \A k \in 1 .. Len(Tail(s)) : Tail(s)[k] = s[k + 1]
  OBVIOUS

=============================================================================
