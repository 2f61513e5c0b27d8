------------------------------ MODULE FoldLemmas ------------------------------
(***************************************************************************)
(* Induction on numbers and on finite sets, stated of sets instead of      *)
(* predicates, and what follows from it about sums over finite sets and    *)
(* about folds of sequences.                                               *)
(***************************************************************************)
EXTENDS Integers, FiniteSets, SequencesExt, FiniteSetTheorems, SequenceTheorems, TLAPS

(* A set of numbers with 0, and with the successor of each, has them all.   *)
LEMMA NumbersByInduction ==
  ASSUME NEW N, 0 \in N, \A n \in Nat : n \in N => n + 1 \in N
  PROVE  Nat \subseteq N
<1> SUFFICES ASSUME Nat \ N # {} PROVE FALSE
  OBVIOUS
<1> DEFINE T == Nat \ N
           R == OpToRel(<, Nat)
<1>1. \A m, n \in Nat : m < n => <<m, n>> \in R
  BY DEF OpToRel
<1>2. \E n \in T : \A m \in T : ~ (<<m, n>> \in R)
  <2>1. IsWellFoundedOn(R, Nat) /\ T \subseteq Nat /\ T # {}
    BY NatLessThanWellFounded
  <2> HIDE DEF R, T
  <2> QED
    BY <2>1, WFMin
<1>3. PICK n \in T : \A m \in T : ~ (<<m, n>> \in R)
  BY <1>2
<1>4. n \in Nat /\ n # 0 /\ n - 1 \in Nat /\ n - 1 < n
  OBVIOUS
<1>5. n - 1 \in N
  BY <1>1, <1>3, <1>4
<1>6. (n - 1) + 1 \in N
  BY <1>4, <1>5
<1> QED
  BY <1>4, <1>6

-----------------------------------------------------------------------------
(* Finite sets, built up in the order in which CHOOSE takes them apart.     *)
Pick(s) == CHOOSE x \in s : TRUE
Rest(s) == s \ {Pick(s)}

LEMMA Smaller ==
  ASSUME NEW s, IsFiniteSet(s), s # {}
  PROVE  /\ Pick(s) \in s /\ Rest(s) \subseteq s /\ IsFiniteSet(Rest(s))
         /\ Cardinality(s) \in Nat \ {0}
         /\ Cardinality(Rest(s)) = Cardinality(s) - 1
<1>1. Pick(s) \in s
  BY DEF Pick
<1>2. Cardinality(s) \in Nat /\ Cardinality(s) # 0
  BY FS_CardinalityType, FS_EmptySet
<1> QED
  BY <1>1, <1>2, FS_RemoveElement DEF Rest

LEMMA SubsetsByInduction ==
  ASSUME NEW S, IsFiniteSet(S), NEW G, {} \in G,
         \A s \in SUBSET S : s # {} /\ Rest(s) \in G => s \in G
  PROVE  S \in G
<1> DEFINE N == {n \in Nat : \A s \in SUBSET S : Cardinality(s) = n => s \in G}
<1>1. \A s \in SUBSET S : IsFiniteSet(s)
  BY FS_Subset
<1>2. 0 \in N
  BY <1>1, FS_EmptySet
<1>3. ASSUME NEW n \in Nat, n \in N PROVE n + 1 \in N
  <2>1. ASSUME NEW s \in SUBSET S, Cardinality(s) = n + 1 PROVE s \in G
    <3>1. s # {}
      BY <2>1, FS_EmptySet
    <3>2. Cardinality(Rest(s)) = Cardinality(s) - 1 /\ Rest(s) \subseteq s
      BY <1>1, <3>1, Smaller
    <3>3. Cardinality(Rest(s)) = n /\ Rest(s) \in SUBSET S
      BY <2>1, <3>2
    <3>4. Rest(s) \in G
      BY <1>3, <3>3
    <3> QED
      BY <3>1, <3>4
  <2>2. n + 1 \in Nat
    OBVIOUS
  <2> QED
    BY <2>1, <2>2
<1> HIDE DEF N
<1>4. Cardinality(S) \in N
  BY <1>2, <1>3, NumbersByInduction, FS_CardinalityType
<1> QED
  BY <1>4 DEF N

(* Of finitely many there is one with the largest key.                      *)
LEMMA LargestExists ==
  ASSUME NEW S, IsFiniteSet(S), S # {}, NEW u, \A x \in S : u[x] \in Int
  PROVE  \E x \in S : \A y \in S : u[x] >= u[y]
<1> DEFINE G == {s \in SUBSET S : s = {} \/ \E x \in s : \A y \in s : u[x] >= u[y]}
<1>1. {} \in G
  OBVIOUS
<1>2. ASSUME NEW s \in SUBSET S, s # {}, Rest(s) \in G PROVE s \in G
  <2>1. Pick(s) \in s /\ Rest(s) = s \ {Pick(s)}
    BY <1>2 DEF Pick, Rest
  <2>2. CASE Rest(s) = {}
    <3>1. \A y \in s : y = Pick(s)
      BY <2>1, <2>2
    <3>2. \A y \in s : u[Pick(s)] >= u[y]
      BY <2>1, <3>1
    <3> QED
      BY <2>1, <3>2
  <2>3. CASE Rest(s) # {}
    <3>1. PICK x \in Rest(s) : \A y \in Rest(s) : u[x] >= u[y]
      BY <1>2, <2>3
    <3>2. x \in s /\ u[x] \in Int /\ u[Pick(s)] \in Int /\ \A y \in s : u[y] \in Int
      BY <2>1, <3>1
    <3>3. \A y \in s : y = Pick(s) \/ u[x] >= u[y]
      BY <2>1, <3>1
    <3>4. CASE u[x] >= u[Pick(s)]
      BY <3>2, <3>3, <3>4
    <3>5. CASE ~ (u[x] >= u[Pick(s)])
      <4>1. \A y \in s : u[Pick(s)] >= u[y]
        BY <3>2, <3>3, <3>5
      <4> QED
        BY <2>1, <4>1
    <3> QED
      BY <3>4, <3>5
  <2> QED
    BY <2>2, <2>3
<1> HIDE DEF G
<1>3. S \in G
  BY <1>1, <1>2, SubsetsByInduction
<1> QED
  BY <1>3 DEF G

LEMMA MaxIsLargest ==
  ASSUME NEW S, IsFiniteSet(S), S # {}, S \subseteq Int
  PROVE  Max(S) \in S /\ \A y \in S : Max(S) >= y
<1>1. PICK u : u = [x \in S |-> x]
  OBVIOUS
<1>2. \E x \in S : \A y \in S : u[x] >= u[y]
  BY <1>1, LargestExists
<1>3. \E x \in S : \A y \in S : x >= y
  BY <1>1, <1>2
<1> QED
  BY <1>3 DEF Max

(* What takes a finite set apart element by element defines a function of   *)
(* its subsets, whatever the order.                                         *)
Chooses(first, S) == \A s \in SUBSET S : s # {} => first[s] \in s
Closed(step, S, V) == \A x \in S, v \in V : step[x][v] \in V
Recurses(g, S, V, first, base, step) ==
  /\ g \in [SUBSET S -> V]
  /\ \A s \in SUBSET S : g[s] = IF s = {} THEN base ELSE step[first[s]][g[s \ {first[s]}]]

LEMMA RecursionExists ==
  ASSUME NEW S, IsFiniteSet(S), NEW first, Chooses(first, S),
         NEW V, NEW base \in V, NEW step, Closed(step, S, V)
  PROVE  \E g : Recurses(g, S, V, first, base, step)
<1> DEFINE Small(n) == {s \in SUBSET S : Cardinality(s) <= n}
           Next1(g, s) == IF s = {} THEN base ELSE step[first[s]][g[s \ {first[s]}]]
           Right(n, g) == g \in [Small(n) -> V] /\ \A s \in Small(n) : g[s] = Next1(g, s)
           N == {n \in Nat : \E g : Right(n, g)}
<1>1. \A s \in SUBSET S : /\ IsFiniteSet(s) /\ Cardinality(s) \in Nat
                          /\ Cardinality(s) <= Cardinality(S)
  BY FS_Subset, FS_CardinalityType
<1>0. /\ \A s \in SUBSET S : s # {} => first[s] \in s
      /\ \A x \in S, v \in V : step[x][v] \in V
  BY DEF Chooses, Closed
<1>2. \E g : Right(0, g)
  <2>1. \A s \in Small(0) : s = {}
    BY <1>1, FS_EmptySet
  <2> DEFINE g == [s \in Small(0) |-> base]
  <2>2. Right(0, g)
    BY <2>1
  <2> QED
    BY <2>2
<1>3. ASSUME NEW n \in Nat, NEW g, Right(n, g) PROVE \E h : Right(n + 1, h)
  <2> DEFINE h == [s \in Small(n + 1) |-> Next1(g, s)]
  <2>1. ASSUME NEW s \in Small(n + 1), s # {}
        PROVE  /\ first[s] \in S /\ s \ {first[s]} \in Small(n)
               /\ s \ {first[s]} \in Small(n + 1)
    <3>1. first[s] \in s
      BY <1>0, <2>1
    <3>2. Cardinality(s \ {first[s]}) = Cardinality(s) - 1
      BY <1>1, <3>1, FS_RemoveElement
    <3> QED
      BY <1>1, <3>1, <3>2
  <2>2. ASSUME NEW s \in Small(n) PROVE s \in Small(n + 1) /\ h[s] = g[s]
    <3>1. s \in Small(n + 1)
      BY <1>1, <2>2
    <3>2. h[s] = Next1(g, s) /\ g[s] = Next1(g, s)
      BY <1>3, <2>2, <3>1
    <3> QED
      BY <3>1, <3>2
  <2>3. ASSUME NEW s \in Small(n + 1) PROVE Next1(g, s) = Next1(h, s) /\ Next1(g, s) \in V
    <3>1. CASE s = {}
      BY <3>1
    <3>2. CASE s # {}
      <4>1. h[s \ {first[s]}] = g[s \ {first[s]}] /\ g[s \ {first[s]}] \in V
        BY <1>3, <2>1, <2>2, <3>2
      <4> QED
        BY <1>0, <2>1, <3>2, <4>1
    <3> QED
      BY <3>1, <3>2
  <2>4. Right(n + 1, h)
    BY <2>3
  <2> QED
    BY <2>4
<1>4. Cardinality(S) \in N
  <2> HIDE DEF Right
  <2>1. 0 \in N /\ \A n \in Nat : n \in N => n + 1 \in N
    BY <1>2, <1>3
  <2> HIDE DEF N
  <2> QED
    BY <2>1, NumbersByInduction, FS_CardinalityType
<1>5. Small(Cardinality(S)) = SUBSET S
  BY <1>1
<1> QED
  BY <1>4, <1>5 DEF Recurses

-----------------------------------------------------------------------------
(* The sum of a function over a finite set, as MapThenSumSet adds it up.    *)
AddNext(f, g, s) == IF s = {} THEN 0 ELSE f[Pick(s)] + g[Rest(s)]
AddsUp(g, S, f) == g = [s \in SUBSET S |-> AddNext(f, g, s)]
SumOver(S, f) == (CHOOSE g : AddsUp(g, S, f))[S]

LEMMA SumExists ==
  ASSUME NEW S, IsFiniteSet(S), NEW f, \A i \in S : f[i] \in Nat
  PROVE  \E g : AddsUp(g, S, f)
<1>1. PICK first, step : first = [s \in SUBSET S |-> Pick(s)]
                         /\ step = [x \in S |-> [v \in Nat |-> f[x] + v]]
  OBVIOUS
<1>2. Chooses(first, S)
  BY <1>1 DEF Chooses, Pick
<1>3. 0 \in Nat /\ Closed(step, S, Nat)
  BY <1>1 DEF Closed
<1>4. PICK g : Recurses(g, S, Nat, first, 0, step)
  BY <1>2, <1>3, RecursionExists
<1>5. ASSUME NEW s \in SUBSET S PROVE g[s] = AddNext(f, g, s)
  BY <1>1, <1>2, <1>4 DEF AddNext, Rest, Recurses, Chooses
<1>6. AddsUp(g, S, f)
  BY <1>4, <1>5 DEF AddsUp, Recurses
<1> QED
  BY <1>6

LEMMA SumOverAddsUp ==
  ASSUME NEW S, IsFiniteSet(S), NEW f, \A i \in S : f[i] \in Nat
  PROVE  \E g : AddsUp(g, S, f) /\ SumOver(S, f) = g[S]
BY SumExists DEF SumOver

LEMMA SumEquation ==
  ASSUME NEW S, NEW f, NEW g, AddsUp(g, S, f)
  PROVE  /\ g[{}] = 0
         /\ \A s \in SUBSET S : s # {} => /\ g[s] = f[Pick(s)] + g[Rest(s)]
                                          /\ Pick(s) \in S /\ Pick(s) \in s
<1>1. \A s \in SUBSET S : g[s] = AddNext(f, g, s)
  BY DEF AddsUp
<1>2. \A s \in SUBSET S : s # {} => Pick(s) \in s
  BY DEF Pick
<1> QED
  BY <1>1, <1>2 DEF AddNext

LEMMA SumUnique ==
  ASSUME NEW S, IsFiniteSet(S), NEW f, NEW g, NEW h, AddsUp(g, S, f), AddsUp(h, S, f)
  PROVE  g[S] = h[S]
<1> DEFINE G == {s \in SUBSET S : g[s] = h[s]}
<1>1. {} \in G
  BY SumEquation
<1>2. ASSUME NEW s \in SUBSET S, s # {}, Rest(s) \in G PROVE s \in G
  <2>1. g[s] = f[Pick(s)] + g[Rest(s)]
    BY <1>2, SumEquation
  <2>2. h[s] = f[Pick(s)] + h[Rest(s)]
    BY <1>2, SumEquation
  <2> QED
    BY <1>2, <2>1, <2>2
<1> HIDE DEF G
<1>3. S \in G
  BY <1>1, <1>2, SubsetsByInduction
<1> QED
  BY <1>3 DEF G

LEMMA SumType ==
  ASSUME NEW S, IsFiniteSet(S), NEW f, \A i \in S : f[i] \in Nat
  PROVE  SumOver(S, f) \in Nat
<1>1. PICK g : AddsUp(g, S, f) /\ SumOver(S, f) = g[S]
  BY SumOverAddsUp
<1> DEFINE G == {s \in SUBSET S : g[s] \in Nat}
<1>2. {} \in G
  BY <1>1, SumEquation
<1>3. ASSUME NEW s \in SUBSET S, s # {}, Rest(s) \in G PROVE s \in G
  <2>1. g[s] = f[Pick(s)] + g[Rest(s)] /\ Pick(s) \in S
    BY <1>1, <1>3, SumEquation
  <2> QED
    BY <1>3, <2>1
<1> HIDE DEF G
<1>4. S \in G
  BY <1>2, <1>3, SubsetsByInduction
<1> QED
  BY <1>1, <1>4 DEF G

LEMMA SumOfNothing ==
  ASSUME NEW S, IsFiniteSet(S), NEW f, \A i \in S : f[i] = 0
  PROVE  SumOver(S, f) = 0
<1>1. PICK g : AddsUp(g, S, f) /\ SumOver(S, f) = g[S]
  BY SumOverAddsUp
<1> DEFINE G == {s \in SUBSET S : g[s] = 0}
<1>2. {} \in G
  BY <1>1, SumEquation
<1>3. ASSUME NEW s \in SUBSET S, s # {}, Rest(s) \in G PROVE s \in G
  <2>1. g[s] = f[Pick(s)] + g[Rest(s)] /\ Pick(s) \in S
    BY <1>1, <1>3, SumEquation
  <2> QED
    BY <1>3, <2>1
<1> HIDE DEF G
<1>4. S \in G
  BY <1>2, <1>3, SubsetsByInduction
<1> QED
  BY <1>1, <1>4 DEF G

(* Larger summands make a larger sum.                                       *)
LEMMA SumGrows ==
  ASSUME NEW S, IsFiniteSet(S), NEW f, NEW h,
         \A i \in S : f[i] \in Nat /\ h[i] \in Nat /\ f[i] <= h[i]
  PROVE  SumOver(S, f) <= SumOver(S, h)
<1>1. PICK p : AddsUp(p, S, f) /\ SumOver(S, f) = p[S]
  BY SumOverAddsUp
<1>2. PICK q : AddsUp(q, S, h) /\ SumOver(S, h) = q[S]
  BY SumOverAddsUp
<1> DEFINE G == {s \in SUBSET S : p[s] \in Nat /\ q[s] \in Nat /\ p[s] <= q[s]}
<1>3. {} \in G
  BY <1>1, <1>2, SumEquation
<1>4. ASSUME NEW s \in SUBSET S, s # {}, Rest(s) \in G PROVE s \in G
  <2>1. p[s] = f[Pick(s)] + p[Rest(s)] /\ Pick(s) \in S
    BY <1>1, <1>4, SumEquation
  <2>2. q[s] = h[Pick(s)] + q[Rest(s)]
    BY <1>2, <1>4, SumEquation
  <2> QED
    BY <1>4, <2>1, <2>2
<1> HIDE DEF G
<1>5. S \in G
  BY <1>3, <1>4, SubsetsByInduction
<1> QED
  BY <1>1, <1>2, <1>5 DEF G

LEMMA OneMore ==
  ASSUME NEW n \in Nat, NEW m \in Nat
  PROVE  n * m \in Nat /\ (n + 1) * m = n * m + m
OBVIOUS

LEMMA ProductGrows ==
  ASSUME NEW a \in Nat, NEW b \in Nat, a <= b, NEW m \in Nat
  PROVE  a * m \in Nat /\ b * m \in Nat /\ a * m <= b * m
OBVIOUS

(* Allowing m for each member of a set adds at most m for each of them.     *)
LEMMA SumWithPledges ==
  ASSUME NEW S, IsFiniteSet(S), NEW f, NEW h, NEW A \in SUBSET S, NEW m \in Nat,
         \A i \in S : f[i] \in Nat,
         \A i \in S : h[i] = IF i \in A THEN m ELSE f[i]
  PROVE  SumOver(S, h) <= SumOver(S, f) + Cardinality(A) * m
<1>1. PICK p : AddsUp(p, S, f) /\ SumOver(S, f) = p[S]
  BY SumOverAddsUp
<1>2. PICK q : AddsUp(q, S, h) /\ SumOver(S, h) = q[S]
  BY SumOverAddsUp
<1> DEFINE Few(s) == Cardinality(A \cap s)
           G == {s \in SUBSET S : p[s] \in Nat /\ q[s] \in Nat /\ q[s] <= p[s] + Few(s) * m}
<1>3. \A s \in SUBSET S : IsFiniteSet(A \cap s) /\ Few(s) \in Nat
  BY FS_Subset, FS_CardinalityType
<1>4. {} \in G
  <2>1. Few({}) = 0
    BY FS_EmptySet
  <2> QED
    BY <1>1, <1>2, <2>1, SumEquation
<1>5. ASSUME NEW s \in SUBSET S, s # {}, Rest(s) \in G PROVE s \in G
  <2>1. p[s] = f[Pick(s)] + p[Rest(s)] /\ Pick(s) \in S /\ Pick(s) \in s
    BY <1>1, <1>5, SumEquation
  <2>2. q[s] = h[Pick(s)] + q[Rest(s)]
    BY <1>2, <1>5, SumEquation
  <2>3. PICK k : k = Few(Rest(s)) * m
    OBVIOUS
  <2>4. PICK c : c = Few(Rest(s))
    OBVIOUS
  <2>5. Rest(s) \in SUBSET S /\ c \in Nat
    BY <1>3, <2>4 DEF Rest
  <2>6. k \in Nat /\ (c + 1) * m = k + m
    BY <2>3, <2>4, <2>5, OneMore
  <2>7. p[Rest(s)] \in Nat /\ q[Rest(s)] \in Nat /\ q[Rest(s)] <= p[Rest(s)] + k
    BY <1>5, <2>3
  <2>8. CASE Pick(s) \in A
    <3>1. A \cap s = (A \cap Rest(s)) \cup {Pick(s)} /\ Pick(s) \notin A \cap Rest(s)
      BY <2>1, <2>8 DEF Rest
    <3>2. Few(s) = c + 1
      BY <1>3, <2>4, <2>5, <3>1, FS_AddElement
    <3>3. Few(s) * m = k + m
      BY <2>6, <3>2
    <3>4. h[Pick(s)] = m /\ f[Pick(s)] \in Nat
      BY <2>1, <2>8
    <3>5. q[s] <= p[s] + (k + m) /\ p[s] \in Nat /\ q[s] \in Nat
      BY <2>1, <2>2, <2>6, <2>7, <3>4
    <3> QED
      BY <3>3, <3>5
  <2>9. CASE Pick(s) \notin A
    <3>1. A \cap s = A \cap Rest(s)
      BY <2>1, <2>9 DEF Rest
    <3>2. Few(s) * m = k
      BY <2>3, <3>1
    <3>3. h[Pick(s)] = f[Pick(s)] /\ f[Pick(s)] \in Nat
      BY <2>1, <2>9
    <3>4. q[s] <= p[s] + k /\ p[s] \in Nat /\ q[s] \in Nat
      BY <2>1, <2>2, <2>6, <2>7, <3>3
    <3> QED
      BY <3>2, <3>4
  <2> QED
    BY <2>8, <2>9
<1>6. S \in G
  <2> HIDE DEF G
  <2> QED
    BY <1>4, <1>5, SubsetsByInduction
<1>7. A \cap S = A
  OBVIOUS
<1> QED
  BY <1>1, <1>2, <1>6, <1>7
-----------------------------------------------------------------------------
(* Loops over 1 .. L: the state before the first iteration and after each.  *)
Loops(c, L, V, base, step) ==
  c \in [0 .. L -> V] /\ c[0] = base /\ \A n \in 1 .. L : c[n] = step[n][c[n - 1]]

LEMMA LoopExists ==
  ASSUME NEW L \in Nat, NEW V, NEW base \in V, NEW step, Closed(step, 1 .. L, V)
  PROVE  \E c : Loops(c, L, V, base, step)
<1> DEFINE N == {n \in Nat : n <= L => \E c : Loops(c, n, V, base, step)}
<1>1. \E c : Loops(c, 0, V, base, step)
  <2>1. PICK c : c = [n \in 0 .. 0 |-> base]
    OBVIOUS
  <2>2. Loops(c, 0, V, base, step)
    BY <2>1 DEF Loops
  <2> QED
    BY <2>2
<1>2. ASSUME NEW n \in Nat, n + 1 <= L, NEW c, Loops(c, n, V, base, step)
      PROVE  \E d : Loops(d, n + 1, V, base, step)
  <2>1. PICK d : d = [m \in 0 .. n + 1 |-> IF m = n + 1 THEN step[n + 1][c[n]] ELSE c[m]]
    OBVIOUS
  <2>2. n \in 0 .. n /\ n + 1 \in 1 .. L /\ c[n] \in V /\ step[n + 1][c[n]] \in V
    BY <1>2 DEF Loops, Closed
  <2>3. \A m \in 0 .. n : d[m] = c[m] /\ c[m] \in V
    BY <1>2, <2>1 DEF Loops
  <2>4. d[n + 1] = step[n + 1][d[n]]
    BY <2>1, <2>2, <2>3
  <2>5. d \in [0 .. n + 1 -> V]
    BY <2>1, <2>2, <2>3
  <2>6. \A m \in 1 .. n : m - 1 \in 0 .. n /\ m \in 0 .. n /\ d[m] = step[m][d[m - 1]]
    BY <1>2, <2>3 DEF Loops
  <2>7. d[0] = base
    BY <1>2, <2>3 DEF Loops
  <2>8. \A m \in 1 .. n + 1 : m \in 1 .. n \/ (m = n + 1 /\ m - 1 = n)
    OBVIOUS
  <2>9. Loops(d, n + 1, V, base, step)
    BY <2>4, <2>5, <2>6, <2>7, <2>8 DEF Loops
  <2> QED
    BY <2>9
<1>3. 0 \in N
  BY <1>1
<1>4. ASSUME NEW n \in Nat, n \in N PROVE n + 1 \in N
  BY <1>2, <1>4
<1>5. L \in N
  <2> HIDE DEF N
  <2> QED
    BY <1>3, <1>4, NumbersByInduction
<1> QED
  BY <1>5

(* A loop does the same as a longer one for as long as it lasts.            *)
Alike(L, V, step, next) == \A n \in 1 .. L, v \in V : step[n][v] = next[n][v]

LEMMA LoopsAgree ==
  ASSUME NEW L \in Nat, NEW M \in Nat, L <= M, NEW V, NEW base, NEW step, NEW next,
         NEW c, Loops(c, L, V, base, step), NEW d, Loops(d, M, V, base, next),
         Alike(L, V, step, next)
  PROVE  \A n \in 0 .. L : c[n] = d[n]
<1> DEFINE N == {n \in Nat : n <= L => c[n] = d[n]}
<1>1. 0 \in N
  BY DEF Loops
<1>2. ASSUME NEW n \in Nat, n \in N PROVE n + 1 \in N
  <2>1. CASE n + 1 <= L
    <3>1. n + 1 \in 1 .. L /\ n + 1 \in 1 .. M /\ n \in 0 .. L /\ (n + 1) - 1 = n
      BY <2>1
    <3>2. c[n] = d[n] /\ c[n] \in V
      BY <1>2, <3>1 DEF Loops
    <3>3. c[n + 1] = step[n + 1][c[n]] /\ d[n + 1] = next[n + 1][d[n]]
      BY <3>1 DEF Loops
    <3> QED
      BY <3>1, <3>2, <3>3 DEF Alike
  <2> QED
    BY <2>1
<1>3. Nat \subseteq N
  <2> HIDE DEF N
  <2> QED
    BY <1>1, <1>2, NumbersByInduction
<1> QED
  BY <1>3

-----------------------------------------------------------------------------
(* Sequences.                                                               *)
LEMMA SequencesByInduction ==
  ASSUME NEW X, NEW G, <<>> \in G,
         \A s \in Seq(X), x \in X : s \in G => Append(s, x) \in G
  PROVE  Seq(X) \subseteq G
<1> DEFINE N == {n \in Nat : \A s \in Seq(X) : Len(s) = n => s \in G}
<1>1. 0 \in N
  BY EmptySeq
<1>2. ASSUME NEW n \in Nat, n \in N PROVE n + 1 \in N
  <2>1. ASSUME NEW s \in Seq(X), Len(s) = n + 1 PROVE s \in G
    <3>1. s # <<>>
      BY <2>1, EmptySeq
    <3>2. PICK t \in Seq(X), x \in X : s = Append(t, x)
      BY <3>1, SequenceEmptyOrAppend
    <3>3. Len(s) = Len(t) + 1 /\ Len(t) \in Nat
      BY <3>2
    <3>4. t \in G
      BY <1>2, <2>1, <3>3
    <3> QED
      BY <3>2, <3>4
  <2> QED
    BY <2>1
<1>3. Nat \subseteq N
  <2> HIDE DEF N
  <2> QED
    BY <1>1, <1>2, NumbersByInduction
<1> QED
  BY <1>3

LEMMA ConcatAppend ==
  ASSUME NEW X, NEW s \in Seq(X), NEW t \in Seq(X), NEW x \in X
  PROVE  s \o Append(t, x) = Append(s \o t, x)
<1>1. <<x>> \in Seq(X) /\ s \o t \in Seq(X)
  BY ConcatProperties
<1>2. Append(t, x) = t \o <<x>> /\ Append(s \o t, x) = (s \o t) \o <<x>>
  BY <1>1, AppendIsConcat
<1> QED
  BY <1>1, <1>2, ConcatAssociative

(* A sequence mapped element by element, and one element more.              *)
Mapped(s, m) == [n \in DOMAIN s |-> m[s[n]]]

LEMMA MappedType ==
  ASSUME NEW X, NEW Y, NEW m \in [X -> Y], NEW s \in Seq(X)
  PROVE  Mapped(s, m) \in Seq(Y) /\ Len(Mapped(s, m)) = Len(s)
<1>0. Len(s) \in Nat
  OBVIOUS
<1>1. PICK L \in Nat : L = Len(s)
  BY <1>0
<1>2. DOMAIN s = 1 .. L /\ \A n \in 1 .. L : s[n] \in X
  BY <1>1
<1>3. \A n \in 1 .. L : m[s[n]] \in Y
  BY <1>2
<1>4. [n \in 1 .. L |-> m[s[n]]] \in Seq(Y)
  BY <1>3, IsASeq
<1> QED
  BY <1>1, <1>2, <1>4 DEF Mapped

LEMMA MappedAppend ==
  ASSUME NEW X, NEW Y, NEW m \in [X -> Y], NEW s \in Seq(X), NEW x \in X
  PROVE  /\ Mapped(s, m) \in Seq(Y) /\ Len(Mapped(s, m)) = Len(s)
         /\ Mapped(Append(s, x), m) = Append(Mapped(s, m), m[x])
<1>0. Len(s) \in Nat
  OBVIOUS
<1>1. PICK L \in Nat : L = Len(s)
  BY <1>0
<1>2. PICK t, r : t = Append(s, x) /\ r = Mapped(s, m)
  OBVIOUS
<1>3. /\ DOMAIN s = 1 .. L /\ DOMAIN t = 1 .. L + 1
      /\ t[L + 1] = x /\ \A n \in 1 .. L : t[n] = s[n] /\ s[n] \in X
  BY <1>1, <1>2
<1>4. r = [n \in 1 .. L |-> m[s[n]]] /\ \A n \in 1 .. L : m[s[n]] \in Y
  BY <1>2, <1>3 DEF Mapped
<1>5. r \in Seq(Y) /\ Len(r) = L /\ \A n \in 1 .. L : r[n] = m[s[n]]
  BY <1>4, IsASeq
<1>6. Mapped(t, m) = Append(r, m[x])
  <2>1. PICK w : w = Append(r, m[x])
    OBVIOUS
  <2>2. /\ DOMAIN w = 1 .. L + 1 /\ w[L + 1] = m[x] /\ \A n \in 1 .. L : w[n] = r[n]
        /\ w \in Seq(Y)
    BY <1>5, <2>1
  <2>3. \A n \in 1 .. L + 1 : n \in 1 .. L \/ n = L + 1
    OBVIOUS
  <2>4. \A n \in 1 .. L + 1 : w[n] = m[t[n]]
    BY <1>3, <1>5, <2>2, <2>3
  <2>5. w = [n \in 1 .. L + 1 |-> w[n]]
    BY <2>2
  <2> QED
    BY <1>3, <2>1, <2>4, <2>5 DEF Mapped
<1> QED
  BY <1>1, <1>2, <1>5, <1>6

(* FlattenSeq as a loop that appends one sequence after the other.          *)
Appends(ss, X) == [n \in 1 .. Len(ss) |-> [v \in Seq(X) |-> v \o ss[n]]]

LEMMA FlattenIs ==
  ASSUME NEW X, NEW ss \in Seq(Seq(X))
  PROVE  \E c : /\ Loops(c, Len(ss), Seq(X), <<>>, Appends(ss, X))
                /\ FlattenSeq(ss) = c[Len(ss)]
<1>1. PICK L \in Nat : L = Len(ss)
  OBVIOUS
<1>2. \A n \in 1 .. L : ss[n] \in Seq(X)
  BY <1>1
<1>3. <<>> \in Seq(X) /\ Closed(Appends(ss, X), 1 .. L, Seq(X))
  BY <1>1, <1>2 DEF Closed, Appends
<1>4. PICK c : Loops(c, L, Seq(X), <<>>, Appends(ss, X))
  BY <1>3, LoopExists
<1>5. c \in [0 .. L -> Seq(X)] /\ c[0] = <<>> /\ \A n \in 1 .. L : c[n] = c[n - 1] \o ss[n]
  <2>1. \A n \in 1 .. L : n - 1 \in 0 .. L
    OBVIOUS
  <2> QED
    BY <1>1, <1>4, <2>1 DEF Loops, Appends
<1>6. CASE L = 0
  <2>1. FlattenSeq(ss) = ss
    BY <1>1, <1>6 DEF FlattenSeq
  <2>2. ss = <<>> /\ c[L] = <<>>
    BY <1>1, <1>5, <1>6, EmptySeq
  <2> QED
    BY <1>1, <1>4, <2>1, <2>2
<1>7. CASE L # 0
  <2> DEFINE P(f) == f = [i \in 1 .. L |-> IF i = 1 THEN ss[i] ELSE f[i - 1] \o ss[i]]
             chosen == CHOOSE f : P(f)
  <2>1. FlattenSeq(ss) = chosen[L]
    BY <1>1, <1>7 DEF FlattenSeq
  <2>2. \E f : P(f)
    <3>1. PICK f : f = [i \in 1 .. L |-> c[i]]
      OBVIOUS
    <3>2. \A i \in 1 .. L : f[i] = IF i = 1 THEN ss[i] ELSE f[i - 1] \o ss[i]
      <4>1. ASSUME NEW i \in 1 .. L, i = 1 PROVE c[i] = ss[i]
        <5>0. 1 \in 1 .. L /\ 1 - 1 = 0
          BY <4>1
        <5>1. c[1] = <<>> \o ss[1] /\ ss[1] \in Seq(X)
          BY <1>2, <1>5, <5>0
        <5> QED
          BY <4>1, <5>1, ConcatEmptySeq
      <4>2. ASSUME NEW i \in 1 .. L, i # 1 PROVE i - 1 \in 1 .. L
        BY <4>2
      <4> QED
        BY <1>5, <3>1, <4>1, <4>2
    <3>3. P(f)
      BY <3>1, <3>2
    <3> QED
      BY <3>3
  <2>3. P(chosen)
    <3> HIDE DEF P
    <3> QED
      BY <2>2
  <2> HIDE DEF chosen
  <2> DEFINE N == {n \in Nat : n + 1 <= L => chosen[n + 1] = c[n + 1]}
  <2>4. 0 \in N
    <3>1. 1 \in 1 .. L /\ 1 - 1 = 0 /\ ss[1] \in Seq(X)
      BY <1>2, <1>7
    <3>2. chosen[1] = ss[1]
      BY <2>3, <3>1
    <3>3. c[1] = <<>> \o ss[1]
      BY <1>5, <3>1
    <3> QED
      BY <3>1, <3>2, <3>3, ConcatEmptySeq
  <2>5. ASSUME NEW n \in Nat, n \in N PROVE n + 1 \in N
    <3>1. CASE n + 2 <= L
      <4>0. PICK k : k = (n + 1) + 1
        OBVIOUS
      <4>1. k \in 1 .. L /\ k # 1 /\ k - 1 = n + 1
        BY <3>1, <4>0
      <4>2. chosen[k] = chosen[n + 1] \o ss[k]
        BY <2>3, <4>1
      <4>3. c[k] = c[n + 1] \o ss[k]
        BY <1>5, <4>1
      <4>4. chosen[n + 1] = c[n + 1]
        BY <2>5, <3>1
      <4>5. chosen[(n + 1) + 1] = c[(n + 1) + 1] /\ n + 1 \in Nat
        BY <4>0, <4>2, <4>3, <4>4
      <4> QED
        BY <4>5
    <3>2. CASE ~ (n + 2 <= L)
      BY <3>2
    <3> QED
      BY <3>1, <3>2
  <2>6. L - 1 \in N
    <3> HIDE DEF N
    <3> QED
      BY <1>7, <2>4, <2>5, NumbersByInduction
  <2>7. chosen[L] = c[L]
    BY <1>7, <2>6
  <2> QED
    BY <1>1, <1>4, <2>1, <2>7
<1> QED
  BY <1>6, <1>7

LEMMA FlattenAppend ==
  ASSUME NEW X, NEW ss \in Seq(Seq(X)), NEW x \in Seq(X)
  PROVE  /\ FlattenSeq(<<>>) = <<>>
         /\ FlattenSeq(ss) \in Seq(X)
         /\ FlattenSeq(Append(ss, x)) = FlattenSeq(ss) \o x
<1>0. Len(ss) \in Nat
  OBVIOUS
<1>1. PICK L \in Nat : L = Len(ss)
  BY <1>0
<1> PICK t : t = Append(ss, x)
  OBVIOUS
<1>2. /\ t \in Seq(Seq(X)) /\ Len(t) = L + 1 /\ t[L + 1] = x
      /\ \A n \in 1 .. L : t[n] = ss[n]
  BY <1>1
<1>3. PICK c : Loops(c, L, Seq(X), <<>>, Appends(ss, X)) /\ FlattenSeq(ss) = c[L]
  BY <1>1, FlattenIs
<1>4. PICK d : Loops(d, L + 1, Seq(X), <<>>, Appends(t, X)) /\ FlattenSeq(t) = d[L + 1]
  BY <1>2, FlattenIs
<1>5. \A n \in 1 .. L, v \in Seq(X) : Appends(ss, X)[n][v] = Appends(t, X)[n][v]
  <2>1. \A n \in 1 .. L : n \in 1 .. L + 1
    BY <1>1
  <2>2. \A n \in 1 .. L, v \in Seq(X) : Appends(ss, X)[n][v] = v \o ss[n]
    BY <1>1 DEF Appends
  <2>3. \A n \in 1 .. L, v \in Seq(X) : Appends(t, X)[n][v] = v \o t[n]
    BY <1>2, <2>1 DEF Appends
  <2> QED
    BY <1>2, <2>2, <2>3
<1>6. c[L] = d[L]
  <2>1. L + 1 \in Nat /\ L <= L + 1 /\ L \in 0 .. L
    OBVIOUS
  <2>2. Alike(L, Seq(X), Appends(ss, X), Appends(t, X))
    BY <1>5 DEF Alike
  <2> QED
    BY <1>3, <1>4, <2>1, <2>2, LoopsAgree
<1>7. c[L] \in Seq(X)
  BY <1>3 DEF Loops
<1>8. d[L + 1] = d[L] \o x
  <2>1. L + 1 \in 1 .. L + 1 /\ (L + 1) - 1 = L
    OBVIOUS
  <2>2. d[L + 1] = Appends(t, X)[L + 1][d[L]]
    BY <1>4, <2>1 DEF Loops
  <2>3. d[L] \in Seq(X)
    BY <1>6, <1>7
  <2> QED
    BY <1>2, <2>1, <2>2, <2>3 DEF Appends
<1>9. FlattenSeq(<<>>) = <<>>
  BY DEF FlattenSeq
<1> QED
  BY <1>1, <1>3, <1>4, <1>6, <1>7, <1>8, <1>9
==============================================================================
