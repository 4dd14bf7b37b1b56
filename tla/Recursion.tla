----------------------------- MODULE Recursion -----------------------------
(***************************************************************************)
(* Induction over the natural numbers with sets in place of predicates,    *)
(* and what follows from it: the least element, with which the proofs name *)
(* the first record of a segment or the first entry of a table with a      *)
(* property, and the functions defined by recursion.                       *)
(***************************************************************************)
EXTENDS Integers, WellFoundedInduction, TLAPS

\* A set of natural numbers that is not empty has a least element.
LEMMA LeastNumber ==
  ASSUME NEW T \in SUBSET Nat, T # {}
  PROVE  \E m \in T : \A k \in T : m <= k
<1> DEFINE R == {pair \in Nat \X Nat : pair[1] < pair[2]}
<1>1. IsWellFoundedOn(R, Nat)
  BY NatLessThanWellFounded DEF OpToRel
<1>2. \E x \in T : \A y \in T : ~(<<y, x>> \in R)
  <2> HIDE DEF R
  <2> QED
    BY <1>1, WFMin
<1>3. \A x, y \in T : y < x => <<y, x>> \in R
  OBVIOUS
<1>4. PICK x \in T : \A y \in T : ~(y < x)
  <2> HIDE DEF R
  <2> QED
    BY <1>2, <1>3
<1>5. \A y \in T : x \in Nat /\ y \in Nat
  OBVIOUS
<1> QED
  BY <1>4, <1>5

\* Induction: a set that holds zero and with every number the next one holds all.
LEMMA Induction ==
  ASSUME NEW T \in SUBSET Nat, 0 \in T, \A k \in T : k + 1 \in T
  PROVE  \A k \in Nat : k \in T
<1> SUFFICES ASSUME Nat \ T # {} PROVE FALSE
  OBVIOUS
<1>1. PICK m \in Nat \ T : \A k \in Nat \ T : m <= k
  BY LeastNumber
<1>2. m - 1 \in Nat /\ m - 1 \notin Nat \ T
  BY <1>1
<1> QED
  BY <1>2

\* f starts with a and goes on by step.
Iterates(f, S, a, step) ==
  f \in [Nat -> S] /\ f[0] = a /\ \A k \in Nat \ {0} : f[k] = step[k][f[k - 1]]

\* A recursive function on the natural numbers has the values its equation says.
LEMMA Iteration ==
  ASSUME NEW S, NEW a \in S, NEW step \in [Nat -> [S -> S]]
  PROVE  \E f : Iterates(f, S, a, step)
<1> DEFINE Starts(g, n) == /\ g \in [0..n -> S] /\ g[0] = a
                           /\ \A k \in 1..n : g[k] = step[k][g[k - 1]]
<1>1. ASSUME NEW n \in Nat, NEW g, Starts(g, n), NEW m \in Nat, NEW h, Starts(h, m)
      PROVE  \A k \in 0..n : k <= m => g[k] = h[k]
  <2> DEFINE T == {k \in Nat : k <= n /\ k <= m => g[k] = h[k]}
  <2>1. 0 \in T
    BY <1>1
  <2>2. ASSUME NEW k \in T PROVE k + 1 \in T
    <3> SUFFICES ASSUME k + 1 <= n, k + 1 <= m PROVE g[k + 1] = h[k + 1]
      OBVIOUS
    <3>1. g[k] = h[k] /\ k + 1 \in 1..n /\ k + 1 \in 1..m /\ (k + 1) - 1 = k
      OBVIOUS
    <3>2. g[k + 1] = step[k + 1][g[k]] /\ h[k + 1] = step[k + 1][h[k]]
      BY <3>1, <1>1
    <3> QED
      BY <3>1, <3>2
  <2> HIDE DEF T
  <2>3. \A k \in Nat : k \in T
    BY <2>1, <2>2, Induction DEF T
  <2> QED
    BY <2>3 DEF T
<1>2. \A n \in Nat : \E g : Starts(g, n)
  <2> DEFINE T == {n \in Nat : \E g : Starts(g, n)}
  <2>1. 0 \in T
    <3>1. Starts([k \in 0..0 |-> a], 0)
      OBVIOUS
    <3> QED
      BY <3>1
  <2>2. ASSUME NEW n \in T PROVE n + 1 \in T
    <3>1. PICK g : Starts(g, n)
      OBVIOUS
    <3> DEFINE h == [k \in 0..(n + 1) |-> IF k = n + 1 THEN step[k][g[n]] ELSE g[k]]
    <3>2. n \in 0..n /\ g[n] \in S /\ step[n + 1] \in [S -> S]
      BY <3>1
    <3>3. h \in [0..(n + 1) -> S]
      BY <3>1, <3>2
    <3>4. h[0] = a
      BY <3>1
    <3>5. ASSUME NEW k \in 1..(n + 1) PROVE h[k] = step[k][h[k - 1]]
      BY <3>1, <3>2
    <3>6. Starts(h, n + 1)
      BY <3>3, <3>4, <3>5
    <3>7. \E e : Starts(e, n + 1)
      <4> HIDE DEF Starts, h
      <4> QED
        BY <3>6
    <3> QED
      BY <3>7
  <2> HIDE DEF T
  <2>3. \A n \in Nat : n \in T
    BY <2>1, <2>2, Induction DEF T
  <2> QED
    BY <2>3 DEF T
<1> DEFINE approx(n) == CHOOSE g : Starts(g, n)
           f == [n \in Nat |-> approx(n)[n]]
<1>3. \A n \in Nat : Starts(approx(n), n)
  <2> HIDE DEF Starts
  <2> QED
    BY <1>2
<1>4. \A n \in Nat : f[n] \in S
  <2> SUFFICES ASSUME NEW n \in Nat PROVE approx(n)[n] \in S
    OBVIOUS
  <2> HIDE DEF approx
  <2> QED
    BY <1>3
<1>5. ASSUME NEW k \in Nat PROVE f[k] = IF k = 0 THEN a ELSE step[k][f[k - 1]]
  <2>1. CASE k = 0
    BY <1>3, <2>1
  <2>2. CASE k # 0
    <3>1. k - 1 \in Nat /\ k - 1 \in 0..(k - 1) /\ k \in 1..k /\ k - 1 <= k
      BY <2>2
    <3>2. approx(k)[k] = step[k][approx(k)[k - 1]]
      BY <1>3, <3>1
    <3>3. approx(k)[k - 1] = approx(k - 1)[k - 1]
      <4>1. Starts(approx(k), k) /\ Starts(approx(k - 1), k - 1)
        BY <1>3, <3>1
      <4> HIDE DEF Starts, approx
      <4> QED
        BY <1>1, <3>1, <4>1
    <3>4. f[k] = approx(k)[k] /\ f[k - 1] = approx(k - 1)[k - 1]
      BY <3>1
    <3> HIDE DEF f, approx
    <3> QED
      BY <2>2, <3>2, <3>3, <3>4
  <2> QED
    BY <2>1, <2>2
<1> HIDE DEF f
<1>6. f \in [Nat -> S]
  BY <1>4 DEF f
<1> QED
  BY <1>5, <1>6 DEF Iterates

\* f repeats step until it is done, k times at most.
Loops(f, S, Done, step) ==
  /\ f \in [Nat \X S -> S]
  /\ \A x \in Nat \X S :
       f[x] = IF x[1] = 0 \/ x[2] \in Done THEN x[2] ELSE f[<<x[1] - 1, step[x[2]]>>]

\* So has a loop with a bound.
LEMMA Loop ==
  ASSUME NEW S, NEW Done, NEW step \in [S -> S]
  PROVE  \E f : Loops(f, S, Done, step)
<1> DEFINE id == [s \in S |-> s]
           next == [k \in Nat |-> [g \in [S -> S] |-> [s \in S |-> IF s \in Done THEN s ELSE g[step[s]]]]]
<1>1. PICK F : F = [S -> S]
  OBVIOUS
<1>2. id \in F /\ next \in [Nat -> [F -> F]]
  BY <1>1
<1> HIDE DEF next, id
<1>3. PICK h : Iterates(h, F, id, next)
  BY <1>2, Iteration
<1> USE DEF Iterates
<1>4. \A s \in S : h[0][s] = s
  BY <1>3 DEF id
<1>5. ASSUME NEW k \in Nat \ {0}, NEW s \in S
      PROVE  h[k][s] = IF s \in Done THEN s ELSE h[k - 1][step[s]]
  <2>1. k - 1 \in Nat /\ h[k - 1] \in [S -> S] /\ step[s] \in S
    BY <1>1, <1>3
  <2>2. h[k] = next[k][h[k - 1]]
    BY <1>3
  <2> QED
    BY <2>1, <2>2 DEF next
<1> DEFINE f == [x \in Nat \X S |-> h[x[1]][x[2]]]
<1>6. ASSUME NEW x \in Nat \X S
      PROVE  f[x] = IF x[1] = 0 \/ x[2] \in Done THEN x[2] ELSE f[<<x[1] - 1, step[x[2]]>>]
  <2>1. x[1] \in Nat /\ x[2] \in S /\ step[x[2]] \in S /\ f[x] = h[x[1]][x[2]]
    OBVIOUS
  <2>2. CASE x[1] = 0
    BY <1>4, <2>1, <2>2
  <2>3. CASE x[1] # 0
    <3>1. <<x[1] - 1, step[x[2]]>> \in Nat \X S
      BY <2>1, <2>3
    <3>2. f[<<x[1] - 1, step[x[2]]>>] = h[x[1] - 1][step[x[2]]]
      BY <3>1
    <3>3. h[x[1]][x[2]] = IF x[2] \in Done THEN x[2] ELSE h[x[1] - 1][step[x[2]]]
      BY <1>5, <2>1, <2>3
    <3> HIDE DEF f
    <3> QED
      BY <2>1, <2>3, <3>2, <3>3
  <2> QED
    BY <2>2, <2>3
<1>7. f \in [Nat \X S -> S]
  <2>1. \A x \in Nat \X S : h[x[1]][x[2]] \in S
    BY <1>1, <1>3
  <2> QED
    BY <2>1
<1> HIDE DEF f
<1> QED
  BY <1>6, <1>7 DEF Loops
=============================================================================
