---------------------------- MODULE ProofLemmas ----------------------------
(***************************************************************************)
(* Facts about numbers and finite sets that the proofs of several          *)
(* components rest on: induction, in a form where the claim is a set and   *)
(* not an operator, remainders, and the sum of a function's values.        *)
(***************************************************************************)
EXTENDS Integers, FiniteSets, Functions, WellFoundedInduction, FiniteSetTheorems, TLAPS

-----------------------------------------------------------------------------
(* Induction.                                                              *)

\* A set of naturals that is not empty has a least element.
LEMMA LeastNat ==
    ASSUME NEW T \in SUBSET Nat, T # {}
    PROVE  \E m \in T : \A n \in T : m <= n
<1> DEFINE R == OpToRel(<, Nat)
<1>1. IsWellFoundedOn(R, Nat)
  BY NatLessThanWellFounded, Zenon
<1>2. \A x, y \in Nat : <<y, x>> \in R <=> y < x
  BY DEF OpToRel
<1> HIDE DEF R
<1>3. PICK m \in T : \A n \in T : ~(<<n, m>> \in R)
  BY <1>1, WFMin
<1>4. \A n \in T : ~(n < m)
  BY <1>2, <1>3
<1> QED
  BY <1>4

\* Induction over the natural numbers, the claim a set.
LEMMA SetOfNaturals ==
    ASSUME NEW G \in SUBSET Nat, 0 \in G, \A n \in G : n + 1 \in G
    PROVE  \A n \in Nat : n \in G
<1> SUFFICES ASSUME Nat \ G # {} PROVE FALSE
  OBVIOUS
<1>1. PICK m \in Nat \ G : \A n \in Nat \ G : m <= n
  BY LeastNat
<1>2. m - 1 \in G
  BY <1>1
<1> QED
  BY <1>1, <1>2

\* An element of s.
Picked(s) == CHOOSE x \in s : TRUE

\* A set that is not empty has the element picked from it.
LEMMA PickedIn ==
    ASSUME NEW s, s # {}
    PROVE  Picked(s) \in s
BY DEF Picked

\* Induction over the subsets of a finite set, an element less at each step.
LEMMA SetOfSubsets ==
    ASSUME NEW S, IsFiniteSet(S), NEW G \in SUBSET SUBSET S, {} \in G,
           \A s \in SUBSET S : s # {} /\ s \ {Picked(s)} \in G => s \in G
    PROVE  \A s \in SUBSET S : s \in G
<1> DEFINE C == {n \in Nat : \A s \in SUBSET S : Cardinality(s) = n => s \in G}
<1>1. \A s \in SUBSET S : IsFiniteSet(s) /\ Cardinality(s) \in Nat
  BY FS_Subset, FS_CardinalityType
<1>2. 0 \in C
  BY <1>1, FS_EmptySet
<1>3. ASSUME NEW n \in C PROVE n + 1 \in C
  <2> SUFFICES ASSUME NEW s \in SUBSET S, Cardinality(s) = n + 1
               PROVE  s \in G
    OBVIOUS
  <2>1. s # {}
    BY FS_EmptySet
  <2>2. Cardinality(s \ {Picked(s)}) = n
    <3>1. Picked(s) \in s
      BY <2>1, PickedIn
    <3>2. Cardinality(s \ {Picked(s)}) = Cardinality(s) - 1
      BY <1>1, <3>1, FS_RemoveElement
    <3> QED
      BY <3>2
  <2> QED
    BY <2>1, <2>2
<1> HIDE DEF C
<1>4. \A n \in Nat : n \in C
  BY <1>2, <1>3, SetOfNaturals DEF C
<1> QED
  BY <1>1, <1>4 DEF C

-----------------------------------------------------------------------------
(* Remainders.                                                             *)

\* A remainder is below the modulus.
LEMMA ModRange ==
    ASSUME NEW x \in Int, NEW m \in Nat \ {0}
    PROVE  x % m \in 0 .. m - 1
OBVIOUS

\* A number below the modulus is its own remainder.
LEMMA ModSmall ==
    ASSUME NEW m \in Nat \ {0}, NEW x \in 0 .. m - 1
    PROVE  x % m = x
OBVIOUS

\* A number and its remainder differ by a multiple of the modulus.
LEMMA DivMod ==
    ASSUME NEW x \in Int, NEW m \in Nat \ {0}
    PROVE  \E q \in Int : x % m = x - m * q
<1>1. x = m * (x \div m) + (x % m)
  OBVIOUS
<1>2. x \div m \in Int
  OBVIOUS
<1>3. x % m = x - m * (x \div m)
  BY <1>1, <1>2
<1> WITNESS x \div m \in Int
<1> QED
  BY <1>3

\* Two numbers below the modulus that differ by a multiple of it are the same.
LEMMA ModUnique ==
    ASSUME NEW m \in Nat \ {0}, NEW x \in 0 .. m - 1, NEW y \in 0 .. m - 1, NEW q \in Int,
           x - y = m * q
    PROVE  x = y
<1>1. CASE q >= 1
  <2>1. m * q >= m
    BY <1>1
  <2> QED BY <2>1
<1>2. CASE q <= -1
  <2>1. m * q <= -m
    BY <1>2
  <2> QED BY <2>1
<1>3. CASE q = 0
  BY <1>3
<1> QED
  BY <1>1, <1>2, <1>3

\* Numbers that differ by a multiple of the modulus have the same remainder.
LEMMA ModShift ==
    ASSUME NEW x \in Int, NEW y \in Int, NEW m \in Nat \ {0}, NEW q \in Int, x - y = m * q
    PROVE  x % m = y % m
<1>1. PICK a \in Int : x % m = x - m * a
  BY DivMod
<1>2. PICK b \in Int : y % m = y - m * b
  BY DivMod
<1>3. x % m \in 0 .. m - 1 /\ y % m \in 0 .. m - 1
  BY ModRange
<1>4. (x % m) - (y % m) = m * (q - a + b)
  BY <1>1, <1>2
<1> QED
  BY <1>3, <1>4, ModUnique
-----------------------------------------------------------------------------
(* SumFunction of the community modules.                                   *)

\* h sums f over each of the sets of D.
IsSum(h, f, D) == h = [s \in D |-> IF s = {} THEN 0 ELSE f[Picked(s)] + h[s \ {Picked(s)}]]

\* The recursion that SumFunction is defined by has a solution over the subsets of a
\* finite set.
LEMMA SumExists ==
    ASSUME NEW S, IsFiniteSet(S), NEW f
    PROVE  \E h : IsSum(h, f, SUBSET S)
<1> DEFINE Small(n) == {s \in SUBSET S : Cardinality(s) <= n}
           C == {n \in Nat : \E h : IsSum(h, f, Small(n))}
<1>1. \A s \in SUBSET S : IsFiniteSet(s) /\ Cardinality(s) \in Nat /\ Cardinality(s) <= Cardinality(S)
  BY FS_Subset, FS_CardinalityType
<1>2. 0 \in C
  <2>1. Small(0) = {{}}
    BY <1>1, FS_EmptySet
  <2>2. IsSum([s \in {{}} |-> 0], f, {{}})
    BY DEF IsSum
  <2> QED
    BY <2>1, <2>2
<1>3. ASSUME NEW n \in C PROVE n + 1 \in C
  <2>1. PICK h : IsSum(h, f, Small(n))
    OBVIOUS
  <2> DEFINE g == [s \in Small(n + 1) |-> IF s = {} THEN 0 ELSE f[Picked(s)] + h[s \ {Picked(s)}]]
  <2>2. \A s \in Small(n) : g[s] = h[s]
    <3>1. ASSUME NEW s \in Small(n)
          PROVE  h[s] = IF s = {} THEN 0 ELSE f[Picked(s)] + h[s \ {Picked(s)}]
      <4> HIDE DEF Small
      <4> QED BY <2>1 DEF IsSum
    <3>2. \A s \in Small(n) : s \in Small(n + 1)
      BY <1>1
    <3> HIDE DEF Small
    <3> QED
      BY <3>1, <3>2
  <2>3. ASSUME NEW s \in Small(n + 1), s # {} PROVE s \ {Picked(s)} \in Small(n)
    BY <1>1, <2>3, PickedIn, FS_RemoveElement
  <2>4. IsSum(g, f, Small(n + 1))
    BY <2>2, <2>3 DEF IsSum
  <2> QED
    <3> HIDE DEF g, Small
    <3> QED BY <2>4
<1>4. Cardinality(S) \in C
  <2> HIDE DEF C
  <2> QED BY <1>1, <1>2, <1>3, SetOfNaturals DEF C
<1>5. Small(Cardinality(S)) = SUBSET S
  BY <1>1
<1> QED
  BY <1>4, <1>5

\* A function summed twice with one value changed: the sums differ by the change.
LEMMA SumChange ==
    ASSUME NEW S, IsFiniteSet(S), NEW f \in [S -> Int], NEW g \in [S -> Int], NEW c \in S,
           \A x \in S \ {c} : g[x] = f[x]
    PROVE  SumFunction(f) \in Int /\ SumFunction(g) = SumFunction(f) + g[c] - f[c]
<1>1. PICK F : F = CHOOSE h : IsSum(h, f, SUBSET S)
  OBVIOUS
<1>2. PICK G : G = CHOOSE h : IsSum(h, g, SUBSET S)
  OBVIOUS
<1>3. IsSum(F, f, SUBSET S) /\ IsSum(G, g, SUBSET S)
  BY <1>1, <1>2, SumExists
<1>4. SumFunction(f) = F[S] /\ SumFunction(g) = G[S]
  BY <1>1, <1>2 DEF SumFunction, SumFunctionOnSet, FoldFunctionOnSet, MapThenFoldSet, IsSum, Picked
<1> DEFINE A == {s \in SUBSET S : F[s] \in Int /\ G[s] = F[s] + IF c \in s THEN g[c] - f[c] ELSE 0}
<1>5. {} \in A
  BY <1>3 DEF IsSum
<1>6. ASSUME NEW s \in SUBSET S, s # {}, s \ {Picked(s)} \in A
      PROVE  s \in A
  <2>1. Picked(s) \in s /\ Picked(s) \in S
    BY <1>6, PickedIn
  <2>2. F[s] = f[Picked(s)] + F[s \ {Picked(s)}] /\ G[s] = g[Picked(s)] + G[s \ {Picked(s)}]
    BY <1>3, <1>6 DEF IsSum
  <2>3. f[Picked(s)] \in Int /\ g[Picked(s)] \in Int /\ f[c] \in Int /\ g[c] \in Int
    BY <2>1
  <2>4. CASE Picked(s) = c
    BY <1>6, <2>1, <2>2, <2>3, <2>4
  <2>5. CASE Picked(s) # c
    BY <1>6, <2>1, <2>2, <2>3, <2>5
  <2> QED
    BY <2>4, <2>5
<1>7. S \in A
  <2> HIDE DEF A
  <2> QED BY <1>5, <1>6, SetOfSubsets DEF A
<1> QED
  BY <1>4, <1>7
\* The sum of integers is an integer.
LEMMA SumType ==
    ASSUME NEW S, IsFiniteSet(S), NEW f \in [S -> Int]
    PROVE  SumFunction(f) \in Int
<1>1. CASE S = {}
  <2>1. PICK F : F = CHOOSE h : IsSum(h, f, SUBSET S)
    OBVIOUS
  <2>2. IsSum(F, f, SUBSET S)
    BY <2>1, SumExists
  <2>3. SumFunction(f) = F[S]
    BY <2>1 DEF SumFunction, SumFunctionOnSet, FoldFunctionOnSet, MapThenFoldSet, IsSum, Picked
  <2> QED
    BY <1>1, <2>2, <2>3 DEF IsSum
<1>2. CASE S # {}
  BY <1>2, SumChange
<1> QED
  BY <1>1, <1>2

-----------------------------------------------------------------------------
(* Congruence.                                                             *)

\* x and y differ by a multiple of m.
Congruent(x, y, m) == \E q \in Int : x - y = m * q

\* The remainder of x is the number below m that is congruent to it.
LEMMA ModIs ==
    ASSUME NEW m \in Nat \ {0}, NEW x \in Int, NEW y \in 0 .. m - 1, Congruent(x, y, m)
    PROVE  x % m = y
<1>1. PICK q \in Int : x - y = m * q
  BY DEF Congruent
<1>2. y % m = y /\ y \in Int
  BY ModSmall
<1> QED
  BY <1>1, <1>2, ModShift

\* A number and its remainder are congruent.
LEMMA ModCongruent ==
    ASSUME NEW m \in Nat \ {0}, NEW x \in Int, NEW y \in Int, y = x % m
    PROVE  Congruent(x, y, m) /\ Congruent(y, x, m)
<1>1. PICK q \in Int : x % m = x - m * q
  BY DivMod
<1>2. PICK p \in Int : p = -q
  OBVIOUS
<1>3. x - y = m * q /\ y - x = m * p
  BY <1>1, <1>2
<1> QED
  BY <1>3 DEF Congruent

\* A number is congruent to itself.
LEMMA SelfCongruent ==
    ASSUME NEW m \in Nat \ {0}, NEW x \in Int
    PROVE  Congruent(x, x, m)
<1>1. x - x = m * 0
  OBVIOUS
<1> QED
  BY <1>1 DEF Congruent

\* Two congruent numbers stay congruent when they change by the same amount, each modulo m.
LEMMA CongruentChange ==
    ASSUME NEW m \in Nat \ {0}, NEW x \in Int, NEW y \in Int, NEW X \in Int, NEW Y \in Int,
           NEW x1 \in Int, NEW y1 \in Int, X - x = Y - y,
           Congruent(x, y, m), Congruent(x1, X, m), Congruent(y1, Y, m)
    PROVE  Congruent(x1, y1, m)
<1>1. PICK q \in Int : x - y = m * q
  BY DEF Congruent
<1>2. PICK p \in Int : x1 - X = m * p
  BY DEF Congruent
<1>3. PICK u \in Int : y1 - Y = m * u
  BY DEF Congruent
<1>4. x1 - y1 = m * (q + p - u)
  BY <1>1, <1>2, <1>3
<1> QED
  BY <1>4 DEF Congruent

\* A sum grows by a when one of its values does, modulo m.
LEMMA SumCongruent ==
    ASSUME NEW S, IsFiniteSet(S), NEW m \in Nat \ {0}, NEW f \in [S -> Int], NEW g \in [S -> Int],
           NEW c \in S, \A x \in S \ {c} : g[x] = f[x],
           NEW a \in Int, NEW b \in Int, b = f[c] + a, Congruent(g[c], b, m)
    PROVE  /\ SumFunction(g) \in Int /\ SumFunction(f) \in Int
           /\ Congruent(SumFunction(g), SumFunction(f) + a, m)
<1>1. SumFunction(f) \in Int /\ SumFunction(g) = SumFunction(f) + g[c] - f[c]
  BY SumChange
<1>2. f[c] \in Int /\ g[c] \in Int
  OBVIOUS
<1>3. PICK q \in Int : g[c] - b = m * q
  BY DEF Congruent
<1>4. PICK k \in Int : k = m * q
  OBVIOUS
<1>5. SumFunction(g) - (SumFunction(f) + a) = k /\ SumFunction(g) \in Int
  BY <1>1, <1>2, <1>3, <1>4
<1> QED
  BY <1>1, <1>4, <1>5 DEF Congruent
=============================================================================
