---------------------------- MODULE VmIterProofs ----------------------------
(***************************************************************************)
(* Proofs about the page table iterators: for every FANOUT, number of      *)
(* levels and set of pages, a vmiter agrees with the hardware, try_map     *)
(* changes its own page only, and the page table stays a tree.             *)
(***************************************************************************)
EXTENDS VmIter, ProofLemmas, FiniteSetTheorems, TLAPS

-----------------------------------------------------------------------------
(* Quotients.                                                              *)

\* Quotient and remainder are determined by what they add up to.
LEMMA DivIs ==
    ASSUME NEW a \in Int, NEW s \in Nat \ {0}, NEW q \in Int, NEW r \in 0 .. s - 1, a = s * q + r
    PROVE  a \div s = q /\ a % s = r
<1>1. PICK p \in Int : p = a \div s
  OBVIOUS
<1>2. PICK t \in 0 .. s - 1 : t = a % s
  OBVIOUS
<1>3. a = s * p + t
  BY <1>1, <1>2
<1>4. PICK d \in Int : d = q - p
  OBVIOUS
<1>5. s * d = s * q - s * p
  BY <1>4
<1>6. t - r = s * d
  BY <1>3, <1>5
<1>7. t = r
  BY <1>6, ModUnique
<1>8. s * d = 0
  BY <1>6, <1>7
<1>9. d = 0
  <2>1. d >= 1 => s * d >= s
    OBVIOUS
  <2>2. d <= -1 => s * d <= -s
    OBVIOUS
  <2> QED
    BY <1>8, <2>1, <2>2
<1> QED
  BY <1>1, <1>2, <1>4, <1>7, <1>9

\* A natural number, its quotient and its remainder.
LEMMA DivNat ==
    ASSUME NEW a \in Nat, NEW s \in Nat \ {0}
    PROVE  /\ a \div s \in Nat /\ a % s \in 0 .. s - 1
           /\ a = s * (a \div s) + (a % s)
<1>1. a \div s \in Int /\ a % s \in 0 .. s - 1 /\ a = s * (a \div s) + (a % s)
  OBVIOUS
<1>2. PICK q \in Int : q = a \div s
  BY <1>1
<1>3. q <= -1 => s * q <= -s
  OBVIOUS
<1>4. q >= 0
  BY <1>1, <1>2, <1>3
<1> QED
  BY <1>1, <1>2, <1>4

\* Dividing twice is dividing by the product.
LEMMA DivDiv ==
    ASSUME NEW a \in Nat, NEW s \in Nat \ {0}, NEW f \in Nat \ {0}
    PROVE  (a \div s) \div f = a \div (f * s)
<1>1. PICK q \in Nat : q = a \div s
  BY DivNat
<1>2. PICK r \in 0 .. s - 1 : r = a % s /\ a = s * q + r
  BY <1>1, DivNat
<1>3. PICK p \in Nat : p = q \div f
  BY DivNat
<1>4. PICK t \in 0 .. f - 1 : t = q % f /\ q = f * p + t
  BY <1>3, DivNat
<1>5. PICK u \in Nat : u = s * t + r
  BY <1>2, <1>4
<1>6. f * s \in Nat \ {0}
  OBVIOUS
<1>7. u <= f * s - 1
  <2>1. s * t <= s * (f - 1)
    BY <1>4
  <2>2. s * (f - 1) = f * s - s
    OBVIOUS
  <2>3. s * t \in Nat /\ f * s \in Nat
    BY <1>4
  <2> QED
    BY <1>2, <1>5, <2>1, <2>2, <2>3
<1>8. a = (f * s) * p + u
  <2>1. s * q = s * (f * p + t)
    BY <1>4
  <2>2. s * (f * p + t) = (f * s) * p + s * t
    BY <1>4
  <2>3. PICK x, y, z : x = s * q /\ y = (f * s) * p /\ z = s * t
    OBVIOUS
  <2>4. x \in Int /\ y \in Int /\ z \in Int
    BY <1>4, <2>3
  <2>5. x = y + z /\ a = x + r /\ u = z + r
    BY <1>2, <1>5, <2>1, <2>2, <2>3
  <2>6. a = y + u
    BY <2>4, <2>5
  <2> QED
    BY <2>3, <2>6
<1>9. a \div (f * s) = p
  <2>1. PICK m \in Nat \ {0} : m = f * s
    BY <1>6
  <2>2. u \in 0 .. m - 1 /\ a = m * p + u /\ a \in Int /\ p \in Int
    BY <1>5, <1>7, <1>8, <2>1
  <2>3. a \div m = p
    BY ONLY <2>1, <2>2, DivIs
  <2> QED
    BY <2>1, <2>3
<1> QED
  BY <1>1, <1>3, <1>9

\* A number is below a multiple of s when its quotient is below the factor.
LEMMA DivBelow ==
    ASSUME NEW a \in Nat, NEW s \in Nat \ {0}, NEW h \in Int
    PROVE  a < s * h <=> a \div s < h
<1>1. PICK q \in Nat : q = a \div s
  BY DivNat
<1>2. PICK r \in 0 .. s - 1 : a = s * q + r
  BY <1>1, DivNat
<1>3. PICK d \in Int : d = h - q
  OBVIOUS
<1>4. s * h = s * q + s * d
  BY <1>3
<1>5. d >= 1 => s * d >= s
  OBVIOUS
<1>6. d <= 0 => s * d <= 0
  OBVIOUS
<1>7. PICK x, y, z : x = s * q /\ y = s * d /\ z = s * h
  OBVIOUS
<1>8. x \in Int /\ y \in Int /\ z \in Int
  BY <1>7
<1>9. z = x + y /\ a = x + r /\ (d >= 1 => y >= s) /\ (d <= 0 => y <= 0)
  BY <1>2, <1>4, <1>5, <1>6, <1>7
<1>10. a < z <=> d >= 1
  BY <1>8, <1>9
<1> QED
  BY <1>1, <1>3, <1>7, <1>10

-----------------------------------------------------------------------------
(* Induction from a level down, and functions defined by it.               *)

\* What holds of the top and, with a level, of the one below holds of all levels.
LEMMA Downwards ==
    ASSUME NEW n \in Nat, NEW G, n \in G, \A l \in 0 .. n - 1 : l + 1 \in G => l \in G
    PROVE  \A l \in 0 .. n : l \in G
<1> DEFINE H == {k \in Nat : k <= n => n - k \in G}
<1>1. 0 \in H
  OBVIOUS
<1>2. ASSUME NEW k \in H PROVE k + 1 \in H
  <2>1. CASE k + 1 <= n
    <3>1. n - (k + 1) \in 0 .. n - 1 /\ n - (k + 1) + 1 = n - k /\ n - k \in G
      BY <2>1
    <3> QED
      BY <2>1, <3>1
  <2> QED
    BY <2>1
<1> HIDE DEF H
<1>3. \A k \in Nat : k \in H
  BY <1>1, <1>2, SetOfNaturals DEF H
<1> SUFFICES ASSUME NEW l \in 0 .. n PROVE l \in G
  OBVIOUS
<1>4. n - l \in Nat /\ n - l <= n /\ n - (n - l) = l
  OBVIOUS
<1> QED
  BY <1>3, <1>4 DEF H

\* W starts with a at n and is continued downwards by step.
IsWalk(W, n, a, step) == W = [l \in 0 .. n |-> IF l = n THEN a ELSE step[l][W[l + 1]]]

\* There is such a function.
LEMMA WalkExists ==
    ASSUME NEW n \in Nat, NEW S, NEW a \in S, NEW step \in [0 .. n -> [S -> S]]
    PROVE  \E W \in [0 .. n -> S] : IsWalk(W, n, a, step)
<1> DEFINE Part(W, j) == \A l \in j .. n : W[l] = IF l = n THEN a ELSE step[l][W[l + 1]]
           G == {j \in 0 .. n : \E W \in [j .. n -> S] : Part(W, j)}
<1>1. n \in G
  <2> DEFINE W == [l \in n .. n |-> a]
  <2>1. W \in [n .. n -> S] /\ Part(W, n)
    OBVIOUS
  <2>2. n \in 0 .. n
    OBVIOUS
  <2> HIDE DEF W, Part
  <2> QED
    BY <2>1, <2>2, Zenon
<1>2. ASSUME NEW j \in 0 .. n - 1, j + 1 \in G PROVE j \in G
  <2>1. PICK W \in [j + 1 .. n -> S] : Part(W, j + 1)
    BY <1>2
  <2> DEFINE V == [l \in j .. n |-> IF l = j THEN step[j][W[j + 1]] ELSE W[l]]
  <2>2. step[j][W[j + 1]] \in S
    BY <2>1
  <2>3. V \in [j .. n -> S]
    BY <2>1, <2>2
  <2>4. \A l \in j + 1 .. n : V[l] = W[l]
    OBVIOUS
  <2>5. V[j] = step[j][V[j + 1]]
    BY <2>4
  <2>6. Part(V, j)
    BY <2>1, <2>4, <2>5
  <2>7. j \in 0 .. n
    OBVIOUS
  <2> HIDE DEF V, Part
  <2> QED
    BY <2>3, <2>6, <2>7, Zenon
<1> HIDE DEF G
<1>3. 0 \in G
  BY <1>1, <1>2, Downwards
<1>4. PICK W \in [0 .. n -> S] : Part(W, 0)
  BY <1>3 DEF G
<1>5. IsWalk(W, n, a, step)
  BY <1>4 DEF IsWalk
<1> QED
  BY <1>5

-----------------------------------------------------------------------------
(* Addresses.                                                              *)

\* The recursion of Span has a solution, so Span follows it.
LEMMA SpanIs ==
    /\ Span \in [0 .. TOP + 1 -> Nat \ {0}]
    /\ Span[0] = 1 /\ \A l \in 0 .. TOP : Span[l + 1] = FANOUT * Span[l]
<1> DEFINE Part(h, n) == \A l \in 0 .. n : h[l] = IF l = 0 THEN 1 ELSE FANOUT * h[l - 1]
           G == {n \in Nat : \E h \in [0 .. n -> Nat \ {0}] : Part(h, n)}
<1>0. FANOUT \in Nat \ {0} /\ TOP \in Nat
  BY VmAssumption
<1>1. 0 \in G
  <2> DEFINE h == [l \in 0 .. 0 |-> 1]
  <2>1. h \in [0 .. 0 -> Nat \ {0}] /\ Part(h, 0)
    OBVIOUS
  <2> HIDE DEF h, Part
  <2> QED
    BY <2>1, Zenon
<1>2. ASSUME NEW n \in G PROVE n + 1 \in G
  <2>1. PICK h \in [0 .. n -> Nat \ {0}] : Part(h, n)
    OBVIOUS
  <2> DEFINE g == [l \in 0 .. n + 1 |-> IF l = n + 1 THEN FANOUT * h[n] ELSE h[l]]
  <2>2. PICK x \in Nat \ {0} : x = h[n]
    BY <2>1
  <2>3. FANOUT * x \in Nat \ {0}
    BY <1>0
  <2>4. g \in [0 .. n + 1 -> Nat \ {0}]
    BY <2>1, <2>2, <2>3
  <2>5. \A l \in 0 .. n : g[l] = h[l]
    OBVIOUS
  <2>6. g[n + 1] = FANOUT * g[n]
    BY <2>5
  <2>7. Part(g, n + 1)
    <3> SUFFICES ASSUME NEW l \in 0 .. n + 1
                 PROVE  g[l] = IF l = 0 THEN 1 ELSE FANOUT * g[l - 1]
      OBVIOUS
    <3> HIDE DEF g
    <3>1. CASE l = n + 1
      BY <2>6, <3>1
    <3>2. CASE l \in 0 .. n
      <4>1. g[l] = h[l]
        BY <2>5, <3>2
      <4>2. l # 0 => g[l - 1] = h[l - 1]
        BY <2>5, <3>2
      <4>3. h[l] = IF l = 0 THEN 1 ELSE FANOUT * h[l - 1]
        BY <2>1, <3>2
      <4> QED
        BY <4>1, <4>2, <4>3
    <3> QED
      BY <3>1, <3>2
  <2>8. n + 1 \in Nat
    OBVIOUS
  <2> HIDE DEF g, Part
  <2> QED
    BY <2>4, <2>7, <2>8, Zenon
<1> HIDE DEF G
<1>3. TOP + 1 \in G
  BY <1>0, <1>1, <1>2, SetOfNaturals DEF G
<1>4. PICK h \in [0 .. TOP + 1 -> Nat \ {0}] : Part(h, TOP + 1)
  BY <1>3 DEF G
<1>5. h = [l \in 0 .. TOP + 1 |-> IF l = 0 THEN 1 ELSE FANOUT * h[l - 1]]
  BY <1>4
<1>6. Span = [l \in 0 .. TOP + 1 |-> IF l = 0 THEN 1 ELSE FANOUT * Span[l - 1]]
  BY <1>5 DEF Span
<1>7. Span = h
  <2> DEFINE E == {l \in Nat : l <= TOP + 1 => Span[l] = h[l]}
  <2>1. 0 \in E
    BY <1>0, <1>4, <1>6
  <2>2. ASSUME NEW l \in E PROVE l + 1 \in E
    <3>1. CASE l + 1 <= TOP + 1
      <4>1. l + 1 \in 0 .. TOP + 1 /\ l + 1 # 0 /\ (l + 1) - 1 = l /\ Span[l] = h[l]
        BY <1>0, <3>1
      <4>2. Span[l + 1] = FANOUT * Span[(l + 1) - 1]
        BY <1>6, <4>1
      <4>3. h[l + 1] = FANOUT * h[(l + 1) - 1]
        BY <1>5, <4>1
      <4> QED
        BY <4>1, <4>2, <4>3
    <3> QED
      BY <3>1
  <2> HIDE DEF E
  <2>3. \A l \in Nat : l \in E
    BY <2>1, <2>2, SetOfNaturals DEF E
  <2>4. \A l \in 0 .. TOP + 1 : Span[l] = h[l]
    BY <1>0, <2>3 DEF E
  <2>5. Span = [l \in 0 .. TOP + 1 |-> Span[l]]
    BY <1>6
  <2> QED
    BY <1>4, <2>4, <2>5
<1>8. ASSUME NEW l \in 0 .. TOP PROVE h[l + 1] = FANOUT * h[l]
  <2>1. l + 1 \in 0 .. TOP + 1 /\ l + 1 # 0 /\ (l + 1) - 1 = l
    BY <1>0
  <2> QED
    BY <1>4, <2>1
<1> QED
  BY <1>0, <1>4, <1>7, <1>8

\* A region of one level in terms of regions of the level below.
LEMMA RegionOf ==
    ASSUME NEW a \in Nat, NEW l \in 0 .. TOP
    PROVE  /\ a \div Span[l] \in Nat /\ pageindex(a, l) \in 0 .. FANOUT - 1
           /\ a \div Span[l + 1] = (a \div Span[l]) \div FANOUT
           /\ a \div Span[l] = FANOUT * (a \div Span[l + 1]) + pageindex(a, l)
<1>0. FANOUT \in Nat \ {0} /\ TOP \in Nat
  BY VmAssumption
<1>1. PICK s \in Nat \ {0} : s = Span[l]
  BY <1>0, SpanIs
<1>2. Span[l + 1] = FANOUT * s
  BY <1>1, SpanIs
<1>3. PICK q \in Nat : q = a \div s
  BY DivNat
<1>4. q \div FANOUT = a \div (FANOUT * s)
  BY <1>0, <1>3, DivDiv
<1>5. q \div FANOUT \in Nat /\ q % FANOUT \in 0 .. FANOUT - 1
      /\ q = FANOUT * (q \div FANOUT) + (q % FANOUT)
  BY <1>0, DivNat
<1> QED
  BY <1>1, <1>2, <1>3, <1>4, <1>5 DEF pageindex

\* Addresses in one region of level l are in one region of each higher level.
LEMMA RegionUp ==
    ASSUME NEW a \in Nat, NEW b \in Nat, NEW l \in 0 .. TOP + 1, SameRegion(a, b, l),
           NEW k \in l .. TOP + 1
    PROVE  SameRegion(a, b, k)
<1> DEFINE G == {j \in Nat : j >= l /\ j <= TOP + 1 => a \div Span[j] = b \div Span[j]}
<1>0. TOP \in Nat
  BY VmAssumption
<1>1. 0 \in G
  BY DEF SameRegion
<1>2. ASSUME NEW j \in G PROVE j + 1 \in G
  <2>1. CASE j + 1 = l
    BY <2>1 DEF SameRegion
  <2>2. CASE j >= l /\ j + 1 <= TOP + 1
    <3>1. j \in 0 .. TOP /\ a \div Span[j] = b \div Span[j]
      BY <1>0, <2>2
    <3> QED
      BY <3>1, RegionOf
  <2> QED
    BY <2>1, <2>2
<1> HIDE DEF G
<1>3. \A j \in Nat : j \in G
  BY <1>1, <1>2, SetOfNaturals DEF G
<1> QED
  BY <1>0, <1>3 DEF G, SameRegion

\* Then their entries are at the same index, from that level up.
LEMMA RegionIndex ==
    ASSUME NEW a \in Nat, NEW b \in Nat, NEW l \in 0 .. TOP, SameRegion(a, b, l),
           NEW k \in l .. TOP
    PROVE  pageindex(a, k) = pageindex(b, k)
<1>1. TOP \in Nat
  BY VmAssumption
<1>2. SameRegion(a, b, k)
  BY <1>1, RegionUp
<1> QED
  BY <1>2 DEF SameRegion, pageindex

\* The canonical addresses are a half of a root's reach at either end.
LEMMA Geometry ==
    \E h, q \in Nat \ {0} :
      /\ FANOUT = 2 * h /\ LowEnd = Span[TOP] * h /\ NoncanonEnd = 2 * LowEnd
      /\ NVA = NoncanonEnd * q /\ q > 1
<1>0. FANOUT \in Nat \ {0} /\ TOP \in Nat /\ NVA \in Nat
  BY VmAssumption
<1>1. PICK s \in Nat \ {0} : s = Span[TOP]
  BY <1>0, SpanIs
<1>2. PICK n \in Nat \ {0} : n = Span[TOP + 1] /\ n = FANOUT * s
  BY <1>0, <1>1, SpanIs
<1>3. PICK h \in Nat : h = FANOUT \div 2
  BY <1>0
<1>4. FANOUT = 2 * h /\ h # 0
  BY <1>0, <1>3, VmAssumption
<1>5. PICK x \in Nat \ {0} : x = s * h
  BY <1>4
<1>6. n = 2 * x
  BY <1>2, <1>4, <1>5
<1>7. n \div 2 = x
  BY <1>6
<1>8. PICK q \in Nat : q = NVA \div n
  BY <1>0, DivNat
<1>9. NVA = n * q /\ NVA > n
  <2>1. NVA % n = 0 /\ NVA > n
    BY <1>2, VmAssumption
  <2>2. NVA = n * q + (NVA % n)
    BY <1>0, <1>8, DivNat
  <2>3. n * q \in Int
    OBVIOUS
  <2> QED
    BY <2>1, <2>2, <2>3
<1>10. q > 1
  <2>1. q = 0 => n * q = 0
    OBVIOUS
  <2>2. q = 1 => n * q = n
    OBVIOUS
  <2> QED
    BY <1>9, <2>1, <2>2
<1>11. LowEnd = x /\ NoncanonEnd = n
  BY <1>2, <1>7 DEF LowEnd, NoncanonEnd
<1>12. h \in Nat \ {0} /\ q \in Nat \ {0}
  BY <1>4, <1>10
<1>13. FANOUT = 2 * h /\ LowEnd = Span[TOP] * h /\ NoncanonEnd = 2 * LowEnd
       /\ NVA = NoncanonEnd * q /\ q > 1
  BY <1>1, <1>4, <1>5, <1>6, <1>9, <1>10, <1>11
<1> QED
  BY <1>12, <1>13, Zenon

\* The addresses of an entry of the root are all canonical or none is.
LEMMA CanonRegion ==
    ASSUME NEW a \in Nat, NEW b \in Nat, NEW l \in 0 .. TOP, SameRegion(a, b, l)
    PROVE  va_is_canonical(a) <=> va_is_canonical(b)
<1>0. TOP \in Nat
  BY VmAssumption
<1>1. PICK h, q \in Nat \ {0} :
        /\ FANOUT = 2 * h /\ LowEnd = Span[TOP] * h /\ NoncanonEnd = 2 * LowEnd
        /\ NVA = NoncanonEnd * q /\ q > 1
  BY Geometry
<1>2. PICK s \in Nat \ {0} : s = Span[TOP]
  BY <1>0, SpanIs
<1>3. PICK g \in Int : g = (2 * h) * q - h
  <2>1. PICK x \in Int : x = (2 * h) * q
    <3>1. (2 * h) * q \in Int
      OBVIOUS
    <3> QED
      BY <3>1, Zenon
  <2>2. x - h \in Int
    OBVIOUS
  <2> QED
    BY <2>1, <2>2
<1>4. NVA - LowEnd = s * g
  <2>1. LowEnd = s * h
    BY <1>1, <1>2
  <2>2. NVA = (2 * (s * h)) * q
    BY <1>1, <2>1
  <2>3. (2 * (s * h)) * q - s * h = s * ((2 * h) * q - h)
    OBVIOUS
  <2> QED
    BY <1>3, <2>1, <2>2, <2>3
<1>5. a \div s = b \div s
  <2>1. SameRegion(a, b, TOP)
    BY <1>0, RegionUp
  <2> QED
    BY <1>2, <2>1 DEF SameRegion
<1>6. \A c \in Nat : (c < s * h <=> c \div s < h) /\ (c < s * g <=> c \div s < g)
  BY DivBelow
<1>7. (a < LowEnd <=> b < LowEnd) /\ (a < s * g <=> b < s * g)
  BY <1>1, <1>2, <1>5, <1>6
<1>8. s * g \in Int
  OBVIOUS
<1>9. (a >= s * g <=> b >= s * g)
  BY <1>7, <1>8
<1> QED
  BY <1>4, <1>7, <1>9 DEF va_is_canonical

\* The reach of the root holds whole regions of every level.
LEMMA SpanDivides ==
    \A l \in 0 .. TOP + 1 : \E e \in Nat \ {0} : NoncanonEnd = Span[l] * e
<1> DEFINE G == {l \in 0 .. TOP + 1 : \E e \in Nat \ {0} : NoncanonEnd = Span[l] * e}
<1>0. FANOUT \in Nat \ {0} /\ TOP \in Nat
  BY VmAssumption
<1>1. TOP + 1 \in G
  <2>1. Span[TOP + 1] \in Nat
    BY <1>0, SpanIs
  <2>2. NoncanonEnd = Span[TOP + 1] * 1
    BY <2>1 DEF NoncanonEnd
  <2>3. TOP + 1 \in 0 .. TOP + 1 /\ 1 \in Nat \ {0}
    BY <1>0
  <2> QED
    BY <2>2, <2>3, Zenon
<1>2. ASSUME NEW l \in 0 .. (TOP + 1) - 1, l + 1 \in G PROVE l \in G
  <2>1. PICK e \in Nat \ {0} : NoncanonEnd = Span[l + 1] * e
    BY <1>2
  <2>2. l \in 0 .. TOP /\ l \in 0 .. TOP + 1
    BY <1>0
  <2>3. PICK s \in Nat \ {0} : s = Span[l]
    BY <2>2, SpanIs
  <2>4. Span[l + 1] = FANOUT * s
    BY <2>2, <2>3, SpanIs
  <2>5. (FANOUT * s) * e = s * (FANOUT * e)
    BY <1>0
  <2>6. FANOUT * e \in Nat \ {0}
    BY <1>0
  <2>7. NoncanonEnd = Span[l] * (FANOUT * e)
    BY <2>1, <2>3, <2>4, <2>5
  <2> QED
    BY <2>2, <2>6, <2>7, Zenon
<1> HIDE DEF G
<1>3. TOP + 1 \in Nat
  BY <1>0
<1>4. \A l \in 0 .. TOP + 1 : l \in G
  BY <1>1, <1>2, <1>3, Downwards
<1> QED
  BY <1>4 DEF G

\* Whole multiples go through a division.
LEMMA DivShift ==
    ASSUME NEW s \in Nat \ {0}, NEW k \in Nat, NEW r \in Nat
    PROVE  (s * k + r) \div s = k + (r \div s)
<1>1. PICK q \in Nat : q = r \div s
  BY DivNat
<1>2. PICK t \in 0 .. s - 1 : r = s * q + t
  BY <1>1, DivNat
<1>3. s * k + r = s * (k + q) + t
  <2>1. s * (k + q) = s * k + s * q
    OBVIOUS
  <2>2. PICK x, y, z : x = s * k /\ y = s * q /\ z = s * (k + q)
    OBVIOUS
  <2>3. x \in Int /\ y \in Int /\ z \in Int
    BY <2>2
  <2>4. z = x + y /\ r = y + t
    BY <1>2, <2>1, <2>2
  <2>5. x + r = z + t
    BY <2>3, <2>4
  <2> QED
    BY <2>2, <2>5
<1>4. s * k + r \in Int /\ k + q \in Int
  OBVIOUS
<1>5. PICK a \in Int : a = s * k + r
  BY <1>4
<1>6. PICK p \in Int : p = k + q
  BY <1>4
<1>7. a = s * p + t
  BY <1>3, <1>5, <1>6
<1>8. a \div s = p
  BY <1>7, DivIs
<1> QED
  BY <1>1, <1>5, <1>6, <1>8

\* The region of level l of va, counted within the reach of the root.
Cell(va, l) == (va % NoncanonEnd) \div Span[l]

\* A page of level l covers one cell of level l + 1, and pageindex tells the cells in it apart.
LEMMA CellOf ==
    ASSUME NEW va \in Nat
    PROVE  /\ Cell(va, TOP + 1) = 0
           /\ \A l \in 0 .. TOP : /\ Cell(va, l) \in Nat /\ Cell(va, l + 1) \in Nat
                                  /\ Cell(va, l) = FANOUT * Cell(va, l + 1) + pageindex(va, l)
<1>0. FANOUT \in Nat \ {0} /\ TOP \in Nat
  BY VmAssumption
<1>1. PICK n \in Nat \ {0} : n = NoncanonEnd
  BY <1>0, SpanIs DEF NoncanonEnd
<1>2. PICK r \in 0 .. n - 1 : r = va % n
  BY <1>1, ModRange
<1>3. PICK q \in Nat : va = n * q + r
  BY <1>1, <1>2, DivNat
<1>4. Cell(va, TOP + 1) = 0
  <2>1. PICK z \in Int : z = 0
    OBVIOUS
  <2>2. r = n * z + r /\ r \in Int
    BY <2>1
  <2>3. r \div n = z
    BY <2>2, DivIs
  <2> QED
    BY <1>1, <1>2, <2>1, <2>3 DEF Cell, NoncanonEnd
<1>5. ASSUME NEW l \in 0 .. TOP
      PROVE  /\ Cell(va, l) \in Nat /\ Cell(va, l + 1) \in Nat
             /\ Cell(va, l) = FANOUT * Cell(va, l + 1) + pageindex(va, l)
  <2>0. l + 1 \in 0 .. TOP + 1 /\ l \in 0 .. TOP + 1 /\ r \in Nat
    BY <1>0
  <2>1. PICK e \in Nat \ {0} : n = Span[l + 1] * e
    BY <1>1, <2>0, SpanDivides
  <2>2. PICK s \in Nat \ {0} : s = Span[l]
    BY <2>0, SpanIs
  <2>3. n = (FANOUT * s) * e
    BY <2>1, <2>2, SpanIs
  <2>4. PICK k \in Nat : k = FANOUT * (e * q)
    BY <1>0
  <2>5. n * q = s * k
    <3>1. ((FANOUT * s) * e) * q = s * (FANOUT * (e * q))
      BY <1>0
    <3> QED
      BY <2>3, <2>4, <3>1
  <2>6. PICK x \in Nat : x = r \div s
    BY <2>0, DivNat
  <2>7. va \div s = k + x
    BY <1>3, <2>0, <2>5, <2>6, DivShift
  <2>8. (k + x) % FANOUT = x % FANOUT
    <3>1. PICK y \in Int : y = k + x
      OBVIOUS
    <3>2. PICK z \in Int : z = e * q
      OBVIOUS
    <3>3. y - x = FANOUT * z
      BY <2>4, <3>1, <3>2
    <3>4. x \in Int
      OBVIOUS
    <3>5. PICK f \in Nat \ {0} : f = FANOUT
      BY <1>0
    <3>6. y - x = f * z
      BY <3>3, <3>5
    <3>7. y % f = x % f
      BY ONLY <3>4, <3>6, ModShift, y \in Int, z \in Int, f \in Nat \ {0}, ZenonT(60)
    <3>8. y % FANOUT = x % FANOUT
      BY <3>5, <3>7
    <3> QED
      BY <3>1, <3>8
  <2>9. pageindex(va, l) = pageindex(r, l)
    BY <2>2, <2>6, <2>7, <2>8 DEF pageindex
  <2>10. /\ r \div Span[l] \in Nat /\ r \div Span[l + 1] \in Nat
         /\ r \div Span[l] = FANOUT * (r \div Span[l + 1]) + pageindex(r, l)
    <3>1. r \div Span[l + 1] \in Nat
      BY <1>0, <2>0, SpanIs, DivNat
    <3> QED
      BY <2>0, <3>1, RegionOf
  <2> QED
    BY <1>1, <1>2, <2>9, <2>10 DEF Cell
<1> QED
  BY <1>4, <1>5

\* A canonical address is known by its cell of level 0.
LEMMA CellUnique ==
    ASSUME NEW a \in VAs, NEW b \in VAs, va_is_canonical(a), va_is_canonical(b),
           Cell(a, 0) = Cell(b, 0)
    PROVE  a = b
<1>0. TOP \in Nat
  BY VmAssumption
<1>1. PICK h, q \in Nat \ {0} :
        /\ FANOUT = 2 * h /\ LowEnd = Span[TOP] * h /\ NoncanonEnd = 2 * LowEnd
        /\ NVA = NoncanonEnd * q /\ q > 1
  BY Geometry
<1>2. PICK n \in Nat \ {0} : n = NoncanonEnd
  BY <1>0, SpanIs DEF NoncanonEnd
<1>3. PICK low \in Int : low = LowEnd /\ n = 2 * low
  <2>1. LowEnd \in Int
    BY <1>0, SpanIs, <1>1
  <2> QED
    BY <1>1, <1>2, <2>1
<1>4. PICK p \in Int : p = n * (q - 1)
  OBVIOUS
<1>5. NVA = p + n
  <2>1. n * (q - 1) = n * q - n
    OBVIOUS
  <2>2. n * q \in Int
    OBVIOUS
  <2> QED
    BY <1>1, <1>2, <1>4, <2>1, <2>2
<1>6. ASSUME NEW c \in VAs, va_is_canonical(c)
      PROVE  c % n = IF c < low THEN c ELSE c - p
  <2>1. c \in Nat /\ c < NVA /\ (c < low \/ c >= NVA - low)
    BY <1>3, <1>6, VmAssumption DEF VAs, va_is_canonical
  <2>2. CASE c < low
    <3>1. c \in 0 .. n - 1
      BY <1>3, <2>1, <2>2
    <3> QED
      BY <2>2, <3>1, ModSmall
  <2>3. CASE ~(c < low)
    <3>1. PICK d \in Int : d = c - p
      BY <2>1
    <3>2. d \in 0 .. n - 1
      BY <1>3, <1>5, <2>1, <2>3, <3>1
    <3>3. PICK z \in Int : z = q - 1
      OBVIOUS
    <3>4. c = n * z + d /\ c \in Int
      BY <1>4, <2>1, <3>1, <3>3
    <3>5. c % n = d
      BY <3>2, <3>4, DivIs
    <3> QED
      BY <2>3, <3>1, <3>5
  <2> QED
    BY <2>2, <2>3
<1>7. a % n = b % n
  <2>1. a \in Nat /\ b \in Nat
    BY VmAssumption DEF VAs
  <2>2. a % n \in 0 .. n - 1 /\ b % n \in 0 .. n - 1
    BY <2>1
  <2>3. PICK x, y : x = a % n /\ y = b % n
    OBVIOUS
  <2>4. x \div 1 = y \div 1 /\ x \in Nat /\ y \in Nat
    BY <1>2, <2>2, <2>3, SpanIs DEF Cell
  <2> QED
    BY <2>3, <2>4
<1>8. \A c \in VAs : c \in Nat /\ c < NVA /\ NVA \in Nat
  BY VmAssumption DEF VAs
<1> QED
  BY <1>3, <1>4, <1>5, <1>6, <1>7, <1>8 DEF va_is_canonical

-----------------------------------------------------------------------------
(* Walks through the page table.                                           *)

Memory == [Pages -> [0 .. FANOUT - 1 -> Entries]]
Iters == [level : Levels, slot : Slots, perm : SUBSET Bits, va : VAs]

\* An iterator one level further down.
Stepped(m, x) ==
    [level |-> x.level - 1, perm |-> x.perm \cap Entry(m, x.slot).perm, va |-> x.va,
     slot |-> <<Entry(m, x.slot).pa, pageindex(x.va, x.level - 1)>>]

\* What holds of an iterator and is kept by every step down holds where down ends, which is at
\* level 0 or at an entry that leads to no page table page.
LEMMA DownIs ==
    ASSUME NEW m, NEW i, i.level \in Nat, NEW G, i \in G,
           \A x \in G : /\ x.level \in Nat
                        /\ x.level > 0 /\ IsLink(Entry(m, x.slot)) => Stepped(m, x) \in G
    PROVE  /\ down(m, i) \in G
           /\ down(m, i).level = 0 \/ ~IsLink(Entry(m, down(m, i).slot))
<1> DEFINE n == i.level
           Body(W) == [l \in 0 .. i.level |->
                        IF l = i.level THEN i
                        ELSE LET up == W[l + 1]
                                 e == Entry(m, up.slot)
                             IN IF up.level = l + 1 /\ IsLink(e)
                                  THEN [level |-> l, perm |-> up.perm \cap e.perm, va |-> up.va,
                                        slot |-> <<e.pa, pageindex(up.va, l)>>]
                                  ELSE up]
           Goes(x, l) == x.level = l + 1 /\ IsLink(Entry(m, x.slot))
           step == [l \in 0 .. n |-> [x \in G |-> IF Goes(x, l) THEN Stepped(m, x) ELSE x]]
           D == CHOOSE W : W = Body(W)
<1>1. step \in [0 .. n -> [G -> G]]
  <2> SUFFICES ASSUME NEW l \in 0 .. n, NEW x \in G
               PROVE  (IF Goes(x, l) THEN Stepped(m, x) ELSE x) \in G
    OBVIOUS
  <2>1. Goes(x, l) => x.level > 0
    OBVIOUS
  <2> QED
    BY <2>1
<1>2. ASSUME NEW W, NEW l \in 0 .. n, l # n
      PROVE  Body(W)[l] = IF Goes(W[l + 1], l) THEN Stepped(m, W[l + 1]) ELSE W[l + 1]
  <2>1. CASE Goes(W[l + 1], l)
    <3>1. W[l + 1].level - 1 = l
      BY <2>1
    <3> QED
      BY <1>2, <2>1, <3>1 DEF Stepped
  <2>2. CASE ~Goes(W[l + 1], l)
    BY <1>2, <2>2
  <2> QED
    BY <2>1, <2>2
<1>3. \A W : Body(W)[n] = i /\ Body(W) = [l \in 0 .. n |-> Body(W)[l]]
  OBVIOUS
<1>4. down(m, i) = D[0]
  BY DEF down
<1>s. \A l \in 0 .. n, x \in G : step[l][x] = IF Goes(x, l) THEN Stepped(m, x) ELSE x
  OBVIOUS
<1> HIDE DEF Body, Goes, step
<1>5. PICK V \in [0 .. n -> G] : IsWalk(V, n, i, step)
  BY <1>1, WalkExists
<1>6. V = Body(V)
  <2>1. \A l \in 0 .. n : V[l] = Body(V)[l]
    <3> SUFFICES ASSUME NEW l \in 0 .. n PROVE V[l] = Body(V)[l]
      OBVIOUS
    <3>1. CASE l = n
      BY <1>3, <1>5, <3>1 DEF IsWalk
    <3>2. CASE l # n
      <4>1. V[l] = step[l][V[l + 1]] /\ V[l + 1] \in G
        BY <1>5, <3>2 DEF IsWalk
      <4> QED
        BY <1>2, <1>s, <3>2, <4>1
    <3> QED
      BY <3>1, <3>2
  <2>2. V = [l \in 0 .. n |-> V[l]]
    BY <1>5
  <2> QED
    BY <1>3, <2>1, <2>2
<1>7. D = Body(D)
  BY <1>6
<1> HIDE DEF D
<1>8. D[n] = i /\ \A l \in 0 .. n : l # n =>
        D[l] = IF Goes(D[l + 1], l) THEN Stepped(m, D[l + 1]) ELSE D[l + 1]
  BY <1>2, <1>3, <1>7
<1> DEFINE C == {l \in 0 .. n : /\ D[l] \in G
                                /\ D[l].level <= l \/ ~IsLink(Entry(m, D[l].slot))}
<1>9. n \in C
  BY <1>8
<1>10. ASSUME NEW l \in 0 .. n - 1, l + 1 \in C PROVE l \in C
  <2>1. PICK x \in G : x = D[l + 1]
    BY <1>10
  <2>2. x.level <= l + 1 \/ ~IsLink(Entry(m, x.slot))
    BY <1>10, <2>1
  <2>3. D[l] = IF Goes(x, l) THEN Stepped(m, x) ELSE x
    BY <1>8, <2>1
  <2>4. CASE Goes(x, l)
    <3>1. Stepped(m, x) \in G
      BY <2>4 DEF Goes
    <3>2. Stepped(m, x).level = l
      BY <2>4 DEF Goes, Stepped
    <3> QED
      BY <2>3, <2>4, <3>1, <3>2
  <2>5. CASE ~Goes(x, l)
    <3>1. x.level <= l \/ ~IsLink(Entry(m, x.slot))
      BY <2>2, <2>5 DEF Goes
    <3> QED
      BY <2>3, <2>5, <3>1
  <2> QED
    BY <2>4, <2>5
<1> HIDE DEF C
<1>11. 0 \in C
  BY <1>9, <1>10, Downwards
<1>12. D[0] \in G /\ (D[0].level <= 0 \/ ~IsLink(Entry(m, D[0].slot)))
  BY <1>11 DEF C
<1> QED
  BY <1>4, <1>12

\* What the proofs use of the constants.
LEMMA Constants ==
    /\ FANOUT \in Nat \ {0} /\ TOP \in Nat /\ TOP >= 2 /\ NPAGES \in Nat
    /\ Root \in Pages /\ Second \in Pages /\ Third \in Pages /\ 0 \in Pages
    /\ VAs \subseteq Nat /\ 0 \in 0 .. FANOUT - 1
BY VmAssumption DEF Pages, VAs, Root, Second, Third

\* The entry that f's page of level k has for va.
EntryOn(m, va, f, k) == m[f[k]][pageindex(va, k)]

\* f holds the pages that lead from the root to va, down to level l.
Walk(m, va, l, f) ==
    /\ f \in [l .. TOP -> Pages] /\ f[TOP] = Root
    /\ \A k \in l + 1 .. TOP : IsLink(EntryOn(m, va, f, k)) /\ EntryOn(m, va, f, k).pa = f[k - 1]

\* The permissions that the entries above level l grant.
Granted(m, va, l, f) == {b \in Bits : \A k \in l + 1 .. TOP : b \in EntryOn(m, va, f, k).perm}

\* The vmiter i stands at an entry on the way to its address, with the permissions granted on
\* that way, or at zero_pe if the address is not canonical.
On(m, i) ==
    IF va_is_canonical(i.va)
      THEN \E f : /\ Walk(m, i.va, i.level, f) /\ i.perm = Granted(m, i.va, i.level, f)
                  /\ i.slot = <<f[i.level], pageindex(i.va, i.level)>>
      ELSE i.level = TOP /\ i.perm = {} /\ i.slot = ZeroSlot

\* It stands where the way ends.
Leaf(m, i) == i.level = 0 \/ ~IsLink(Entry(m, i.slot))

\* The entry of a real page.
LEMMA RealSlot ==
    ASSUME NEW m, NEW x \in Pages, NEW n
    PROVE  <<x, n>> # ZeroSlot /\ Entry(m, <<x, n>>) = m[x][n]
<1>1. x # NPAGES
  BY Constants DEF Pages
<1>2. <<x, n>> # ZeroSlot
  BY <1>1 DEF ZeroSlot
<1> QED
  BY <1>2 DEF Entry

\* A page on a walk has an entry for the address, a real one.
LEMMA WalkEntry ==
    ASSUME NEW m \in Memory, NEW va \in VAs, NEW l \in Levels, NEW f, Walk(m, va, l, f),
           NEW k \in l .. TOP
    PROVE  /\ f[k] \in Pages /\ k \in Levels /\ pageindex(va, k) \in 0 .. FANOUT - 1
           /\ EntryOn(m, va, f, k) \in Entries
           /\ Entry(m, <<f[k], pageindex(va, k)>>) = EntryOn(m, va, f, k)
           /\ <<f[k], pageindex(va, k)>> # ZeroSlot
<1>1. f[k] \in Pages /\ k \in 0 .. TOP
  BY Constants DEF Walk, Levels
<1>2. pageindex(va, k) \in 0 .. FANOUT - 1
  BY <1>1, Constants, RegionOf
<1>3. m[f[k]][pageindex(va, k)] \in Entries
  BY <1>1, <1>2 DEF Memory
<1> QED
  BY <1>1, <1>2, <1>3, RealSlot DEF EntryOn, Levels

\* A walk goes on over an entry that leads to a page table page.
LEMMA WalkOn ==
    ASSUME NEW m \in Memory, NEW va \in VAs, NEW l \in Levels, l > 0, NEW f, Walk(m, va, l, f),
           IsLink(EntryOn(m, va, f, l))
    PROVE  \E g : /\ Walk(m, va, l - 1, g) /\ g[l - 1] = EntryOn(m, va, f, l).pa
                  /\ \A k \in l .. TOP : g[k] = f[k]
                  /\ Granted(m, va, l - 1, g)
                       = Granted(m, va, l, f) \cap EntryOn(m, va, f, l).perm
<1> DEFINE e == EntryOn(m, va, f, l)
           g == [k \in l - 1 .. TOP |-> IF k = l - 1 THEN e.pa ELSE f[k]]
<1>1. l \in Nat /\ l <= TOP /\ TOP \in Nat
  BY Constants DEF Levels
<1>2. l \in l .. TOP
  BY <1>1
<1>3. e \in Entries
  BY <1>2, WalkEntry
<1>4. e.pa \in Pages /\ e.perm \in SUBSET Bits
  BY <1>3 DEF Entries
<1>5. f \in [l .. TOP -> Pages] /\ f[TOP] = Root
  BY DEF Walk
<1> HIDE DEF e
<1>6. g \in [l - 1 .. TOP -> Pages]
  BY <1>1, <1>4, <1>5
<1>7. \A k \in l .. TOP : g[k] = f[k]
  BY <1>1
<1>8. g[l - 1] = e.pa
  BY <1>1
<1> HIDE DEF g
<1>9. \A k \in l .. TOP : EntryOn(m, va, g, k) = EntryOn(m, va, f, k)
  BY <1>7 DEF EntryOn
<1>10. Walk(m, va, l - 1, g)
  <2>1. g[TOP] = Root
    BY <1>1, <1>5, <1>7
  <2>2. ASSUME NEW k \in (l - 1) + 1 .. TOP
        PROVE  IsLink(EntryOn(m, va, g, k)) /\ EntryOn(m, va, g, k).pa = g[k - 1]
    <3>1. k \in l .. TOP
      BY <1>1
    <3>2. CASE k = l
      BY <1>8, <1>9, <3>1, <3>2 DEF e
    <3>3. CASE k # l
      <4>1. k \in l + 1 .. TOP /\ k - 1 \in l .. TOP
        BY <1>1, <3>1, <3>3
      <4>2. IsLink(EntryOn(m, va, f, k)) /\ EntryOn(m, va, f, k).pa = f[k - 1]
        BY <4>1 DEF Walk
      <4> QED
        BY <1>7, <1>9, <3>1, <4>1, <4>2
    <3> QED
      BY <3>2, <3>3
  <2> QED
    BY <1>6, <2>1, <2>2 DEF Walk
<1>11. Granted(m, va, l - 1, g) = Granted(m, va, l, f) \cap e.perm
  <2>1. ASSUME NEW b \in Bits
        PROVE  (\A k \in (l - 1) + 1 .. TOP : b \in EntryOn(m, va, g, k).perm)
                 <=> (\A k \in l + 1 .. TOP : b \in EntryOn(m, va, f, k).perm) /\ b \in e.perm
    <3>1. \A k \in (l - 1) + 1 .. TOP : k \in l .. TOP
      BY <1>1
    <3>2. \A k \in l .. TOP : k \in (l - 1) + 1 .. TOP /\ (k = l \/ k \in l + 1 .. TOP)
      BY <1>1
    <3>3. \A k \in l + 1 .. TOP : k \in l .. TOP
      BY <1>1
    <3> QED
      BY <1>2, <1>9, <3>1, <3>2, <3>3 DEF e
  <2> QED
    BY <2>1 DEF Granted
<1>12. Walk(m, va, l - 1, g) /\ g[l - 1] = e.pa /\ (\A k \in l .. TOP : g[k] = f[k])
       /\ Granted(m, va, l - 1, g) = Granted(m, va, l, f) \cap e.perm
  BY <1>7, <1>8, <1>10, <1>11
<1> QED
  BY <1>12, Zenon DEF e

\* A step down stays on the way.
LEMMA StepOn ==
    ASSUME NEW m \in Memory, NEW i \in Iters, On(m, i), i.level > 0, IsLink(Entry(m, i.slot))
    PROVE  Stepped(m, i) \in Iters /\ On(m, Stepped(m, i)) /\ Stepped(m, i).va = i.va
<1>0. i.level \in Levels /\ i.va \in VAs /\ i.perm \in SUBSET Bits
  BY DEF Iters
<1>1. va_is_canonical(i.va)
  <2>1. ~IsLink(NoEntry)
    BY DEF IsLink, NoEntry
  <2>2. i.slot # ZeroSlot
    BY <2>1 DEF Entry
  <2> QED
    BY <2>2 DEF On
<1>2. PICK f : /\ Walk(m, i.va, i.level, f) /\ i.perm = Granted(m, i.va, i.level, f)
               /\ i.slot = <<f[i.level], pageindex(i.va, i.level)>>
  BY <1>1 DEF On
<1>3. PICK l \in Levels : l = i.level /\ l > 0 /\ l \in l .. TOP /\ l - 1 \in Levels
  BY <1>0, Constants DEF Levels
<1>4. PICK va \in VAs : va = i.va
  BY <1>0
<1>5. PICK e : e = EntryOn(m, va, f, l)
  OBVIOUS
<1>6. Entry(m, i.slot) = e /\ e \in Entries
  BY <1>2, <1>3, <1>4, <1>5, WalkEntry
<1>7. PICK g : /\ Walk(m, va, l - 1, g) /\ g[l - 1] = e.pa
               /\ Granted(m, va, l - 1, g) = Granted(m, va, l, f) \cap e.perm
  <2>1. IsLink(e) /\ Walk(m, va, l, f)
    BY <1>2, <1>3, <1>4, <1>6
  <2> QED
    BY <1>3, <1>5, <2>1, WalkOn
<1>8. Stepped(m, i) = [level |-> l - 1, perm |-> i.perm \cap e.perm, va |-> va,
                       slot |-> <<e.pa, pageindex(va, l - 1)>>]
  BY <1>3, <1>4, <1>6 DEF Stepped
<1>9. e.pa \in Pages /\ pageindex(va, l - 1) \in 0 .. FANOUT - 1
  <2>1. l - 1 \in 0 .. TOP /\ va \in Nat
    BY <1>3, <1>4, Constants DEF Levels
  <2> QED
    BY <1>6, <2>1, RegionOf DEF Entries
<1>10. Stepped(m, i) \in Iters
  <2>1. <<e.pa, pageindex(va, l - 1)>> \in Slots
    BY <1>9 DEF Slots
  <2>2. i.perm \cap e.perm \in SUBSET Bits
    BY <1>0
  <2> QED
    BY <1>3, <1>4, <1>8, <2>1, <2>2 DEF Iters
<1>11. On(m, Stepped(m, i))
  <2>1. i.perm \cap e.perm = Granted(m, va, l - 1, g)
    BY <1>2, <1>3, <1>4, <1>7
  <2>2. PICK j : j = Stepped(m, i)
    OBVIOUS
  <2>3. j.level = l - 1 /\ j.va = va /\ j.slot = <<g[l - 1], pageindex(va, l - 1)>>
        /\ j.perm = Granted(m, va, l - 1, g)
    BY <1>7, <1>8, <2>1, <2>2
  <2>4. va_is_canonical(j.va)
    BY <1>1, <1>4, <2>3
  <2>5. Walk(m, j.va, j.level, g) /\ j.perm = Granted(m, j.va, j.level, g)
        /\ j.slot = <<g[j.level], pageindex(j.va, j.level)>>
    BY <1>7, <2>3
  <2>6. On(m, j)
    BY <2>4, <2>5, Zenon DEF On
  <2> QED
    BY <2>2, <2>6
<1> QED
  BY <1>4, <1>8, <1>10, <1>11

\* down stays on the way and goes to its end.
LEMMA DownOn ==
    ASSUME NEW m \in Memory, NEW i \in Iters, On(m, i)
    PROVE  down(m, i) \in Iters /\ On(m, down(m, i)) /\ Leaf(m, down(m, i)) /\ down(m, i).va = i.va
<1> DEFINE G == {x \in Iters : On(m, x) /\ x.va = i.va}
<1>1. i \in G /\ i.level \in Nat
  BY Constants DEF Iters, Levels
<1>2. ASSUME NEW x \in G
      PROVE  /\ x.level \in Nat
             /\ x.level > 0 /\ IsLink(Entry(m, x.slot)) => Stepped(m, x) \in G
  <2>1. x.level \in Nat
    BY Constants DEF Iters, Levels
  <2> QED
    BY <2>1, StepOn
<1> HIDE DEF G
<1>3. down(m, i) \in G /\ (down(m, i).level = 0 \/ ~IsLink(Entry(m, down(m, i).slot)))
  BY <1>1, <1>2, DownIs
<1> QED
  BY <1>3 DEF G, Leaf

\* A walk is one for every address with the same indexes above level l.
LEMMA WalkSame ==
    ASSUME NEW m, NEW a, NEW b, NEW l, NEW f, Walk(m, a, l, f),
           \A k \in l + 1 .. TOP : pageindex(a, k) = pageindex(b, k)
    PROVE  Walk(m, b, l, f) /\ Granted(m, b, l, f) = Granted(m, a, l, f)
<1>1. \A k \in l + 1 .. TOP : EntryOn(m, b, f, k) = EntryOn(m, a, f, k)
  BY DEF EntryOn
<1> QED
  BY <1>1 DEF Walk, Granted

\* real_find, whether it keeps its place or starts over, goes to the end of the way to va.
LEMMA FindOn ==
    ASSUME NEW m \in Memory, NEW i \in Iters, On(m, i) \/ i.level = TOP, NEW va \in VAs
    PROVE  LET j == real_find(m, i, va)
           IN  j \in Iters /\ On(m, j) /\ Leaf(m, j) /\ j.va = va
<1> DEFINE kept == [i EXCEPT !.va = va, !.slot = <<i.slot[1], pageindex(va, i.level)>>]
           fresh == [level |-> TOP, perm |-> Bits, va |-> va, slot |-> <<Root, pageindex(va, TOP)>>]
           nowhere == [level |-> TOP, perm |-> {}, va |-> va, slot |-> ZeroSlot]
<1>0. va \in Nat /\ TOP \in Levels /\ TOP \in 0 .. TOP
  BY Constants DEF Levels
<1>1. ASSUME ~Restarts(i, va)
      PROVE  kept \in Iters /\ On(m, kept) /\ kept.va = va
  <2>1. PICK l \in Levels : l = i.level
    BY DEF Iters
  <2>2. l < TOP /\ l \in Nat /\ SameRegion(i.va, va, l + 1) /\ i.va \in VAs /\ i.va \in Nat
    <3>1. l # TOP /\ SameRegion(i.va, va, l + 1)
      BY <1>1, <2>1 DEF Restarts
    <3>2. l \in Nat /\ l <= TOP /\ TOP \in Nat
      BY Constants DEF Levels
    <3>3. i.va \in VAs
      BY DEF Iters
    <3>4. i.va \in Nat
      BY <3>3, Constants
    <3>5. l < TOP
      BY <3>1, <3>2
    <3> QED
      BY <3>1, <3>2, <3>3, <3>4, <3>5
  <2>3. va_is_canonical(i.va) /\ On(m, i)
    BY <2>1, <2>2 DEF On
  <2>4. PICK f : /\ Walk(m, i.va, l, f) /\ i.perm = Granted(m, i.va, l, f)
                 /\ i.slot = <<f[l], pageindex(i.va, l)>>
    BY <2>1, <2>3 DEF On
  <2>5. l + 1 \in 0 .. TOP
    BY <2>2, Constants
  <2>6. \A k \in l + 1 .. TOP : pageindex(i.va, k) = pageindex(va, k)
    BY <1>0, <2>2, <2>5, RegionIndex
  <2>7. Walk(m, va, l, f) /\ Granted(m, va, l, f) = i.perm
    BY <2>4, <2>6, WalkSame
  <2>8. va_is_canonical(va)
    BY <1>0, <2>2, <2>3, <2>5, CanonRegion
  <2>9. f[l] \in Pages /\ pageindex(va, l) \in 0 .. FANOUT - 1
    <3>1. l \in l .. TOP
      BY <2>2, Constants
    <3> QED
      BY <2>7, <3>1, WalkEntry
  <2>10. i.slot[1] = f[l]
    BY <2>4
  <2>11. kept.level = l /\ kept.va = va /\ kept.perm = i.perm
         /\ kept.slot = <<f[l], pageindex(va, l)>>
    BY <2>1, <2>10 DEF Iters
  <2>12. kept \in Iters
    <3>1. <<f[l], pageindex(va, l)>> \in Slots
      BY <2>9 DEF Slots
    <3> QED
      BY <2>1, <2>10, <3>1 DEF Iters
  <2> HIDE DEF kept
  <2>13. va_is_canonical(kept.va) /\ Walk(m, kept.va, kept.level, f)
         /\ kept.perm = Granted(m, kept.va, kept.level, f)
         /\ kept.slot = <<f[kept.level], pageindex(kept.va, kept.level)>>
    BY <2>7, <2>8, <2>11
  <2>14. On(m, kept)
    BY <2>13, Zenon DEF On
  <2> QED
    BY <2>11, <2>12, <2>14
<1>2. ASSUME va_is_canonical(va)
      PROVE  fresh \in Iters /\ On(m, fresh) /\ fresh.va = va
  <2>1. pageindex(va, TOP) \in 0 .. FANOUT - 1
    BY <1>0, RegionOf
  <2>2. fresh \in Iters
    <3>1. <<Root, pageindex(va, TOP)>> \in Slots
      BY <2>1, Constants DEF Slots
    <3> QED
      BY <1>0, <3>1 DEF Iters
  <2> DEFINE f == [k \in TOP .. TOP |-> Root]
  <2>3. TOP + 1 .. TOP = {} /\ TOP \in TOP .. TOP
    BY <1>0, Constants
  <2>4. Walk(m, va, TOP, f)
    BY <2>3, Constants DEF Walk
  <2>5. Granted(m, va, TOP, f) = Bits
    BY <2>3 DEF Granted
  <2>6. f[TOP] = Root
    BY <2>3
  <2>7. fresh.level = TOP /\ fresh.va = va /\ fresh.perm = Bits
        /\ fresh.slot = <<f[TOP], pageindex(va, TOP)>>
    BY <2>6
  <2> HIDE DEF f, fresh
  <2>8. va_is_canonical(fresh.va) /\ Walk(m, fresh.va, fresh.level, f)
        /\ fresh.perm = Granted(m, fresh.va, fresh.level, f)
        /\ fresh.slot = <<f[fresh.level], pageindex(fresh.va, fresh.level)>>
    BY <1>2, <2>4, <2>5, <2>7
  <2>9. On(m, fresh)
    BY <2>8, Zenon DEF On
  <2> QED
    BY <2>2, <2>7, <2>9
<1>3. ASSUME ~va_is_canonical(va)
      PROVE  nowhere \in Iters /\ On(m, nowhere) /\ nowhere.va = va
  <2>1. nowhere \in Iters
    BY <1>0 DEF Iters, Slots
  <2>2. On(m, nowhere)
    BY <1>3 DEF On
  <2> QED
    BY <2>1, <2>2
<1> DEFINE start == IF ~Restarts(i, va) THEN kept ELSE IF va_is_canonical(va) THEN fresh ELSE nowhere
<1> HIDE DEF kept, fresh, nowhere
<1>4. start \in Iters /\ On(m, start) /\ start.va = va
  BY <1>1, <1>2, <1>3
<1>5. real_find(m, i, va) = down(m, start)
  BY DEF real_find, kept, fresh, nowhere
<1> HIDE DEF start
<1> QED
  BY <1>4, <1>5, DownOn

\* A new vmiter is at the end of the way to its address.
LEMMA VmiterOn ==
    ASSUME NEW m \in Memory, NEW va \in VAs
    PROVE  LET j == vmiter(m, va)
           IN  j \in Iters /\ On(m, j) /\ Leaf(m, j) /\ j.va = va
<1> DEFINE i == [level |-> TOP, perm |-> Bits, va |-> 0, slot |-> <<Root, 0>>]
<1>1. i \in Iters /\ i.level = TOP
  <2>1. TOP \in Levels /\ 0 \in VAs /\ <<Root, 0>> \in Slots
    BY Constants, VmAssumption DEF Levels, VAs, Slots
  <2> QED
    BY <2>1 DEF Iters
<1>2. vmiter(m, va) = real_find(m, i, va)
  BY DEF vmiter
<1> HIDE DEF i
<1> QED
  BY <1>1, <1>2, FindOn

-----------------------------------------------------------------------------
(* The hardware's walk.                                                    *)

\* The path the hardware takes is the walk that ends where no page table page follows.
LEMMA PathIs ==
    ASSUME NEW m \in Memory, NEW va \in VAs, NEW l \in Levels, NEW f, Walk(m, va, l, f),
           l = 0 \/ ~IsLink(EntryOn(m, va, f, l))
    PROVE  Path(m, va) = f
<1> DEFINE S == UNION {[D -> Pages] : D \in SUBSET Levels}
           First == [x \in {TOP} |-> Root]
           Found(up, k) == IF k + 1 \in DOMAIN up THEN m[up[k + 1]][pageindex(va, k + 1)]
                                                 ELSE NoEntry
           Longer(up, k) == [x \in {k} \cup DOMAIN up |-> IF x = k THEN Found(up, k).pa ELSE up[x]]
           Body(T) == [k \in Levels |->
                        IF k = TOP THEN [x \in {TOP} |-> Root]
                        ELSE LET up == T[k + 1]
                                 e == IF k + 1 \in DOMAIN up THEN m[up[k + 1]][pageindex(va, k + 1)]
                                                             ELSE NoEntry
                             IN IF IsLink(e)
                                  THEN [x \in {k} \cup DOMAIN up |-> IF x = k THEN e.pa ELSE up[x]]
                                  ELSE up]
           step == [k \in 0 .. TOP |-> [up \in S |-> IF IsLink(Found(up, k)) /\ k < TOP
                                                       THEN Longer(up, k) ELSE up]]
           P == CHOOSE T : T = Body(T)
<1>0. TOP \in Nat /\ l \in Nat /\ l <= TOP /\ Levels = 0 .. TOP
  BY Constants DEF Levels
<1>1. step \in [0 .. TOP -> [S -> S]]
  <2> SUFFICES ASSUME NEW k \in 0 .. TOP, NEW up \in S, k < TOP, IsLink(Found(up, k))
               PROVE  Longer(up, k) \in S
    OBVIOUS
  <2>1. PICK D \in SUBSET Levels : up \in [D -> Pages]
    OBVIOUS
  <2>2. k + 1 \in D
    <3>1. ~IsLink(NoEntry)
      BY DEF IsLink, NoEntry
    <3> QED
      BY <2>1, <3>1
  <2>3. up[k + 1] \in Pages /\ pageindex(va, k + 1) \in 0 .. FANOUT - 1
    <3>1. k + 1 \in 0 .. TOP /\ va \in Nat
      BY <1>0, Constants
    <3> QED
      BY <2>1, <2>2, <3>1, RegionOf
  <2>4. Found(up, k) = m[up[k + 1]][pageindex(va, k + 1)]
    BY <2>1, <2>2
  <2>5. Found(up, k) \in Entries
    <3>1. m[up[k + 1]] \in [0 .. FANOUT - 1 -> Entries]
      BY <2>3 DEF Memory
    <3> HIDE DEF Found
    <3> QED
      BY <2>3, <2>4, <3>1
  <2>6. Found(up, k).pa \in Pages
    BY <2>5 DEF Entries
  <2>7. DOMAIN up = D
    BY <2>1
  <2> HIDE DEF Found
  <2>8. Longer(up, k) \in [{k} \cup D -> Pages]
    BY <2>1, <2>6, <2>7
  <2>9. {k} \cup D \in SUBSET Levels
    BY <1>0
  <2> HIDE DEF Longer
  <2> QED
    BY <2>8, <2>9
<1>2. ASSUME NEW T, NEW k \in 0 .. TOP, k # TOP
      PROVE  Body(T)[k] = IF IsLink(Found(T[k + 1], k)) THEN Longer(T[k + 1], k) ELSE T[k + 1]
  BY <1>0, <1>2
<1>3. \A T : Body(T)[TOP] = First /\ Body(T) = [k \in 0 .. TOP |-> Body(T)[k]]
  BY <1>0
<1>4. Path(m, va) = P[0]
  BY DEF Path
<1>5. First \in S
  <2>1. First \in [{TOP} -> Pages] /\ {TOP} \in SUBSET Levels
    BY <1>0, Constants
  <2> HIDE DEF First
  <2> QED
    BY <2>1
<1>6. \A k \in 0 .. TOP, up \in S : k # TOP =>
        step[k][up] = IF IsLink(Found(up, k)) THEN Longer(up, k) ELSE up
  BY <1>0
<1> HIDE DEF Body, step, First, S, Longer, Found
<1>7. PICK V \in [0 .. TOP -> S] : IsWalk(V, TOP, First, step)
  BY <1>0, <1>1, <1>5, WalkExists
<1>8. V = Body(V)
  <2>1. \A k \in 0 .. TOP : V[k] = Body(V)[k]
    <3> SUFFICES ASSUME NEW k \in 0 .. TOP PROVE V[k] = Body(V)[k]
      OBVIOUS
    <3>1. CASE k = TOP
      BY <1>3, <1>7, <3>1 DEF IsWalk
    <3>2. CASE k # TOP
      <4>1. V[k] = step[k][V[k + 1]] /\ V[k + 1] \in S
        <5>1. k + 1 \in 0 .. TOP
          BY <1>0, <3>2
        <5>2. V[k] = step[k][V[k + 1]]
          BY <1>7, <3>2 DEF IsWalk
        <5> QED
          BY <1>7, <5>1, <5>2
      <4> QED
        BY <1>2, <1>6, <3>2, <4>1
    <3> QED
      BY <3>1, <3>2
  <2>2. V = [k \in 0 .. TOP |-> V[k]]
    BY <1>7
  <2> QED
    BY <1>3, <2>1, <2>2
<1>9. P = Body(P)
  BY <1>8
<1> HIDE DEF P
<1>10. P[TOP] = First /\ \A k \in 0 .. TOP : k # TOP =>
         P[k] = IF IsLink(Found(P[k + 1], k)) THEN Longer(P[k + 1], k) ELSE P[k + 1]
  BY <1>2, <1>3, <1>9
<1>11. f \in [l .. TOP -> Pages] /\ f[TOP] = Root
  BY DEF Walk
<1> DEFINE From(k) == IF k >= l THEN k ELSE l
           C == {k \in 0 .. TOP : P[k] = [x \in From(k) .. TOP |-> f[x]]}
<1>12. TOP \in C
  <2>1. TOP .. TOP = {TOP} /\ From(TOP) = TOP
    BY <1>0
  <2>2. First = [x \in TOP .. TOP |-> f[x]]
    BY <1>11, <2>1 DEF First
  <2> QED
    BY <1>0, <1>10, <2>1, <2>2
<1>13. ASSUME NEW k \in 0 .. TOP - 1, k + 1 \in C PROVE k \in C
  <2>0. k \in Nat /\ k < TOP /\ k \in 0 .. TOP /\ k # TOP
    BY <1>0
  <2>1. PICK up : up = P[k + 1] /\ up = [x \in From(k + 1) .. TOP |-> f[x]]
    BY <1>13
  <2>2. P[k] = IF IsLink(Found(up, k)) THEN Longer(up, k) ELSE up
    <3>1. P[k] = IF IsLink(Found(P[k + 1], k)) THEN Longer(P[k + 1], k) ELSE P[k + 1]
      BY <1>10, <2>0
    <3> QED
      BY <2>1, <3>1
  <2>3. CASE k >= l
    <3>1. From(k) = k /\ From(k + 1) = k + 1 /\ k + 1 \in k + 1 .. TOP /\ k + 1 \in l + 1 .. TOP
          /\ (k + 1) - 1 = k
      BY <1>0, <2>0, <2>3
    <3>2. DOMAIN up = k + 1 .. TOP /\ up[k + 1] = f[k + 1]
      BY <2>1, <3>1
    <3>3. Found(up, k) = EntryOn(m, va, f, k + 1)
      BY <3>1, <3>2 DEF Found, EntryOn
    <3>4. IsLink(Found(up, k)) /\ Found(up, k).pa = f[k]
      BY <3>1, <3>3 DEF Walk
    <3>5. {k} \cup DOMAIN up = k .. TOP
      BY <2>0, <3>2
    <3>6. \A x \in k .. TOP : x # k => up[x] = f[x]
      <4>1. \A x \in k .. TOP : x # k => x \in From(k + 1) .. TOP
        BY <1>0, <2>0, <3>1
      <4>2. \A x \in From(k + 1) .. TOP : up[x] = f[x]
        BY <2>1
      <4> QED
        BY <4>1, <4>2
    <3>7. Longer(up, k) = [x \in k .. TOP |-> f[x]]
      BY <3>4, <3>5, <3>6 DEF Longer
    <3> QED
      BY <2>0, <2>2, <3>1, <3>4, <3>7
  <2>4. CASE k < l
    <3>1. From(k) = l /\ From(k + 1) = l
      BY <1>0, <2>0, <2>4
    <3>2. DOMAIN up = l .. TOP
      BY <2>1, <3>1
    <3>3. ~IsLink(Found(up, k))
      <4>1. CASE k + 1 = l
        <5>1. k + 1 \in DOMAIN up /\ up[k + 1] = f[l]
          BY <1>0, <2>1, <3>1, <3>2, <4>1
        <5>2. Found(up, k) = EntryOn(m, va, f, l)
          BY <4>1, <5>1 DEF Found, EntryOn
        <5>3. l # 0
          BY <2>0, <2>4
        <5> QED
          BY <5>2, <5>3
      <4>2. CASE k + 1 # l
        <5>1. k + 1 \notin DOMAIN up
          BY <1>0, <2>0, <2>4, <3>2, <4>2
        <5>2. ~IsLink(NoEntry)
          BY DEF IsLink, NoEntry
        <5> QED
          BY <5>1, <5>2 DEF Found
      <4> QED
        BY <4>1, <4>2
    <3> QED
      BY <2>0, <2>1, <2>2, <3>1, <3>3
  <2> QED
    BY <1>0, <2>0, <2>3, <2>4
<1> HIDE DEF C, From
<1>14. 0 \in C
  BY <1>0, <1>12, <1>13, Downwards
<1>15. P[0] = [x \in l .. TOP |-> f[x]]
  <2>1. From(0) = l
    BY <1>0 DEF From
  <2> QED
    BY <1>14, <2>1 DEF C
<1> QED
  BY <1>4, <1>11, <1>15

\* The permissions that the entries from level l up grant.
Allowed(m, va, l, f) == {b \in PWU : \A k \in l .. TOP : b \in EntryOn(m, va, f, k).perm}

\* The translation in terms of the walk to its end.
LEMMA TranslateIs ==
    ASSUME NEW m \in Memory, NEW va \in VAs, NEW l \in Levels, NEW f, Walk(m, va, l, f),
           l = 0 \/ ~IsLink(EntryOn(m, va, f, l))
    PROVE  LET e == EntryOn(m, va, f, l)
           IN  Translate(m, va) = IF va_is_canonical(va) /\ "P" \in e.perm
                                    THEN [pa |-> e.pa + (va % Span[l]), perm |-> Allowed(m, va, l, f)]
                                    ELSE NoTranslation
<1>1. Path(m, va) = f
  BY PathIs
<1>2. DOMAIN f = l .. TOP
  BY DEF Walk
<1>3. (CHOOSE x \in l .. TOP : \A k \in l .. TOP : x <= k) = l
  <2>1. l \in Nat /\ TOP \in Nat /\ l <= TOP
    BY Constants DEF Levels
  <2>2. l \in l .. TOP /\ \A k \in l .. TOP : l <= k
    BY <2>1
  <2>3. \A x \in l .. TOP : x <= l => x = l
    BY <2>1
  <2> QED
    BY <2>2, <2>3
<1>4. \A k \in l .. TOP : m[f[k]][pageindex(va, k)] = EntryOn(m, va, f, k)
  BY DEF EntryOn
<1>5. m[f[l]][pageindex(va, l)] = EntryOn(m, va, f, l)
  BY DEF EntryOn
<1>6. {b \in PWU : \A k \in DOMAIN f : b \in m[f[k]][pageindex(va, k)].perm} = Allowed(m, va, l, f)
  BY <1>2, <1>4 DEF Allowed
<1> QED
  BY <1>1, <1>2, <1>3, <1>5, <1>6 DEF Translate

\* A vmiter at the end of its way reports what the hardware makes of its address.
LEMMA Agrees ==
    ASSUME NEW m \in Memory, NEW i \in Iters, On(m, i), Leaf(m, i)
    PROVE  /\ pa_of(m, i) = Translate(m, i.va).pa
           /\ perm_of(m, i) \cap PWU = Translate(m, i.va).perm
<1>1. CASE ~va_is_canonical(i.va)
  <2>1. Entry(m, i.slot) = NoEntry
    BY <1>1 DEF On, Entry
  <2>2. "P" \notin NoEntry.perm
    BY DEF NoEntry
  <2>3. pa_of(m, i) = -1 /\ perm_of(m, i) = {}
    BY <2>1, <2>2 DEF pa_of, perm_of
  <2>4. Translate(m, i.va) = NoTranslation
    BY <1>1 DEF Translate
  <2> QED
    BY <2>3, <2>4 DEF NoTranslation
<1>2. CASE va_is_canonical(i.va)
  <2>1. PICK f : /\ Walk(m, i.va, i.level, f) /\ i.perm = Granted(m, i.va, i.level, f)
                 /\ i.slot = <<f[i.level], pageindex(i.va, i.level)>>
    BY <1>2 DEF On
  <2>2. PICK l \in Levels, va \in VAs : l = i.level /\ va = i.va
    BY DEF Iters
  <2>3. l \in l .. TOP /\ \A k \in l .. TOP : k = l \/ k \in l + 1 .. TOP
    BY Constants DEF Levels
  <2>4. PICK e : e = EntryOn(m, va, f, l)
    OBVIOUS
  <2>5. Entry(m, i.slot) = e
    BY <2>1, <2>2, <2>3, <2>4, WalkEntry
  <2>6. l = 0 \/ ~IsLink(e)
    BY <2>2, <2>5 DEF Leaf
  <2>7. Walk(m, va, l, f) /\ i.perm = Granted(m, va, l, f)
    BY <2>1, <2>2
  <2>8. Translate(m, va) = IF va_is_canonical(va) /\ "P" \in e.perm
                             THEN [pa |-> e.pa + (va % Span[l]), perm |-> Allowed(m, va, l, f)]
                             ELSE NoTranslation
    BY <2>4, <2>6, <2>7, TranslateIs
  <2>9. (e.perm \cap i.perm) \cap PWU = Allowed(m, va, l, f)
    <3>1. \A k \in l + 1 .. TOP : k \in l .. TOP
      BY Constants DEF Levels
    <3>2. PWU \subseteq Bits
      BY DEF Bits
    <3>3. ASSUME NEW b \in PWU
          PROVE  b \in e.perm /\ b \in i.perm <=> \A k \in l .. TOP : b \in EntryOn(m, va, f, k).perm
      BY <2>3, <2>4, <2>7, <3>1, <3>2 DEF Granted
    <3> QED
      BY <3>3 DEF Allowed
  <2>10. CASE "P" \in e.perm
    <3>1. Translate(m, va) = [pa |-> e.pa + (va % Span[l]), perm |-> Allowed(m, va, l, f)]
      BY <1>2, <2>2, <2>8, <2>10
    <3>2. pa_of(m, i) = e.pa + (va % Span[l]) /\ perm_of(m, i) = e.perm \cap i.perm
      BY <2>2, <2>5, <2>10 DEF pa_of, perm_of
    <3> QED
      BY <2>2, <2>9, <3>1, <3>2
  <2>11. CASE "P" \notin e.perm
    <3>1. Translate(m, va) = NoTranslation
      BY <2>8, <2>11
    <3>2. pa_of(m, i) = -1 /\ perm_of(m, i) = {}
      BY <2>5, <2>11 DEF pa_of, perm_of
    <3> QED
      BY <2>2, <3>1, <3>2 DEF NoTranslation
  <2> QED
    BY <2>10, <2>11
<1> QED
  BY <1>1, <1>2

-----------------------------------------------------------------------------
(* The page table as a tree.                                               *)

\* The page table pages t, free pages fr and the root are apart.
Sep(t, fr) ==
    /\ t \subseteq Pages /\ fr \subseteq Pages /\ Root \notin t
    /\ fr \cap (t \cup {Root}) = {} /\ fr \cap DataPages = {}
    /\ (t \ {Second, Third}) \cap DataPages = {}

\* Every page of the table has a level and the cell of the address space that it covers; entries
\* above level 0 lead to the page that covers the cell of the entry, and every page is led to.
Tree(m, t, lev, cell) ==
    /\ lev \in [t \cup {Root} -> Levels] /\ cell \in [t \cup {Root} -> Nat]
    /\ lev[Root] = TOP /\ cell[Root] = 0
    /\ \A x \in t \cup {Root}, n \in 0 .. FANOUT - 1 : lev[x] > 0 /\ IsLink(m[x][n]) =>
         /\ m[x][n].pa \in t /\ lev[m[x][n].pa] = lev[x] - 1
         /\ cell[m[x][n].pa] = FANOUT * cell[x] + n
    /\ \A x \in t : \E y \in t \cup {Root}, n \in 0 .. FANOUT - 1 :
         lev[y] > 0 /\ IsLink(m[y][n]) /\ m[y][n].pa = x
IsTree(m, t) == \E lev, cell : Tree(m, t, lev, cell)

\* A walk goes through pages of the table, one of each level, that cover its address.
LEMMA WalkLevels ==
    ASSUME NEW m \in Memory, NEW t \in SUBSET Pages, NEW lev, NEW cell, Tree(m, t, lev, cell),
           NEW va \in VAs, NEW l \in Levels, NEW f, Walk(m, va, l, f)
    PROVE  \A k \in l .. TOP :
             f[k] \in t \cup {Root} /\ lev[f[k]] = k /\ cell[f[k]] = Cell(va, k + 1)
<1>0. TOP \in Nat /\ l \in 0 .. TOP /\ va \in Nat
  BY Constants DEF Levels
<1> DEFINE Fits(k) == f[k] \in t \cup {Root} /\ lev[f[k]] = k /\ cell[f[k]] = Cell(va, k + 1)
           C == {k \in 0 .. TOP : k >= l => Fits(k)}
<1>1. TOP \in C
  <2>1. f[TOP] = Root /\ lev[Root] = TOP /\ cell[Root] = 0
    BY DEF Walk, Tree
  <2>2. Cell(va, TOP + 1) = 0
    BY <1>0, CellOf
  <2> QED
    BY <1>0, <2>1, <2>2
<1>2. ASSUME NEW k \in 0 .. TOP - 1, k + 1 \in C PROVE k \in C
  <2>0. k \in 0 .. TOP /\ k + 1 \in 0 .. TOP
    BY <1>0
  <2>1. CASE k < l
    BY <1>0, <2>0, <2>1
  <2>2. CASE k >= l
    <3>1. k + 1 >= l /\ k + 1 \in l + 1 .. TOP /\ k + 1 \in l .. TOP /\ (k + 1) - 1 = k
      BY <1>0, <2>0, <2>2
    <3>2. PICK x \in t \cup {Root} : x = f[k + 1] /\ lev[x] = k + 1 /\ cell[x] = Cell(va, (k + 1) + 1)
      BY <1>2, <3>1
    <3>3. PICK n \in 0 .. FANOUT - 1 : n = pageindex(va, k + 1)
      BY <3>1, WalkEntry
    <3>4. IsLink(m[x][n]) /\ m[x][n].pa = f[k]
      BY <3>1, <3>2, <3>3 DEF Walk, EntryOn
    <3>5. lev[x] > 0
      BY <2>0, <3>2
    <3>6. m[x][n].pa \in t /\ lev[m[x][n].pa] = lev[x] - 1 /\ cell[m[x][n].pa] = FANOUT * cell[x] + n
      BY <3>4, <3>5 DEF Tree
    <3>7. Cell(va, k + 1) = FANOUT * Cell(va, (k + 1) + 1) + pageindex(va, k + 1)
      BY <1>0, <2>0, CellOf
    <3>8. Fits(k)
      <4>1. lev[f[k]] = k
        BY <2>0, <3>1, <3>2, <3>4, <3>6
      <4>2. cell[f[k]] = Cell(va, k + 1)
        BY <3>2, <3>3, <3>4, <3>6, <3>7
      <4>3. f[k] \in t
        BY <3>4, <3>6
      <4> QED
        BY <4>1, <4>2, <4>3
    <3> HIDE DEF Fits
    <3> QED
      BY <2>0, <3>8
  <2> QED
    BY <1>0, <2>0, <2>1, <2>2
<1> HIDE DEF C, Fits
<1>3. \A k \in 0 .. TOP : k \in C
  BY <1>0, <1>1, <1>2, Downwards
<1>4. ASSUME NEW k \in l .. TOP PROVE Fits(k)
  <2>1. k \in 0 .. TOP /\ k >= l
    BY <1>0
  <2> QED
    BY <1>3, <2>1 DEF C
<1> QED
  BY <1>4 DEF Fits

\* The same of one of its pages.
LEMMA WalkPage ==
    ASSUME NEW m \in Memory, NEW t \in SUBSET Pages, NEW lev, NEW cell, Tree(m, t, lev, cell),
           NEW va \in VAs, NEW l \in Levels, NEW f, Walk(m, va, l, f), NEW k \in l .. TOP
    PROVE  f[k] \in t \cup {Root} /\ lev[f[k]] = k
BY WalkLevels

\* Every walk of m is one of n.
Kept(m, n) ==
    \A va \in VAs, l \in Levels : \A f : Walk(m, va, l, f) =>
      Walk(n, va, l, f) /\ Granted(n, va, l, f) = Granted(m, va, l, f)

\* Memory that keeps the entries of a tree that lead to its pages keeps its walks.
LEMMA LinksKept ==
    ASSUME NEW m \in Memory, NEW t \in SUBSET Pages, NEW lev, NEW cell, Tree(m, t, lev, cell),
           NEW n, \A x \in t \cup {Root}, k \in 0 .. FANOUT - 1 :
                    lev[x] > 0 /\ IsLink(m[x][k]) => n[x][k] = m[x][k]
    PROVE  Kept(m, n)
<1> SUFFICES ASSUME NEW va \in VAs, NEW l \in Levels, NEW f, Walk(m, va, l, f)
             PROVE  Walk(n, va, l, f) /\ Granted(n, va, l, f) = Granted(m, va, l, f)
  BY DEF Kept
<1>1. ASSUME NEW k \in l + 1 .. TOP PROVE EntryOn(n, va, f, k) = EntryOn(m, va, f, k)
  <2>1. k \in l .. TOP /\ k > 0
    BY Constants DEF Levels
  <2>2. f[k] \in t \cup {Root} /\ lev[f[k]] = k
    BY <2>1, WalkLevels
  <2>3. pageindex(va, k) \in 0 .. FANOUT - 1
    BY <2>1, WalkEntry
  <2>4. IsLink(m[f[k]][pageindex(va, k)])
    BY DEF Walk, EntryOn
  <2> QED
    BY <2>1, <2>2, <2>3, <2>4 DEF EntryOn
<1> QED
  BY <1>1 DEF Walk, Granted

\* A vmiter stays on the way then.
LEMMA KeptOn ==
    ASSUME NEW m, NEW n, Kept(m, n), NEW i \in Iters, On(m, i)
    PROVE  On(n, i)
<1>1. i.va \in VAs /\ i.level \in Levels
  BY DEF Iters
<1>2. CASE va_is_canonical(i.va)
  <2>1. PICK f : /\ Walk(m, i.va, i.level, f) /\ i.perm = Granted(m, i.va, i.level, f)
                 /\ i.slot = <<f[i.level], pageindex(i.va, i.level)>>
    BY <1>2 DEF On
  <2>2. Walk(n, i.va, i.level, f) /\ i.perm = Granted(n, i.va, i.level, f)
    BY <1>1, <2>1 DEF Kept
  <2> QED
    BY <1>2, <2>1, <2>2, Zenon DEF On
<1>3. CASE ~va_is_canonical(i.va)
  BY <1>3 DEF On
<1> QED
  BY <1>2, <1>3

\* Where the entries from the root to the end of a walk are the same, so is the translation.
LEMMA SameTranslation ==
    ASSUME NEW m \in Memory, NEW n \in Memory, NEW va \in VAs, NEW l \in Levels, NEW f,
           Walk(m, va, l, f), l = 0 \/ ~IsLink(EntryOn(m, va, f, l)),
           \A k \in l .. TOP : EntryOn(n, va, f, k) = EntryOn(m, va, f, k)
    PROVE  Translate(n, va) = Translate(m, va)
<1>1. l \in l .. TOP /\ \A k \in l + 1 .. TOP : k \in l .. TOP
  BY Constants DEF Levels
<1>2. Walk(n, va, l, f)
  BY <1>1 DEF Walk
<1>3. EntryOn(n, va, f, l) = EntryOn(m, va, f, l)
  BY <1>1
<1>4. Allowed(n, va, l, f) = Allowed(m, va, l, f)
  BY DEF Allowed
<1>5. l = 0 \/ ~IsLink(EntryOn(n, va, f, l))
  BY <1>3
<1>6. PICK e : e = EntryOn(m, va, f, l)
  OBVIOUS
<1>7. Translate(m, va) = IF va_is_canonical(va) /\ "P" \in e.perm
                           THEN [pa |-> e.pa + (va % Span[l]), perm |-> Allowed(m, va, l, f)]
                           ELSE NoTranslation
  BY <1>6, TranslateIs
<1>8. Translate(n, va) = IF va_is_canonical(va) /\ "P" \in e.perm
                           THEN [pa |-> e.pa + (va % Span[l]), perm |-> Allowed(n, va, l, f)]
                           ELSE NoTranslation
  BY <1>2, <1>3, <1>5, <1>6, TranslateIs
<1> QED
  BY <1>4, <1>7, <1>8

\* A walk can be continued to its end.
LEMMA WalkFurther ==
    ASSUME NEW m \in Memory, NEW va \in VAs, NEW l \in Levels, NEW f, Walk(m, va, l, f)
    PROVE  \E j \in 0 .. l : \E g :
             /\ Walk(m, va, j, g) /\ (j = 0 \/ ~IsLink(EntryOn(m, va, g, j)))
             /\ \A k \in l .. TOP : g[k] = f[k]
<1> DEFINE Ends(j, k, g) == /\ Walk(m, va, j, g) /\ (j = k \/ ~IsLink(EntryOn(m, va, g, j)))
                            /\ \A i \in l .. TOP : g[i] = f[i]
           C == {k \in 0 .. l : \E j \in k .. l : \E g : Ends(j, k, g)}
<1>0. l \in Nat /\ l <= TOP /\ TOP \in Nat /\ l \in l .. l /\ l \in 0 .. l
  BY Constants DEF Levels
<1>1. l \in C
  <2>1. Ends(l, l, f)
    OBVIOUS
  <2> HIDE DEF Ends
  <2> QED
    BY <1>0, <2>1
<1>2. ASSUME NEW k \in 0 .. l - 1, k + 1 \in C PROVE k \in C
  <2>0. k \in 0 .. l /\ k \in k .. l /\ k + 1 \in 0 .. l
    BY <1>0
  <2>1. PICK j \in k + 1 .. l : \E g : Ends(j, k + 1, g)
    BY <1>2
  <2>2. PICK g : Ends(j, k + 1, g)
    BY <2>1
  <2>3. j \in k .. l /\ j \in Levels
    BY <1>0, <2>0 DEF Levels
  <2>4. CASE ~IsLink(EntryOn(m, va, g, j))
    <3>1. Ends(j, k, g)
      BY <2>2, <2>4
    <3> HIDE DEF Ends
    <3> QED
      BY <2>0, <2>3, <3>1
  <2>5. CASE IsLink(EntryOn(m, va, g, j))
    <3>1. j = k + 1 /\ Walk(m, va, j, g) /\ j > 0 /\ j - 1 = k
      BY <2>0, <2>2, <2>5
    <3>2. PICK h : Walk(m, va, j - 1, h) /\ \A i \in j .. TOP : h[i] = g[i]
      BY <2>3, <2>5, <3>1, WalkOn
    <3>3. \A i \in l .. TOP : i \in j .. TOP
      BY <1>0, <2>3
    <3>4. Ends(k, k, h)
      BY <2>2, <3>1, <3>2, <3>3
    <3> HIDE DEF Ends
    <3> QED
      BY <2>0, <3>4
  <2> QED
    BY <2>4, <2>5
<1> HIDE DEF C
<1>3. 0 \in C
  BY <1>0, <1>1, <1>2, Downwards
<1> QED
  BY <1>3 DEF C

\* The root is a walk.
LEMMA WalkFromRoot ==
    ASSUME NEW m, NEW va
    PROVE  \E f : Walk(m, va, TOP, f)
<1> DEFINE f == [k \in TOP .. TOP |-> Root]
<1>1. TOP + 1 .. TOP = {} /\ TOP \in TOP .. TOP
  BY Constants
<1>2. Walk(m, va, TOP, f)
  BY <1>1, Constants DEF Walk
<1> HIDE DEF f
<1> QED
  BY <1>2, Zenon

\* Every address has a walk to its end.
LEMMA WalkToEnd ==
    ASSUME NEW m \in Memory, NEW va \in VAs
    PROVE  \E l \in Levels : \E f : Walk(m, va, l, f) /\ (l = 0 \/ ~IsLink(EntryOn(m, va, f, l)))
<1>1. PICK f : Walk(m, va, TOP, f)
  BY WalkFromRoot
<1>2. TOP \in Levels /\ Levels = 0 .. TOP
  BY Constants DEF Levels
<1>3. \E j \in 0 .. TOP : \E g : /\ Walk(m, va, j, g) /\ (j = 0 \/ ~IsLink(EntryOn(m, va, g, j)))
                                 /\ \A k \in TOP .. TOP : g[k] = f[k]
  BY <1>1, <1>2, WalkFurther
<1> QED
  BY <1>2, <1>3

-----------------------------------------------------------------------------
(* try_map.                                                                *)

\* What NewTable changes.
LEMMA NewTableIs ==
    ASSUME NEW m \in Memory, NEW x \in Pages, NEW n \in 0 .. FANOUT - 1, NEW page \in Pages, page # x
    PROVE  LET w == NewTable(m, <<x, n>>, page)
           IN  /\ w \in Memory
               /\ w[x][n] = [pa |-> page, perm |-> PWU]
               /\ \A k \in 0 .. FANOUT - 1 : w[page][k] = NoEntry
               /\ \A y \in Pages, k \in 0 .. FANOUT - 1 :
                    y # page /\ ~(y = x /\ k = n) => w[y][k] = m[y][k]
<1>1. PICK w : w = NewTable(m, <<x, n>>, page)
  OBVIOUS
<1> DEFINE cleared == [k \in 0 .. FANOUT - 1 |-> NoEntry]
           link == [pa |-> page, perm |-> PWU]
<1>2. cleared \in [0 .. FANOUT - 1 -> Entries] /\ link \in Entries
  BY Constants DEF NoEntry, Entries, Bits
<1>3. m \in [Pages -> [0 .. FANOUT - 1 -> Entries]]
  BY DEF Memory
<1>4. \A k \in 0 .. FANOUT - 1 : cleared[k] = NoEntry
  OBVIOUS
<1>5. w = [[m EXCEPT ![page] = cleared] EXCEPT ![x][n] = link]
  BY <1>1 DEF NewTable
<1> HIDE DEF cleared
<1>6. w = [y \in Pages |-> IF y = x THEN [m[x] EXCEPT ![n] = link]
                           ELSE IF y = page THEN cleared ELSE m[y]]
  BY <1>3, <1>5
<1> HIDE DEF link
<1>7. [m[x] EXCEPT ![n] = link] \in [0 .. FANOUT - 1 -> Entries]
  BY <1>2, <1>3
<1>8. w \in Memory
  BY <1>2, <1>3, <1>6, <1>7 DEF Memory
<1>9. w[page] = cleared /\ w[x] = [m[x] EXCEPT ![n] = link]
  BY <1>6
<1>10. w[x][n] = link /\ \A k \in 0 .. FANOUT - 1 : k # n => w[x][k] = m[x][k]
  BY <1>3, <1>9
<1>11. \A y \in Pages : y # page /\ y # x => w[y] = m[y]
  BY <1>6
<1> QED
  BY <1>1, <1>4, <1>8, <1>9, <1>10, <1>11 DEF link

\* The memory w has one page table page more than m, and translates alike.
OneMore(m, t, fr, page, w) ==
    /\ w \in Memory /\ Sep(t \cup {page}, fr \ {page}) /\ IsTree(w, t \cup {page})
    /\ Kept(m, w) /\ \A va \in VAs : Translate(w, va) = Translate(m, va)

\* A page is linked below an entry that was not present: the tree has a page more, and no
\* translation and no walk changes.
LEMMA NewTableTree ==
    ASSUME NEW m \in Memory, NEW t, NEW fr, Sep(t, fr), NEW lev, NEW cell, Tree(m, t, lev, cell),
           NEW x \in t \cup {Root}, lev[x] > 0, NEW n \in 0 .. FANOUT - 1,
           "P" \notin m[x][n].perm, NEW page \in fr
    PROVE  OneMore(m, t, fr, page, NewTable(m, <<x, n>>, page))
<1>0. /\ t \in SUBSET Pages /\ Root \in Pages /\ x \in Pages /\ page \in Pages
      /\ page \notin t \cup {Root} /\ page # x
  BY Constants DEF Sep
<1>1. PICK w : w = NewTable(m, <<x, n>>, page)
  OBVIOUS
<1>2. /\ w \in Memory
      /\ w[x][n] = [pa |-> page, perm |-> PWU]
      /\ \A k \in 0 .. FANOUT - 1 : w[page][k] = NoEntry
      /\ \A y \in Pages, k \in 0 .. FANOUT - 1 : y # page /\ ~(y = x /\ k = n) => w[y][k] = m[y][k]
  BY ONLY <1>0, <1>1, NewTableIs, m \in Memory, n \in 0 .. FANOUT - 1, SMTT(60)
<1>3. ~IsLink(m[x][n]) /\ IsLink(w[x][n]) /\ w[x][n].pa = page /\ ~IsLink(NoEntry)
      /\ "P" \notin NoEntry.perm
  BY <1>2 DEF IsLink, PWU, NoEntry
<1>4. Sep(t \cup {page}, fr \ {page})
  BY <1>0 DEF Sep
<1>5. \A y \in t \cup {Root}, k \in 0 .. FANOUT - 1 : ~(y = x /\ k = n) => w[y][k] = m[y][k]
  BY <1>0, <1>2
<1>6. Kept(m, w)
  <2>1. \A y \in t \cup {Root}, k \in 0 .. FANOUT - 1 :
          lev[y] > 0 /\ IsLink(m[y][k]) => w[y][k] = m[y][k]
    BY <1>3, <1>5
  <2> QED
    BY <1>0, <2>1, LinksKept
<1>7. IsTree(w, t \cup {page})
  <2> DEFINE U == t \cup {Root}
             lv == [y \in U \cup {page} |-> IF y = page THEN lev[x] - 1 ELSE lev[y]]
             cl == [y \in U \cup {page} |-> IF y = page THEN FANOUT * cell[x] + n ELSE cell[y]]
  <2>0. (t \cup {page}) \cup {Root} = U \cup {page} /\ Root \in U /\ page \notin U /\ x \in U
    BY <1>0
  <2>1. lev \in [U -> Levels] /\ cell \in [U -> Nat] /\ lev[Root] = TOP /\ cell[Root] = 0
    BY DEF Tree
  <2>2. lev[x] - 1 \in Levels
    <3>1. lev[x] \in Levels
      BY <2>0, <2>1
    <3> QED
      BY <3>1, Constants DEF Levels
  <2>3. FANOUT * cell[x] + n \in Nat
    <3>1. PICK c \in Nat : c = cell[x]
      BY <2>0, <2>1
    <3>2. FANOUT * c \in Nat
      BY Constants
    <3> QED
      BY <3>1, <3>2
  <2> HIDE DEF U
  <2>4. lv \in [U \cup {page} -> Levels]
    BY <2>1, <2>2
  <2>5. cl \in [U \cup {page} -> Nat]
    BY <2>1, <2>3
  <2>6. lv[page] = lev[x] - 1 /\ cl[page] = FANOUT * cell[x] + n
    OBVIOUS
  <2>7. \A y \in U : lv[y] = lev[y] /\ cl[y] = cell[y]
    BY <2>0
  <2> HIDE DEF lv, cl
  <2>8. ASSUME NEW y \in U \cup {page}, NEW k \in 0 .. FANOUT - 1, lv[y] > 0, IsLink(w[y][k])
        PROVE  /\ w[y][k].pa \in t \cup {page} /\ lv[w[y][k].pa] = lv[y] - 1
               /\ cl[w[y][k].pa] = FANOUT * cl[y] + k
    <3>1. CASE y = x /\ k = n
      BY <1>3, <2>0, <2>6, <2>7, <3>1
    <3>2. CASE y \in U /\ ~(y = x /\ k = n)
      <4>1. w[y][k] = m[y][k] /\ lev[y] > 0 /\ IsLink(m[y][k])
        BY <1>5, <2>7, <2>8, <3>2 DEF U
      <4>2. m[y][k].pa \in t /\ lev[m[y][k].pa] = lev[y] - 1
            /\ cell[m[y][k].pa] = FANOUT * cell[y] + k
        BY <3>2, <4>1 DEF Tree, U
      <4>3. m[y][k].pa \in U
        BY <4>2 DEF U
      <4> QED
        BY <2>7, <3>2, <4>1, <4>2, <4>3
    <3>3. CASE y = page
      BY <1>2, <1>3, <2>8, <3>3
    <3> QED
      BY <2>0, <3>1, <3>2, <3>3
  <2>9. ASSUME NEW y \in t \cup {page}
        PROVE  \E z \in U \cup {page}, k \in 0 .. FANOUT - 1 :
                 lv[z] > 0 /\ IsLink(w[z][k]) /\ w[z][k].pa = y
    <3>1. CASE y = page
      <4>1. lv[x] > 0 /\ IsLink(w[x][n]) /\ w[x][n].pa = y /\ x \in U \cup {page}
        BY <1>3, <2>0, <2>7, <3>1
      <4> QED
        BY <4>1
    <3>2. CASE y \in t
      <4>1. PICK z \in U, k \in 0 .. FANOUT - 1 : lev[z] > 0 /\ IsLink(m[z][k]) /\ m[z][k].pa = y
        BY <3>2 DEF Tree, U
      <4>2. w[z][k] = m[z][k]
        BY <1>3, <1>5, <4>1 DEF U
      <4>3. lv[z] > 0 /\ IsLink(w[z][k]) /\ w[z][k].pa = y /\ z \in U \cup {page}
        BY <2>7, <4>1, <4>2
      <4> QED
        BY <4>3
    <3> QED
      BY <3>1, <3>2
  <2>10. lv[Root] = TOP /\ cl[Root] = 0
    BY <2>0, <2>1, <2>7
  <2>11. Tree(w, t \cup {page}, lv, cl)
    BY <2>0, <2>4, <2>5, <2>8, <2>9, <2>10 DEF Tree
  <2> QED
    BY <2>11, Zenon DEF IsTree
<1>8. ASSUME NEW va \in VAs PROVE Translate(w, va) = Translate(m, va)
  <2>1. CASE ~va_is_canonical(va)
    BY <2>1 DEF Translate
  <2>2. CASE va_is_canonical(va)
    <3>0. PICK l \in Levels : \E f : Walk(m, va, l, f) /\ (l = 0 \/ ~IsLink(EntryOn(m, va, f, l)))
      BY <2>2, WalkToEnd
    <3>1. PICK f : Walk(m, va, l, f) /\ (l = 0 \/ ~IsLink(EntryOn(m, va, f, l)))
      BY <3>0
    <3>2. l \in l .. TOP /\ \A k \in l .. TOP : k = l \/ k \in l + 1 .. TOP
      BY Constants DEF Levels
    <3>3. \A k \in l .. TOP : f[k] \in t \cup {Root} /\ lev[f[k]] = k
      BY <1>0, <3>1, WalkLevels
    <3>4. \A k \in l .. TOP : pageindex(va, k) \in 0 .. FANOUT - 1
      BY <3>1, WalkEntry
    <3>5. CASE f[l] = x /\ pageindex(va, l) = n
      <4>1. l = lev[x] /\ l > 0
        BY <3>2, <3>3, <3>5
      <4>2. Translate(m, va) = NoTranslation
        <5>1. "P" \notin EntryOn(m, va, f, l).perm
          BY <3>5 DEF EntryOn
        <5> QED
          BY <3>1, <5>1, TranslateIs
      <4>3. Walk(w, va, l, f)
        BY <1>6, <3>1 DEF Kept
      <4>4. EntryOn(w, va, f, l) = w[x][n]
        BY <3>5 DEF EntryOn
      <4>5. PICK g : Walk(w, va, l - 1, g) /\ g[l - 1] = page
        BY <1>2, <1>3, <4>1, <4>3, <4>4, WalkOn
      <4>6. l - 1 \in Levels /\ l - 1 \in l - 1 .. TOP
        BY <4>1, Constants DEF Levels
      <4>7. EntryOn(w, va, g, l - 1) = NoEntry
        <5>1. pageindex(va, l - 1) \in 0 .. FANOUT - 1
          BY <1>2, <4>5, <4>6, WalkEntry
        <5> QED
          BY <1>2, <4>5, <5>1 DEF EntryOn
      <4>8. Translate(w, va) = NoTranslation
        <5>1. PICK k \in Levels : k = l - 1
          BY <4>6
        <5>2. Walk(w, va, k, g) /\ EntryOn(w, va, g, k) = NoEntry
          BY <4>5, <4>7, <5>1
        <5> QED
          BY <1>2, <1>3, <5>2, TranslateIs
      <4> QED
        BY <4>2, <4>8
    <3>6. CASE ~(f[l] = x /\ pageindex(va, l) = n)
      <4>1. ASSUME NEW k \in l .. TOP PROVE EntryOn(w, va, f, k) = EntryOn(m, va, f, k)
        <5>1. ~(f[k] = x /\ pageindex(va, k) = n)
          <6>1. CASE k = l
            BY <3>6, <6>1
          <6>2. CASE k \in l + 1 .. TOP
            <7>1. IsLink(m[f[k]][pageindex(va, k)])
              BY <3>1, <6>2 DEF Walk, EntryOn
            <7> QED
              BY <1>3, <7>1
          <6> QED
            BY <3>2, <6>1, <6>2
        <5> QED
          BY <1>5, <3>3, <3>4, <5>1 DEF EntryOn
      <4> QED
        BY <1>2, <3>1, <4>1, SameTranslation
    <3> QED
      BY <3>5, <3>6
  <2> QED
    BY <2>1, <2>2
<1> QED
  BY <1>1, <1>2, <1>4, <1>6, <1>7, <1>8 DEF OneMore

\* The state that try_map works on, with its vmiter on the way to its address.
MapStates == [mem : Memory, free : SUBSET Pages, tables : SUBSET Pages, it : Iters]
Fine(s) == /\ s \in MapStates /\ Sep(s.tables, s.free) /\ IsTree(s.mem, s.tables)
           /\ On(s.mem, s.it)

\* The memory with an entry written where the vmiter stands.
Written(r, pa, p) ==
    [r.mem EXCEPT ![r.it.slot[1]][r.it.slot[2]] = [pa |-> pa, perm |-> p]]

\* An entry written at level 0 changes the translation of the one address that leads to it.
LEMMA WriteLeaf ==
    ASSUME NEW r, Fine(r), r.it.level = 0, NEW pa \in Pages, NEW p \in SUBSET PWU,
           p \subseteq r.it.perm
    PROVE  LET w == Written(r, pa, p)
           IN  /\ w \in Memory /\ IsTree(w, r.tables) /\ Kept(r.mem, w)
               /\ \A va \in VAs : va # r.it.va => Translate(w, va) = Translate(r.mem, va)
               /\ Translate(w, r.it.va) = IF "P" \in p THEN [pa |-> pa, perm |-> p]
                                                       ELSE NoTranslation
<1>0. r.mem \in Memory /\ r.tables \in SUBSET Pages /\ r.it \in Iters
  BY DEF Fine, MapStates
<1>1. PICK m \in Memory, t \in SUBSET Pages, i \in Iters : m = r.mem /\ t = r.tables /\ i = r.it
  BY <1>0
<1>2. On(m, i) /\ IsTree(m, t) /\ i.level = 0 /\ i.va \in VAs /\ p \subseteq i.perm
  BY <1>1 DEF Fine, Iters
<1>3. PICK v \in VAs, l \in Levels : v = i.va /\ l = 0 /\ l \in l .. TOP
  <2>1. 0 \in Levels /\ 0 \in 0 .. TOP
    BY Constants DEF Levels
  <2> QED
    BY <1>2, <2>1
<1>4. va_is_canonical(v)
  BY <1>2, <1>3, Constants DEF On
<1>5. PICK f : Walk(m, v, l, f) /\ i.perm = Granted(m, v, l, f) /\ i.slot = <<f[l], pageindex(v, l)>>
  BY <1>2, <1>3, <1>4 DEF On
<1>6. PICK lev, cell : Tree(m, t, lev, cell)
  BY <1>2 DEF IsTree
<1>7. PICK x \in t \cup {Root} : x = f[l] /\ lev[x] = l /\ cell[x] = Cell(v, l + 1)
  <2>1. \A k \in l .. TOP :
          f[k] \in t \cup {Root} /\ lev[f[k]] = k /\ cell[f[k]] = Cell(v, k + 1)
    BY ONLY <1>5, <1>6, WalkLevels, m \in Memory, t \in SUBSET Pages, v \in VAs, l \in Levels
  <2>2. f[l] \in t \cup {Root} /\ lev[f[l]] = l /\ cell[f[l]] = Cell(v, l + 1)
    BY <1>3, <2>1, Zenon
  <2> QED
    BY <2>2, Zenon
<1>8. PICK n \in 0 .. FANOUT - 1 : n = pageindex(v, l)
  BY <1>3, <1>5, WalkEntry
<1>9. x \in Pages
  BY <1>7, Constants
<1>10. PICK e \in Entries : e = [pa |-> pa, perm |-> p]
  <2>1. p \in SUBSET Bits
    BY DEF Bits
  <2>2. [pa |-> pa, perm |-> p] \in Entries
    BY <2>1 DEF Entries
  <2> QED
    BY <2>2
<1>11. PICK w : w = [m EXCEPT ![x][n] = e]
  OBVIOUS
<1>12. Written(r, pa, p) = w
  <2>1. i.slot[1] = x /\ i.slot[2] = n
    BY <1>5, <1>7, <1>8
  <2> QED
    BY <1>1, <1>10, <1>11, <2>1 DEF Written
<1>13. /\ w \in Memory /\ w[x][n] = e
       /\ \A y \in Pages, k \in 0 .. FANOUT - 1 : ~(y = x /\ k = n) => w[y][k] = m[y][k]
  BY <1>9, <1>11 DEF Memory
<1>14. \A y \in t \cup {Root}, k \in 0 .. FANOUT - 1 : lev[y] > 0 => w[y][k] = m[y][k]
  <2>1. t \cup {Root} \subseteq Pages
    BY Constants
  <2>2. ~(lev[x] > 0)
    BY <1>3, <1>7
  <2> QED
    BY <1>13, <2>1, <2>2
<1>15. Tree(w, t, lev, cell)
  <2>1. \A y \in t \cup {Root}, k \in 0 .. FANOUT - 1 : lev[y] > 0 /\ IsLink(w[y][k]) =>
          /\ w[y][k].pa \in t /\ lev[w[y][k].pa] = lev[y] - 1
          /\ cell[w[y][k].pa] = FANOUT * cell[y] + k
    BY <1>6, <1>14 DEF Tree
  <2>2. \A y \in t : \E z \in t \cup {Root}, k \in 0 .. FANOUT - 1 :
          lev[z] > 0 /\ IsLink(w[z][k]) /\ w[z][k].pa = y
    BY <1>6, <1>14 DEF Tree
  <2> QED
    BY <1>6, <2>1, <2>2 DEF Tree
<1>16. Kept(m, w)
  BY <1>6, <1>14, LinksKept
<1>17. ASSUME NEW va \in VAs, va # v PROVE Translate(w, va) = Translate(m, va)
  <2>1. CASE ~va_is_canonical(va)
    BY <2>1 DEF Translate
  <2>2. CASE va_is_canonical(va)
    <3>0. PICK j \in Levels : \E g : Walk(m, va, j, g) /\ (j = 0 \/ ~IsLink(EntryOn(m, va, g, j)))
      BY <2>2, WalkToEnd
    <3>1. PICK g : Walk(m, va, j, g) /\ (j = 0 \/ ~IsLink(EntryOn(m, va, g, j)))
      BY <3>0
    <3>2. \A k \in j .. TOP :
            g[k] \in t \cup {Root} /\ lev[g[k]] = k /\ cell[g[k]] = Cell(va, k + 1)
      <4>1. Walk(m, va, j, g)
        BY <3>1
      <4> QED
        BY ONLY <1>6, <4>1, WalkLevels, m \in Memory, t \in SUBSET Pages, va \in VAs, j \in Levels
    <3>3. \A k \in j .. TOP : pageindex(va, k) \in 0 .. FANOUT - 1
      BY <3>1, WalkEntry
    <3>4. ASSUME NEW k \in j .. TOP PROVE ~(g[k] = x /\ pageindex(va, k) = n)
      <4> SUFFICES ASSUME g[k] = x, pageindex(va, k) = n PROVE FALSE
        OBVIOUS
      <4>1. k = 0
        BY <1>3, <1>7, <3>2
      <4>2. Cell(va, 1) = Cell(v, 1)
        BY <1>3, <1>7, <3>2, <4>1
      <4>3. pageindex(va, 0) = pageindex(v, 0)
        BY <1>3, <1>8, <4>1
      <4>4. PICK z \in 0 .. TOP : z = 0
        BY Constants
      <4>5. va \in Nat /\ v \in Nat
        BY Constants
      <4>6. Cell(va, z) = FANOUT * Cell(va, z + 1) + pageindex(va, z)
        BY <4>5, CellOf
      <4>7. Cell(v, z) = FANOUT * Cell(v, z + 1) + pageindex(v, z)
        BY <4>5, CellOf
      <4>8. Cell(va, 0) = Cell(v, 0)
        BY <4>2, <4>3, <4>4, <4>6, <4>7
      <4> QED
        BY <1>4, <1>17, <2>2, <4>8, CellUnique
    <3>5. ASSUME NEW k \in j .. TOP PROVE EntryOn(w, va, g, k) = EntryOn(m, va, g, k)
      BY <1>13, <3>2, <3>3, <3>4, Constants DEF EntryOn
    <3> QED
      BY <1>13, <3>1, <3>5, SameTranslation
  <2> QED
    BY <2>1, <2>2
<1>18. Translate(w, v) = IF "P" \in p THEN [pa |-> pa, perm |-> p] ELSE NoTranslation
  <2>1. Walk(w, v, l, f) /\ Granted(w, v, l, f) = i.perm
    BY <1>5, <1>16 DEF Kept
  <2>2. EntryOn(w, v, f, l) = e
    BY <1>7, <1>8, <1>13 DEF EntryOn
  <2>3. Translate(w, v) = IF va_is_canonical(v) /\ "P" \in e.perm
                            THEN [pa |-> e.pa + (v % Span[l]), perm |-> Allowed(w, v, l, f)]
                            ELSE NoTranslation
    BY <1>3, <1>13, <2>1, <2>2, TranslateIs
  <2>4. Allowed(w, v, l, f) = p
    <3>1. \A k \in l .. TOP : k = l \/ k \in l + 1 .. TOP
      BY <1>3, Constants
    <3>2. \A b \in p : b \in PWU /\ \A k \in l + 1 .. TOP : b \in EntryOn(w, v, f, k).perm
      BY <1>2, <2>1 DEF Granted
    <3>3. e.perm = p
      BY <1>10
    <3> QED
      BY <1>3, <2>2, <3>1, <3>2, <3>3 DEF Allowed
  <2>5. e.pa + (v % Span[l]) = pa
    <3>1. v % 1 = 0 /\ pa \in Int
      BY Constants DEF Pages
    <3> QED
      BY <1>3, <1>10, <3>1, SpanIs
  <2> QED
    BY <1>4, <1>10, <2>3, <2>4, <2>5
<1>19. IsTree(w, t)
  BY <1>15, Zenon DEF IsTree
<1> QED
  BY <1>1, <1>3, <1>12, <1>13, <1>16, <1>17, <1>18, <1>19

\* The page kalloc gives.
LowestFree(fr) == CHOOSE x \in fr : \A y \in fr : x <= y

\* kalloc gives a free page if there is one.
LEMMA LowestIn ==
    ASSUME NEW fr \in SUBSET Pages, fr # {}
    PROVE  LowestFree(fr) \in fr
<1>1. fr \in SUBSET Nat
  BY Constants DEF Pages
<1>2. \E x \in fr : \A y \in fr : x <= y
  BY <1>1, LeastNat
<1> QED
  BY <1>2 DEF LowestFree

\* One turn of try_map's loop.
GrownOnce(up) ==
    LET page == LowestFree(up.free)
        m == NewTable(up.mem, up.it.slot, page)
    IN [mem |-> m, free |-> up.free \ {page}, tables |-> up.tables \cup {page},
        it |-> down(m, up.it)]

\* What holds before the loop and is kept by each turn holds after it, and the loop is over then.
LEMMA GrowIs ==
    ASSUME NEW s, s.it.level \in Nat, NEW p, NEW G, s \in G,
           \A up \in G : up.it.level \in Nat,
           \A up \in G : ~(up.it.level = 0 \/ p = {} \/ up.free = {}) =>
             GrownOnce(up) \in G /\ GrownOnce(up).it.level = up.it.level - 1
    PROVE  LET r == Grow(s, p)
           IN  r \in G /\ (r.it.level = 0 \/ p = {} \/ r.free = {})
<1> DEFINE n == s.it.level
           Body(W) == [l \in 0 .. s.it.level |->
                        IF l = s.it.level THEN s
                        ELSE LET up == W[l + 1] IN
                             IF up.it.level = 0 \/ p = {} \/ up.free = {} THEN up
                             ELSE LET page == CHOOSE x \in up.free : \A y \in up.free : x <= y
                                      m == NewTable(up.mem, up.it.slot, page)
                                  IN [mem |-> m, free |-> up.free \ {page},
                                      tables |-> up.tables \cup {page}, it |-> down(m, up.it)]]
           Ends(up) == up.it.level = 0 \/ p = {} \/ up.free = {}
           step == [l \in 0 .. n |-> [up \in G |-> IF Ends(up) THEN up ELSE GrownOnce(up)]]
           D == CHOOSE W : W = Body(W)
<1>1. step \in [0 .. n -> [G -> G]]
  OBVIOUS
<1>2. ASSUME NEW W, NEW l \in 0 .. n, l # n
      PROVE  Body(W)[l] = IF Ends(W[l + 1]) THEN W[l + 1] ELSE GrownOnce(W[l + 1])
  BY <1>2 DEF GrownOnce, LowestFree
<1>3. \A W : Body(W)[n] = s /\ Body(W) = [l \in 0 .. n |-> Body(W)[l]]
  OBVIOUS
<1>4. Grow(s, p) = D[0]
  BY DEF Grow
<1>5. \A l \in 0 .. n, x \in G : step[l][x] = IF Ends(x) THEN x ELSE GrownOnce(x)
  OBVIOUS
<1>6. \A x \in G : (IF Ends(x) THEN x ELSE GrownOnce(x)) \in G
  OBVIOUS
<1>14. \A x \in G : /\ x.it.level \in Nat /\ (x.it.level = 0 => Ends(x))
                    /\ ~Ends(x) => GrownOnce(x).it.level = x.it.level - 1
  OBVIOUS
<1>15. \A x : Ends(x) <=> x.it.level = 0 \/ p = {} \/ x.free = {}
  OBVIOUS
<1> HIDE DEF Body, Ends, step
<1>7. PICK V \in [0 .. n -> G] : IsWalk(V, n, s, step)
  BY <1>1, WalkExists
<1>8. V = Body(V)
  <2>1. \A l \in 0 .. n : V[l] = Body(V)[l]
    <3> SUFFICES ASSUME NEW l \in 0 .. n PROVE V[l] = Body(V)[l]
      OBVIOUS
    <3>1. CASE l = n
      BY <1>3, <1>7, <3>1 DEF IsWalk
    <3>2. CASE l # n
      <4>1. V[l] = step[l][V[l + 1]] /\ V[l + 1] \in G
        BY <1>7, <3>2 DEF IsWalk
      <4> QED
        BY <1>2, <1>5, <3>2, <4>1
    <3> QED
      BY <3>1, <3>2
  <2>2. V = [l \in 0 .. n |-> V[l]]
    BY <1>7
  <2> QED
    BY <1>3, <2>1, <2>2
<1>9. D = Body(D)
  BY <1>8
<1> HIDE DEF D
<1>10. D[n] = s /\ \A l \in 0 .. n : l # n =>
         D[l] = IF Ends(D[l + 1]) THEN D[l + 1] ELSE GrownOnce(D[l + 1])
  BY <1>2, <1>3, <1>9
<1> DEFINE C == {l \in 0 .. n : D[l] \in G /\ (Ends(D[l]) \/ D[l].it.level <= l)}
<1>11. n \in C
  BY <1>10
<1>12. ASSUME NEW l \in 0 .. n - 1, l + 1 \in C PROVE l \in C
  <2>1. PICK x \in G : x = D[l + 1]
    BY <1>12
  <2>2. D[l] = IF Ends(x) THEN x ELSE GrownOnce(x)
    BY <1>10, <2>1
  <2>3. Ends(x) \/ x.it.level <= l + 1
    BY <1>12, <2>1
  <2>4. D[l] \in G
    BY <1>6, <2>2
  <2>5. Ends(D[l]) \/ D[l].it.level <= l
    <3>1. CASE Ends(x)
      BY <2>2, <3>1
    <3>2. CASE ~Ends(x)
      <4>1. D[l].it.level = x.it.level - 1 /\ x.it.level \in Nat /\ x.it.level <= l + 1
        BY <1>14, <2>2, <2>3, <3>2
      <4> QED
        BY <4>1
    <3> QED
      BY <3>1, <3>2
  <2> QED
    BY <2>4, <2>5
<1> HIDE DEF C
<1>13. 0 \in C
  BY <1>11, <1>12, Downwards
<1>16. D[0] \in G /\ (Ends(D[0]) \/ D[0].it.level <= 0)
  BY <1>13 DEF C
<1>17. Ends(D[0])
  <2>1. D[0].it.level \in Nat /\ (D[0].it.level = 0 => Ends(D[0]))
    BY <1>14, <1>16
  <2> QED
    BY <1>16, <2>1
<1> QED
  BY <1>4, <1>15, <1>16, <1>17

\* The state in the loop: the entry reached is of level 0 or not present.
Growing(s) == /\ Fine(s) /\ va_is_canonical(s.it.va)
              /\ s.it.level > 0 => "P" \notin Entry(s.mem, s.it.slot).perm
\* r comes after s without a change that can be seen.
Later(s, r) == /\ r.it.va = s.it.va /\ s.it.perm \cap PWU \subseteq r.it.perm
               /\ Kept(s.mem, r.mem)
               /\ \A va \in VAs : Translate(r.mem, va) = Translate(s.mem, va)

\* A turn of the loop links a cleared page and steps down to it.
LEMMA GrowOnceFine ==
    ASSUME NEW up, Growing(up), up.it.level # 0, up.free # {}
    PROVE  /\ Growing(GrownOnce(up)) /\ Later(up, GrownOnce(up))
           /\ GrownOnce(up).it.level = up.it.level - 1
<1>0. /\ up.mem \in Memory /\ up.tables \in SUBSET Pages /\ up.free \in SUBSET Pages
      /\ up.it \in Iters
  BY DEF Growing, Fine, MapStates
<1>1. PICK m \in Memory, t \in SUBSET Pages, fr \in SUBSET Pages, i \in Iters :
        m = up.mem /\ t = up.tables /\ fr = up.free /\ i = up.it
  BY <1>0
<1>2. On(m, i) /\ IsTree(m, t) /\ Sep(t, fr) /\ va_is_canonical(i.va)
  BY <1>1 DEF Growing, Fine
<1>3. PICK l \in Levels, v \in VAs : l = i.level /\ v = i.va
  BY DEF Iters
<1>4. l > 0 /\ l \in l .. TOP
  BY <1>1, <1>3, Constants DEF Levels
<1>5. PICK f : Walk(m, v, l, f) /\ i.slot = <<f[l], pageindex(v, l)>>
  BY <1>2, <1>3 DEF On
<1>6. PICK lev, cell : Tree(m, t, lev, cell)
  BY <1>2 DEF IsTree
<1>7. PICK x \in t \cup {Root} : x = f[l] /\ lev[x] = l
  <2>1. Walk(m, v, l, f) /\ l \in l .. TOP
    BY <1>4, <1>5
  <2>2. f[l] \in t \cup {Root} /\ lev[f[l]] = l
    BY ONLY <1>6, <2>1, WalkPage, m \in Memory, t \in SUBSET Pages, v \in VAs, l \in Levels
  <2> QED
    BY <2>2, Zenon
<1>8. PICK n \in 0 .. FANOUT - 1 : n = pageindex(v, l)
  BY <1>4, <1>5, WalkEntry
<1>9. i.slot = <<x, n>> /\ x \in Pages
  BY <1>5, <1>7, <1>8, Constants
<1>10. Entry(m, i.slot) = m[x][n]
  BY <1>9, RealSlot
<1>11. "P" \notin m[x][n].perm
  BY <1>1, <1>3, <1>4, <1>10 DEF Growing
<1>12. PICK page \in fr : page = LowestFree(fr)
  BY <1>1, LowestIn
<1>13. PICK w : w = NewTable(m, <<x, n>>, page)
  OBVIOUS
<1>14. /\ w \in Memory /\ Sep(t \cup {page}, fr \ {page}) /\ IsTree(w, t \cup {page})
       /\ Kept(m, w) /\ \A va \in VAs : Translate(w, va) = Translate(m, va)
  <2>1. lev[x] > 0
    BY <1>4, <1>7
  <2>2. OneMore(m, t, fr, page, NewTable(m, <<x, n>>, page))
    <3>1. Sep(t, fr) /\ Tree(m, t, lev, cell) /\ lev[x] > 0 /\ "P" \notin m[x][n].perm
      BY <1>2, <1>6, <1>11, <2>1
    <3> QED
      BY ONLY <3>1, NewTableTree, m \in Memory, x \in t \cup {Root},
         n \in 0 .. FANOUT - 1, page \in fr, SMTT(60)
  <2> QED
    BY <1>13, <2>2 DEF OneMore
<1>15. page \in Pages /\ page # x
  BY <1>2 DEF Sep
<1>16. w[x][n] = [pa |-> page, perm |-> PWU] /\ \A k \in 0 .. FANOUT - 1 : w[page][k] = NoEntry
  BY <1>9, <1>13, <1>15, NewTableIs
<1>17. Entry(w, i.slot) = [pa |-> page, perm |-> PWU]
  BY <1>9, <1>16, RealSlot
<1>18. IsLink(Entry(w, i.slot))
  BY <1>17 DEF IsLink, PWU
<1>19. On(w, i)
  BY <1>2, <1>14, KeptOn
<1>20. PICK j : j = Stepped(w, i)
  OBVIOUS
<1>21. j \in Iters /\ On(w, j) /\ j.va = v
  BY <1>3, <1>4, <1>14, <1>18, <1>19, <1>20, StepOn
<1>22. /\ j.level = l - 1 /\ j.perm = i.perm \cap PWU
       /\ j.slot = <<page, pageindex(v, l - 1)>>
  BY <1>3, <1>17, <1>20 DEF Stepped
<1>23. Entry(w, j.slot) = NoEntry
  <2>1. l - 1 \in 0 .. TOP /\ v \in Nat
    BY <1>4, Constants DEF Levels
  <2>2. pageindex(v, l - 1) \in 0 .. FANOUT - 1
    BY <2>1, RegionOf
  <2> QED
    BY <1>15, <1>16, <1>22, <2>2, RealSlot
<1>24. "P" \notin Entry(w, j.slot).perm /\ ~IsLink(Entry(w, j.slot))
  BY <1>23 DEF NoEntry, IsLink
<1>25. down(w, i) = j
  <2>1. i.level \in Nat /\ j.level \in Nat /\ i.level # 0
    BY <1>3, <1>4, <1>22, Constants DEF Levels
  <2>2. \A y \in {i, j} : /\ y.level \in Nat
                          /\ y.level > 0 /\ IsLink(Entry(w, y.slot)) => Stepped(w, y) \in {i, j}
    BY <1>20, <1>24, <2>1
  <2>3. PICK G : G = {i, j}
    OBVIOUS
  <2>4. down(w, i) \in G /\ (down(w, i).level = 0 \/ ~IsLink(Entry(w, down(w, i).slot)))
    BY <2>1, <2>2, <2>3, DownIs
  <2> QED
    BY <1>18, <2>1, <2>3, <2>4
<1>26. PICK g : g = GrownOnce(up)
  OBVIOUS
<1>27. g = [mem |-> w, free |-> fr \ {page}, tables |-> t \cup {page}, it |-> j]
  BY <1>1, <1>9, <1>12, <1>13, <1>25, <1>26 DEF GrownOnce
<1>28. g \in MapStates
  BY <1>14, <1>15, <1>21, <1>27 DEF MapStates
<1>29. g.mem = w /\ g.free = fr \ {page} /\ g.tables = t \cup {page} /\ g.it = j
  BY <1>27
<1>30. Fine(g)
  BY <1>14, <1>21, <1>28, <1>29 DEF Fine
<1>31. Growing(g)
  BY <1>2, <1>3, <1>21, <1>24, <1>29, <1>30 DEF Growing
<1>32. Later(up, g)
  <2>1. g.it.va = up.it.va /\ up.it.perm \cap PWU \subseteq g.it.perm
    BY <1>1, <1>3, <1>21, <1>22, <1>29
  <2> QED
    BY <1>1, <1>14, <1>29, <2>1 DEF Later
<1>33. g.it.level = up.it.level - 1
  BY <1>1, <1>3, <1>22, <1>29
<1> QED
  BY <1>26, <1>31, <1>32, <1>33

\* Later is transitive.
LEMMA LaterStill ==
    ASSUME NEW s, NEW r, NEW u, Later(s, r), Later(r, u)
    PROVE  Later(s, u)
<1>1. Kept(s.mem, u.mem)
  BY DEF Later, Kept
<1>2. s.it.perm \cap PWU \subseteq u.it.perm
  BY DEF Later
<1> QED
  BY <1>1, <1>2 DEF Later

\* The loop of try_map, which ends at level 0 unless nothing is to be mapped or kalloc fails.
LEMMA GrowFine ==
    ASSUME NEW s, Growing(s), NEW p
    PROVE  LET r == Grow(s, p)
           IN  Growing(r) /\ Later(s, r) /\ (r.it.level = 0 \/ p = {} \/ r.free = {})
<1>0. s \in MapStates /\ s.it.level \in Nat
  BY Constants DEF Growing, Fine, MapStates, Iters, Levels
<1> DEFINE G == {r \in MapStates : Growing(r) /\ Later(s, r)}
<1>1. s \in G
  BY <1>0 DEF Later, Kept
<1>2. ASSUME NEW r \in G, ~(r.it.level = 0 \/ p = {} \/ r.free = {})
      PROVE  GrownOnce(r) \in G /\ GrownOnce(r).it.level = r.it.level - 1
  <2>1. /\ Growing(GrownOnce(r)) /\ Later(r, GrownOnce(r))
        /\ GrownOnce(r).it.level = r.it.level - 1
    BY <1>2, GrowOnceFine
  <2>2. GrownOnce(r) \in MapStates
    BY <2>1 DEF Growing, Fine
  <2>3. Later(s, GrownOnce(r))
    BY <2>1, LaterStill
  <2> QED
    BY <2>1, <2>2, <2>3
<1>4. \A r \in G : r.it.level \in Nat
  BY Constants DEF MapStates, Iters, Levels
<1> HIDE DEF G
<1>5. PICK r : r = Grow(s, p)
  OBVIOUS
<1>3. r \in G /\ (r.it.level = 0 \/ p = {} \/ r.free = {})
  BY <1>0, <1>1, <1>2, <1>4, <1>5, GrowIs
<1> QED
  BY <1>3, <1>5 DEF G

\* try_map of the vmiter of a state.
MapFrom(s, pa, p) ==
    LET r == Grow(s, p)
    IN IF r.it.level = 0
         THEN [r EXCEPT !.mem[r.it.slot[1]][r.it.slot[2]] = [pa |-> pa, perm |-> p]]
         ELSE r

\* try_map keeps the tree and every walk, stands where the way ends if it did so before,
\* and changes the translation of its own address only, to what was asked for; it changes
\* nothing when kalloc has no page, or when no permissions are asked for above level 0.
LEMMA MapIs ==
    ASSUME NEW s, Fine(s), NEW pa \in DataPages, NEW p \in Perms,
           MapAllowed(s.mem, s.it, pa, p)
    PROVE  LET r == MapFrom(s, pa, p)
           IN  /\ Fine(r) /\ r.it.va = s.it.va /\ Kept(s.mem, r.mem)
               /\ Leaf(s.mem, s.it) => Leaf(r.mem, r.it)
               /\ \A va \in VAs : va # s.it.va => Translate(r.mem, va) = Translate(s.mem, va)
               /\ \/ Translate(r.mem, s.it.va) = Asked(pa, p)
                  \/ /\ Translate(r.mem, s.it.va) = Translate(s.mem, s.it.va)
                     /\ (p # {} /\ r.free = {}) \/ (p = {} /\ s.it.level # 0)
<1>0. /\ s \in MapStates /\ s.mem \in Memory /\ s.it \in Iters /\ s.it.level \in Nat
      /\ s.it.va \in VAs /\ On(s.mem, s.it)
  BY Constants DEF Fine, MapStates, Iters, Levels
<1>1. pa \in Pages /\ p \in SUBSET PWU
  BY VmAssumption DEF Pages, PWU
<1>2. p \subseteq s.it.perm
  BY <1>1 DEF MapAllowed
<1>3. PICK r : r = Grow(s, p)
  OBVIOUS
<1>4. /\ Fine(r) /\ r.it.va = s.it.va /\ p \subseteq r.it.perm /\ Kept(s.mem, r.mem)
      /\ \A va \in VAs : Translate(r.mem, va) = Translate(s.mem, va)
      /\ r.it.level # 0 /\ Leaf(s.mem, s.it) => Leaf(r.mem, r.it)
      /\ r.it.level # 0 => (p # {} /\ r.free = {}) \/ (p = {} /\ s.it.level # 0)
  <2>1. CASE p = {}
    <3>1. PICK G : G = {s}
      OBVIOUS
    <3>2. Grow(s, p) \in G
      <4>1. \A up \in G : up.it.level \in Nat
        BY <1>0, <3>1
      <4>2. \A up \in G : ~(up.it.level = 0 \/ p = {} \/ up.free = {}) =>
              GrownOnce(up) \in G /\ GrownOnce(up).it.level = up.it.level - 1
        BY <2>1
      <4> QED
        BY <1>0, <3>1, <4>1, <4>2, GrowIs
    <3>3. r = s
      BY <1>3, <3>1, <3>2
    <3>4. Kept(s.mem, s.mem)
      BY DEF Kept
    <3> QED
      BY <1>2, <2>1, <3>3, <3>4
  <2>2. CASE p # {}
    <3>1. va_is_canonical(s.it.va)
      BY <1>0, <1>2, <2>2 DEF On
    <3>2. Growing(s)
      BY <2>2, <3>1 DEF Growing, MapAllowed
    <3>3. Growing(r) /\ Later(s, r) /\ (r.it.level = 0 \/ p = {} \/ r.free = {})
      BY <1>3, <3>2, GrowFine
    <3>4. p \subseteq r.it.perm
      BY <1>1, <1>2, <3>3 DEF Later
    <3>5. r.it.level # 0 => Leaf(r.mem, r.it)
      <4>1. r.it.level \in Nat
        BY <3>3, Constants DEF Growing, Fine, MapStates, Iters, Levels
      <4>2. r.it.level # 0 => "P" \notin Entry(r.mem, r.it.slot).perm
        BY <3>3, <4>1 DEF Growing
      <4> QED
        BY <4>2 DEF Leaf, IsLink
    <3> QED
      BY <2>2, <3>3, <3>4, <3>5 DEF Later, Growing
  <2> QED
    BY <2>1, <2>2
<1>5. MapFrom(s, pa, p) = IF r.it.level = 0
        THEN [r EXCEPT !.mem[r.it.slot[1]][r.it.slot[2]] = [pa |-> pa, perm |-> p]]
        ELSE r
  BY <1>3 DEF MapFrom
<1>6. CASE r.it.level # 0
  <2>1. MapFrom(s, pa, p) = r
    BY <1>5, <1>6
  <2>2. Leaf(s.mem, s.it) => Leaf(r.mem, r.it)
    BY <1>4, <1>6
  <2>3. Translate(r.mem, s.it.va) = Translate(s.mem, s.it.va)
    BY <1>0, <1>4
  <2>4. (p # {} /\ r.free = {}) \/ (p = {} /\ s.it.level # 0)
    BY <1>4, <1>6
  <2>5. PICK u : u = MapFrom(s, pa, p)
    OBVIOUS
  <2>6. u = r
    BY <2>1, <2>5
  <2> QED
    BY <1>4, <2>2, <2>3, <2>4, <2>5, <2>6
<1>7. CASE r.it.level = 0
  <2>1. PICK w : w = Written(r, pa, p)
    OBVIOUS
  <2>2. /\ w \in Memory /\ IsTree(w, r.tables) /\ Kept(r.mem, w)
        /\ \A va \in VAs : va # r.it.va => Translate(w, va) = Translate(r.mem, va)
        /\ Translate(w, r.it.va) = IF "P" \in p THEN [pa |-> pa, perm |-> p] ELSE NoTranslation
    <3>1. Fine(r) /\ r.it.level = 0 /\ pa \in Pages /\ p \in SUBSET PWU /\ p \subseteq r.it.perm
      BY <1>1, <1>4, <1>7
    <3> QED
      BY ONLY <2>1, <3>1, WriteLeaf
  <2>3. r \in MapStates
    BY <1>4 DEF Fine
  <2>4. PICK u : u = MapFrom(s, pa, p)
    OBVIOUS
  <2>5. u = [r EXCEPT !.mem = w]
    BY <1>5, <1>7, <2>1, <2>3, <2>4 DEF MapStates, Written
  <2>6. /\ u \in MapStates
        /\ u.mem = w /\ u.free = r.free /\ u.tables = r.tables /\ u.it = r.it
    BY <2>2, <2>3, <2>5 DEF MapStates
  <2>7. On(w, r.it)
    BY <1>4, <2>2, <2>3, KeptOn DEF Fine, MapStates
  <2>8. Fine(u)
    BY <1>4, <2>2, <2>6, <2>7 DEF Fine
  <2>9. Leaf(u.mem, u.it)
    BY <1>7, <2>6 DEF Leaf
  <2>10. Kept(s.mem, w)
    BY <1>4, <2>2 DEF Kept
  <2>11. \A va \in VAs : va # s.it.va => Translate(w, va) = Translate(s.mem, va)
    BY <1>4, <2>2
  <2>12. Translate(w, s.it.va) = Asked(pa, p)
    BY <1>4, <2>2 DEF Asked
  <2> QED
    BY <1>4, <2>4, <2>6, <2>8, <2>9, <2>10, <2>11, <2>12
<1> QED
  BY <1>6, <1>7

-----------------------------------------------------------------------------
(* The pages that serve addresses.                                         *)

\* The page table page x is on the way to an address within the reach of the root, and to each
\* address of its cell.
LEMMA TreeReached ==
    ASSUME NEW m \in Memory, NEW t \in SUBSET Pages, NEW lev, NEW cell, Tree(m, t, lev, cell),
           NEW x \in t \cup {Root}
    PROVE  \E va \in 0 .. NoncanonEnd - 1 : \E f : Walk(m, va, lev[x], f) /\ f[lev[x]] = x
<1> DEFINE U == t \cup {Root}
           Covers(y, l) == /\ cell[y] * Span[l + 1] + Span[l + 1] <= NoncanonEnd
                           /\ \A va \in VAs : Cell(va, l + 1) = cell[y] =>
                                \E f : Walk(m, va, l, f) /\ f[l] = y
           C == {l \in 0 .. TOP : \A y \in U : lev[y] = l => Covers(y, l)}
<1>0. TOP \in Nat /\ Levels = 0 .. TOP /\ NoncanonEnd \in Nat \ {0} /\ FANOUT \in Nat \ {0}
  BY Constants, SpanIs DEF Levels, NoncanonEnd
<1>1. lev \in [U -> Levels] /\ cell \in [U -> Nat] /\ lev[Root] = TOP /\ cell[Root] = 0 /\ Root \in U
  BY DEF Tree
<1>2. \A y \in t : \E z \in U, n \in 0 .. FANOUT - 1 :
        lev[z] > 0 /\ IsLink(m[z][n]) /\ m[z][n].pa = y
  BY DEF Tree
<1>3. \A z \in U, n \in 0 .. FANOUT - 1 : lev[z] > 0 /\ IsLink(m[z][n]) =>
        lev[m[z][n].pa] = lev[z] - 1 /\ cell[m[z][n].pa] = FANOUT * cell[z] + n
  BY DEF Tree
<1>4. \A y \in U : y \in t \/ y = Root
  OBVIOUS
<1> HIDE DEF U
<1>5. TOP \in C
  <2>1. ASSUME NEW y \in U, lev[y] = TOP PROVE y = Root
    <3> SUFFICES ASSUME y # Root PROVE FALSE
      OBVIOUS
    <3>1. PICK z \in U, n \in 0 .. FANOUT - 1 : lev[z] > 0 /\ IsLink(m[z][n]) /\ m[z][n].pa = y
      BY <1>2, <1>4
    <3>2. lev[y] = lev[z] - 1 /\ lev[z] \in 0 .. TOP
      BY <1>0, <1>1, <1>3, <3>1
    <3> QED
      BY <1>0, <2>1, <3>2
  <2>2. Covers(Root, TOP)
    <3>1. 0 * Span[TOP + 1] + Span[TOP + 1] <= NoncanonEnd
      BY <1>0 DEF NoncanonEnd
    <3>2. ASSUME NEW va \in VAs PROVE \E f : Walk(m, va, TOP, f) /\ f[TOP] = Root
      <4>1. PICK f : Walk(m, va, TOP, f)
        BY WalkFromRoot
      <4> QED
        BY <4>1 DEF Walk
    <3> QED
      BY <1>1, <3>1, <3>2
  <2> HIDE DEF Covers
  <2> QED
    BY <1>0, <2>1, <2>2
<1>6. ASSUME NEW l \in 0 .. TOP - 1, l + 1 \in C PROVE l \in C
  <2>0. l \in 0 .. TOP /\ l + 1 \in 0 .. TOP /\ l + 1 \in Levels /\ l + 1 > 0 /\ (l + 1) - 1 = l
    BY <1>0
  <2> SUFFICES ASSUME NEW y \in U, lev[y] = l PROVE Covers(y, l)
    BY <2>0
  <2>1. y # Root
    BY <1>0, <1>1, <2>0
  <2>2. PICK z \in U, n \in 0 .. FANOUT - 1 : lev[z] > 0 /\ IsLink(m[z][n]) /\ m[z][n].pa = y
    BY <1>2, <1>4, <2>1
  <2>3. lev[z] \in 0 .. TOP /\ lev[y] = lev[z] - 1 /\ cell[y] = FANOUT * cell[z] + n
    BY <1>0, <1>1, <1>3, <2>2
  <2>4. lev[z] = l + 1
    BY <2>0, <2>3
  <2>5. Covers(z, l + 1)
    BY <1>6, <2>4
  <2>6. PICK s \in Nat \ {0} : s = Span[l + 1] /\ Span[(l + 1) + 1] = FANOUT * s
    <3>1. PICK j \in 0 .. TOP : j = l + 1
      BY <2>0
    <3>2. j \in 0 .. TOP + 1
      BY <1>0, <3>1
    <3>3. Span[j] \in Nat \ {0} /\ Span[j + 1] = FANOUT * Span[j]
      BY <3>2, SpanIs
    <3> QED
      BY <3>1, <3>3
  <2>7. PICK c \in Nat : c = cell[z]
    BY <1>1
  <2>8. cell[y] * s + s <= NoncanonEnd
    <3>1. c * (FANOUT * s) + FANOUT * s <= NoncanonEnd
      BY <2>5, <2>6, <2>7
    <3>2. (FANOUT * c + n) * s + s = c * (FANOUT * s) + (n + 1) * s
      BY <1>0
    <3>3. (n + 1) * s <= FANOUT * s
      BY <1>0
    <3>4. PICK a, b, d : a = (n + 1) * s /\ b = FANOUT * s /\ d = c * (FANOUT * s)
      OBVIOUS
    <3>5. a \in Int /\ b \in Int /\ d \in Int
      BY <1>0, <3>4
    <3>6. d + a <= NoncanonEnd
      BY <1>0, <3>1, <3>3, <3>4, <3>5
    <3> QED
      BY <2>3, <2>7, <3>2, <3>4, <3>6
  <2>9. ASSUME NEW va \in VAs, Cell(va, l + 1) = cell[y]
        PROVE  \E f : Walk(m, va, l, f) /\ f[l] = y
    <3>1. /\ Cell(va, (l + 1) + 1) \in Nat /\ va \in Nat
          /\ Cell(va, l + 1) = FANOUT * Cell(va, (l + 1) + 1) + pageindex(va, l + 1)
      BY <2>0, Constants, CellOf
    <3>2. pageindex(va, l + 1) \in 0 .. FANOUT - 1
      BY <2>0, <3>1, RegionOf
    <3>3. Cell(va, (l + 1) + 1) = c /\ pageindex(va, l + 1) = n
      <4>1. PICK a \in Int : a = cell[y]
        BY <1>1
      <4>2. a = FANOUT * c + n
        BY <2>3, <2>7, <4>1
      <4>3. PICK q \in Int, r \in 0 .. FANOUT - 1 :
              q = Cell(va, (l + 1) + 1) /\ r = pageindex(va, l + 1)
        BY <3>1, <3>2
      <4>4. a = FANOUT * q + r
        BY <2>9, <3>1, <4>1, <4>3
      <4>5. a \div FANOUT = c /\ a % FANOUT = n
        BY <1>0, <4>2, DivIs
      <4>6. a \div FANOUT = q /\ a % FANOUT = r
        BY ONLY <1>0, <4>4, DivIs, a \in Int, q \in Int, r \in 0 .. FANOUT - 1
      <4> QED
        BY <4>3, <4>5, <4>6
    <3>4. PICK f : Walk(m, va, l + 1, f) /\ f[l + 1] = z
      BY <2>5, <2>7, <3>3
    <3>5. EntryOn(m, va, f, l + 1) = m[z][n]
      BY <3>3, <3>4 DEF EntryOn
    <3>6. PICK g : Walk(m, va, (l + 1) - 1, g) /\ g[(l + 1) - 1] = m[z][n].pa
      BY <2>0, <2>2, <3>4, <3>5, WalkOn
    <3>7. Walk(m, va, l, g) /\ g[l] = y
      BY <2>0, <2>2, <3>6
    <3> QED
      BY <3>7, Zenon
  <2> QED
    BY <2>6, <2>8, <2>9
<1> HIDE DEF C
<1>7. \A l \in 0 .. TOP : l \in C
  BY <1>0, <1>5, <1>6, Downwards
<1>8. PICK l \in 0 .. TOP : l = lev[x]
  BY <1>0, <1>1 DEF U
<1>9. Covers(x, l)
  BY <1>7, <1>8 DEF C, U
<1>10. PICK s \in Nat \ {0} : s = Span[l + 1]
  BY <1>0, SpanIs
<1>11. PICK c \in Nat : c = cell[x]
  BY <1>1 DEF U
<1>12. PICK va : va = s * c
  OBVIOUS
<1>13. va \in 0 .. NoncanonEnd - 1
  <2>1. c * s + s <= NoncanonEnd /\ c * s = s * c /\ s * c \in Nat
    BY <1>9, <1>10, <1>11
  <2> QED
    BY <1>0, <1>12, <2>1
<1>14. va \in VAs
  <2>1. NVA \in Nat /\ NVA > NoncanonEnd
    BY VmAssumption DEF NoncanonEnd
  <2> QED
    BY <1>0, <1>13, <2>1 DEF VAs
<1>15. Cell(va, l + 1) = cell[x]
  <2>1. va % NoncanonEnd = va
    BY <1>0, <1>13, ModSmall
  <2>2. va = s * c + 0 /\ 0 \in 0 .. s - 1 /\ va \in Int
    BY <1>12, <1>13
  <2>3. va \div s = c
    <3>1. PICK z \in 0 .. s - 1 : z = 0
      BY <2>2
    <3>2. va = s * c + z
      BY <2>2, <3>1
    <3> QED
      BY <2>2, <3>2, DivIs
  <2> QED
    BY <1>10, <1>11, <2>1, <2>3 DEF Cell
<1>16. \E f : Walk(m, va, l, f) /\ f[l] = x
  BY <1>9, <1>14, <1>15
<1> QED
  BY <1>8, <1>13, <1>16

\* What the page table pages serve: page, level and cell.
Serves(m, va) == {<<Path(m, va)[l], l, va \div Span[l + 1]>> : l \in DOMAIN Path(m, va)}
Used(m) == UNION {Serves(m, va) : va \in 0 .. NoncanonEnd - 1}

\* Every page serves the one cell that is its own.
LEMMA UsedIs ==
    ASSUME NEW m \in Memory, NEW t \in SUBSET Pages, NEW lev, NEW cell, Tree(m, t, lev, cell)
    PROVE  Used(m) = {<<x, lev[x], cell[x]>> : x \in t \cup {Root}}
<1>0. TOP \in Nat /\ Levels = 0 .. TOP /\ NoncanonEnd \in Nat \ {0}
  BY Constants, SpanIs DEF Levels, NoncanonEnd
<1>1. NVA \in Nat /\ NVA > NoncanonEnd
  BY VmAssumption DEF NoncanonEnd
<1>2. \A va \in 0 .. NoncanonEnd - 1 : va \in VAs /\ va % NoncanonEnd = va
  <2> SUFFICES ASSUME NEW va \in 0 .. NoncanonEnd - 1 PROVE va \in VAs /\ va % NoncanonEnd = va
    OBVIOUS
  <2>1. va % NoncanonEnd = va
    BY <1>0, ModSmall
  <2>2. va \in VAs
    BY <1>0, <1>1 DEF VAs
  <2> QED
    BY <2>1, <2>2
<1>3. \A va \in 0 .. NoncanonEnd - 1, l \in 0 .. TOP : Cell(va, l + 1) = va \div Span[l + 1]
  BY <1>2 DEF Cell
<1>4. ASSUME NEW va \in 0 .. NoncanonEnd - 1, NEW l \in DOMAIN Path(m, va)
      PROVE  \E x \in t \cup {Root} :
               <<Path(m, va)[l], l, va \div Span[l + 1]>> = <<x, lev[x], cell[x]>>
  <2>0. va \in VAs
    BY <1>2
  <2>1. PICK j \in Levels : \E g : Walk(m, va, j, g) /\ (j = 0 \/ ~IsLink(EntryOn(m, va, g, j)))
    BY <2>0, WalkToEnd
  <2>2. PICK g : Walk(m, va, j, g) /\ (j = 0 \/ ~IsLink(EntryOn(m, va, g, j)))
    BY <2>1
  <2>3. Path(m, va) = g
    BY <2>0, <2>2, PathIs
  <2>4. DOMAIN g = j .. TOP
    BY <2>2 DEF Walk
  <2>5. l \in j .. TOP /\ l \in 0 .. TOP
    BY <1>0, <2>3, <2>4
  <2>6. g[l] \in t \cup {Root} /\ lev[g[l]] = l /\ cell[g[l]] = Cell(va, l + 1)
    <3>1. Walk(m, va, j, g)
      BY <2>2
    <3>2. \A k \in j .. TOP : g[k] \in t \cup {Root} /\ lev[g[k]] = k /\ cell[g[k]] = Cell(va, k + 1)
      BY ONLY <2>0, <3>1, WalkLevels, Tree(m, t, lev, cell), m \in Memory, t \in SUBSET Pages,
         j \in Levels
    <3> QED
      BY <2>5, <3>2, Zenon
  <2> QED
    BY <1>3, <2>3, <2>5, <2>6
<1>5. ASSUME NEW x \in t \cup {Root}
      PROVE  \E va \in 0 .. NoncanonEnd - 1 : \E l \in DOMAIN Path(m, va) :
               <<x, lev[x], cell[x]>> = <<Path(m, va)[l], l, va \div Span[l + 1]>>
  <2>1. PICK va \in 0 .. NoncanonEnd - 1 : \E f : Walk(m, va, lev[x], f) /\ f[lev[x]] = x
    BY TreeReached
  <2>2. PICK f : Walk(m, va, lev[x], f) /\ f[lev[x]] = x
    BY <2>1
  <2>3. lev[x] \in Levels
    BY DEF Tree
  <2>4. PICK l \in Levels : l = lev[x]
    BY <2>3
  <2>5. va \in VAs
    BY <1>2
  <2>6. Walk(m, va, l, f) /\ f[l] = x
    BY <2>2, <2>4
  <2>7. PICK j \in 0 .. l : \E g : /\ Walk(m, va, j, g) /\ (j = 0 \/ ~IsLink(EntryOn(m, va, g, j)))
                                   /\ \A k \in l .. TOP : g[k] = f[k]
    BY <2>5, <2>6, WalkFurther
  <2>8. PICK g : /\ Walk(m, va, j, g) /\ (j = 0 \/ ~IsLink(EntryOn(m, va, g, j)))
                 /\ \A k \in l .. TOP : g[k] = f[k]
    BY <2>7
  <2>9. j \in Levels /\ l \in j .. TOP /\ l \in l .. TOP /\ l \in 0 .. TOP
    BY <1>0
  <2>10. Path(m, va) = g
    BY <2>5, <2>8, <2>9, PathIs
  <2>11. DOMAIN g = j .. TOP
    BY <2>8 DEF Walk
  <2>12. g[l] = x
    BY <2>6, <2>8, <2>9
  <2>13. cell[x] = Cell(va, l + 1)
    <3>1. \A k \in l .. TOP : f[k] \in t \cup {Root} /\ lev[f[k]] = k /\ cell[f[k]] = Cell(va, k + 1)
      BY ONLY <2>5, <2>6, WalkLevels, Tree(m, t, lev, cell), m \in Memory, t \in SUBSET Pages,
         l \in Levels
    <3> QED
      BY <2>6, <2>9, <3>1
  <2> QED
    BY <1>3, <2>4, <2>9, <2>10, <2>11, <2>12, <2>13
<1>6. Used(m) \subseteq {<<x, lev[x], cell[x]>> : x \in t \cup {Root}}
  BY <1>4 DEF Used, Serves
<1>7. {<<x, lev[x], cell[x]>> : x \in t \cup {Root}} \subseteq Used(m)
  BY <1>5 DEF Used, Serves
<1> QED
  BY <1>6, <1>7

\* So they are as many as the pages.
LEMMA UsedCount ==
    ASSUME NEW m \in Memory, NEW t \in SUBSET Pages, Root \notin t, IsTree(m, t)
    PROVE  /\ {x[1] : x \in Used(m)} = t \cup {Root}
           /\ Cardinality(Used(m)) = Cardinality(t) + 1
<1>1. PICK lev, cell : Tree(m, t, lev, cell)
  BY DEF IsTree
<1> DEFINE U == t \cup {Root}
           F == [x \in U |-> <<x, lev[x], cell[x]>>]
<1>2. Used(m) = {<<x, lev[x], cell[x]>> : x \in U}
  BY <1>1, UsedIs
<1>3. {x[1] : x \in Used(m)} = U
  <2> DEFINE T(x) == <<x, lev[x], cell[x]>>
  <2>1. \A x \in U : T(x) \in Used(m) /\ T(x)[1] = x
    BY <1>2
  <2>2. \A z \in Used(m) : \E x \in U : z = T(x)
    BY <1>2
  <2> HIDE DEF T, U
  <2>3. \A z \in Used(m) : z[1] \in U
    BY <2>1, <2>2
  <2>4. \A x \in U : \E z \in Used(m) : x = z[1]
    BY <2>1
  <2> QED
    BY <2>3, <2>4
<1>4. IsFiniteSet(Pages)
  BY Constants, FS_Interval DEF Pages
<1>5. IsFiniteSet(t) /\ IsFiniteSet(U)
  BY <1>4, Constants, FS_Subset
<1>6. Cardinality(U) = Cardinality(t) + 1
  BY <1>5, FS_AddElement
<1>7. F \in Bijection(U, Used(m))
  <2>1. F \in [U -> Used(m)]
    BY <1>2
  <2>2. \A x, y \in U : F[x] = F[y] => x = y
    OBVIOUS
  <2>3. ASSUME NEW z \in Used(m) PROVE \E x \in U : F[x] = z
    <3>1. PICK x \in U : z = <<x, lev[x], cell[x]>>
      BY <1>2
    <3>2. F[x] = z
      BY <3>1
    <3> HIDE DEF F, U
    <3> QED
      BY <3>2
  <2> HIDE DEF F, U
  <2> QED
    BY <2>1, <2>2, <2>3 DEF Bijection, Injection, Surjection, IsInjective
<1>8. Cardinality(U) = Cardinality(Used(m))
  <2>1. ExistsBijection(U, Used(m))
    BY <1>7 DEF ExistsBijection
  <2> QED
    BY <1>5, <2>1, FS_Bijection
<1> QED
  BY <1>3, <1>6, <1>8

-----------------------------------------------------------------------------
(* The address after a region.                                             *)

\* The address space holds whole regions, more of them than one page of any level covers.
LEMMA WholeRegions ==
    ASSUME NEW l \in Levels
    PROVE  \E c \in Nat : c > 1 /\ NVA = Span[l] * (FANOUT * c)
<1>0. TOP \in Nat /\ l \in 0 .. TOP /\ l + 1 \in 0 .. TOP + 1 /\ FANOUT \in Nat \ {0}
  BY Constants DEF Levels
<1>1. PICK e \in Nat \ {0} : NoncanonEnd = Span[l + 1] * e
  BY <1>0, SpanDivides
<1>2. \E h, q \in Nat \ {0} :
        /\ FANOUT = 2 * h /\ LowEnd = Span[TOP] * h /\ NoncanonEnd = 2 * LowEnd
        /\ NVA = NoncanonEnd * q /\ q > 1
  BY Geometry
<1>3. PICK q \in Nat : NVA = NoncanonEnd * q /\ q > 1
  BY <1>2
<1>4. PICK s \in Nat \ {0} : s = Span[l]
  BY <1>0, SpanIs
<1>5. Span[l + 1] = FANOUT * s
  BY <1>0, <1>4, SpanIs
<1>6. ((FANOUT * s) * e) * q = s * (FANOUT * (e * q))
  BY <1>0
<1>7. e * q >= q /\ e * q \in Nat
  OBVIOUS
<1>8. NVA = Span[l] * (FANOUT * (e * q)) /\ e * q > 1
  BY <1>1, <1>3, <1>4, <1>5, <1>6, <1>7
<1> QED
  BY <1>7, <1>8

\* last_va is the start of the next region, or 0 after the last one.
LEMMA AfterIs ==
    ASSUME NEW va \in VAs, NEW l \in Levels
    PROVE  /\ va \div Span[l] \in Nat /\ After(va, l) \in VAs
           /\ va < Span[l] * (va \div Span[l] + 1) /\ Span[l] * (va \div Span[l] + 1) <= NVA
           /\ After(va, l) = IF Span[l] * (va \div Span[l] + 1) = NVA THEN 0
                             ELSE Span[l] * (va \div Span[l] + 1)
<1>0. va \in Nat /\ va < NVA /\ NVA \in Nat /\ l \in 0 .. TOP /\ TOP \in Nat
  BY Constants, VmAssumption DEF VAs, Levels
<1>1. PICK s \in Nat \ {0} : s = Span[l]
  BY <1>0, SpanIs
<1>2. PICK q \in Nat : q = va \div s
  BY <1>0, DivNat
<1>3. PICK r \in 0 .. s - 1 : va = s * q + r
  BY <1>0, <1>2, DivNat
<1>4. PICK k \in Nat : NVA = s * k
  <2>1. PICK c \in Nat : NVA = Span[l] * (FANOUT * c)
    BY WholeRegions
  <2>2. FANOUT * c \in Nat
    BY Constants
  <2> QED
    BY <1>1, <2>1, <2>2
<1>5. q < k
  <2>1. va < s * k <=> va \div s < k
    BY <1>0, DivBelow
  <2> QED
    BY <1>0, <1>2, <1>4, <2>1
<1>6. s * (q + 1) = s * q + s /\ s * q \in Nat
  OBVIOUS
<1>7. s * (q + 1) <= s * k
  BY <1>5
<1>8. PICK a \in Nat : a = s * (q + 1)
  BY <1>6
<1>9. va < a /\ a <= NVA
  BY <1>3, <1>4, <1>6, <1>7, <1>8
<1>10. (q + 1) * s = a
  BY <1>6, <1>8
<1>11. After(va, l) = a % NVA
  BY <1>1, <1>2, <1>10 DEF After
<1>12. NVA \in Nat \ {0}
  BY <1>0
<1>13. a % NVA = IF a = NVA THEN 0 ELSE a
  <2>1. CASE a = NVA
    <3>1. PICK z \in 0 .. NVA - 1 : z = 0
      BY <1>12
    <3>2. PICK o \in Int : o = 1
      OBVIOUS
    <3>3. a = NVA * o + z
      BY <2>1, <3>1, <3>2, <1>12
    <3>4. a % NVA = z
      BY <1>12, <3>3, DivIs
    <3> QED
      BY <2>1, <3>1, <3>4
  <2>2. CASE a # NVA
    <3>1. a \in 0 .. NVA - 1
      BY <1>9, <1>12, <2>2
    <3> QED
      BY <1>12, <2>2, <3>1, ModSmall
  <2> QED
    BY <2>1, <2>2
<1>14. After(va, l) \in VAs
  BY <1>9, <1>11, <1>12, <1>13 DEF VAs
<1> QED
  BY <1>1, <1>2, <1>8, <1>9, <1>11, <1>13, <1>14

\* Up to there all addresses are of one region.
LEMMA AfterRegion ==
    ASSUME NEW va \in VAs, NEW l \in Levels,
           NEW wa \in va + 1 .. (IF After(va, l) > va THEN After(va, l) ELSE NVA) - 1
    PROVE  wa \in VAs /\ SameRegion(wa, va, l)
<1>0. va \in Nat /\ NVA \in Nat /\ l \in 0 .. TOP /\ TOP \in Nat
  BY Constants, VmAssumption DEF Levels
<1>1. PICK s \in Nat \ {0} : s = Span[l]
  BY <1>0, SpanIs
<1>2. PICK q \in Nat : q = va \div s
  BY <1>0, DivNat
<1>3. PICK a \in Nat : a = s * (q + 1)
  OBVIOUS
<1>4. va < a /\ a <= NVA /\ After(va, l) = IF a = NVA THEN 0 ELSE a
  BY <1>1, <1>2, <1>3, AfterIs
<1>5. wa \in Nat /\ va < wa /\ wa < a /\ wa < NVA
  BY <1>0, <1>4
<1>6. wa \div s \in Nat
  BY <1>5, DivNat
<1>7. (wa < s * (q + 1) <=> wa \div s < q + 1) /\ (wa < s * q <=> wa \div s < q)
      /\ (va < s * q <=> va \div s < q)
  BY <1>0, <1>5, DivBelow
<1>8. s * q \in Nat
  OBVIOUS
<1>9. wa \div s = q
  BY <1>0, <1>2, <1>3, <1>5, <1>6, <1>7, <1>8
<1>10. wa \in VAs
  BY <1>0, <1>5 DEF VAs
<1> QED
  BY <1>1, <1>2, <1>9, <1>10 DEF SameRegion

\* In the same page table page, the next region has the next entry.
LEMMA AfterIndex ==
    ASSUME NEW va \in VAs, NEW l \in Levels, SameRegion(After(va, l), va, l + 1)
    PROVE  pageindex(After(va, l), l) = pageindex(va, l) + 1
<1>0. va \in Nat /\ NVA \in Nat /\ l \in 0 .. TOP /\ TOP \in Nat /\ FANOUT \in Nat \ {0}
  BY Constants, VmAssumption DEF Levels
<1>1. PICK s \in Nat \ {0} : s = Span[l]
  BY <1>0, SpanIs
<1>2. PICK q \in Nat : q = va \div s
  BY <1>0, DivNat
<1>3. PICK a \in Nat : a = After(va, l)
  BY AfterIs, Constants
<1>4. a = IF s * (q + 1) = NVA THEN 0 ELSE s * (q + 1)
  BY <1>1, <1>2, <1>3, AfterIs
<1>5. PICK d \in Nat : d = va \div Span[l + 1] /\ d = a \div Span[l + 1]
  <2>1. va \div Span[l + 1] \in Nat
    <3>1. l + 1 \in 0 .. TOP + 1
      BY <1>0
    <3>2. Span[l + 1] \in Nat \ {0}
      BY <3>1, SpanIs
    <3> QED
      BY <1>0, <3>2, DivNat
  <2> QED
    BY <1>3, <2>1 DEF SameRegion
<1>6. PICK n \in 0 .. FANOUT - 1 : n = pageindex(va, l) /\ q = FANOUT * d + n
  BY <1>0, <1>1, <1>2, <1>5, RegionOf
<1>7. PICK j \in 0 .. FANOUT - 1 : j = pageindex(a, l) /\ a \div s = FANOUT * d + j
  BY <1>0, <1>1, <1>5, RegionOf
<1>8. PICK f \in Nat : f = FANOUT * d
  BY <1>0
<1>9. CASE s * (q + 1) # NVA
  <2>1. PICK p \in Int : p = q + 1
    OBVIOUS
  <2>2. PICK z \in 0 .. s - 1 : z = 0
    OBVIOUS
  <2>3. a = s * p + z
    BY <1>4, <1>9, <2>1, <2>2
  <2>4. a \div s = p
    BY ONLY <2>3, DivIs, a \in Nat, s \in Nat \ {0}, p \in Int, z \in 0 .. s - 1
  <2> QED
    BY <1>3, <1>6, <1>7, <1>8, <2>1, <2>4
<1>10. CASE s * (q + 1) = NVA
  <2>1. a \div s = 0
    BY <1>4, <1>10
  <2>2. f + j = 0
    BY <1>7, <1>8, <2>1
  <2>3. f = 0 /\ q = n
    BY <1>6, <1>8, <2>2
  <2>4. PICK c \in Nat : c > 1 /\ NVA = s * (FANOUT * c)
    BY <1>1, WholeRegions
  <2>5. PICK g \in Nat : g = FANOUT * c
    BY <1>0
  <2>6. g > FANOUT
    <3>1. FANOUT * c >= FANOUT * 2
      BY <1>0, <2>4
    <3> QED
      BY <1>0, <2>5, <3>1
  <2>7. s * (q + 1) = s * g
    BY <1>10, <2>4, <2>5
  <2>8. q + 1 < g
    BY <1>0, <1>6, <2>3, <2>6
  <2>9. s * (q + 1) < s * g
    <3>1. PICK b \in Nat \ {0} : g = (q + 1) + b
      <4>1. g - (q + 1) \in Nat \ {0} /\ g = (q + 1) + (g - (q + 1))
        BY <2>8
      <4> QED
        BY <4>1
    <3>2. s * g = s * (q + 1) + s * b
      BY <3>1
    <3>3. s * b \in Nat \ {0} /\ s * (q + 1) \in Nat
      OBVIOUS
    <3> QED
      BY <3>2, <3>3
  <2>10. s * g \in Nat
    OBVIOUS
  <2> QED
    BY <2>7, <2>9, <2>10
<1> QED
  BY <1>9, <1>10

-----------------------------------------------------------------------------
(* The invariant.                                                          *)

\* What try_map and the iterators work on.
Table == [mem |-> mem, free |-> free, tables |-> tables, it |-> it]

\* While the table is in use it is a tree, the kept vmiter stands on the way to its address and,
\* if nobody has overtaken it, at the end of that way.
InUse == phase = "map" => Fine(Table) /\ (~overtaken => Leaf(mem, it))

\* The ptiter is at or above the level it stops at, and at the entry for its address.
Ptiters == [pc : {"off", "down", "at"}, level : Levels, slot : Slots, va : VAs,
            skip : BOOLEAN, stop : 1 .. TOP]
Visits ==
    /\ pti \in Ptiters
    /\ pti.pc # "off" => /\ pti.level >= pti.stop /\ pti.slot[1] \in Pages
                         /\ pti.slot[2] = pageindex(pti.va, pti.level)

Types == /\ mem \in Memory /\ free \in SUBSET Pages /\ tables \in SUBSET Pages /\ it \in Iters
         /\ overtaken \in BOOLEAN /\ phase \in {"map", "free", "done"}

Inv == Types /\ InUse /\ Visits

\* The fields of the table.
LEMMA TableIs ==
    /\ Table.mem = mem /\ Table.free = free /\ Table.tables = tables /\ Table.it = it
    /\ Types => Table \in MapStates
BY DEF Table, MapStates, Types

\* The boot's page table is a tree of three pages.
LEMMA InitInv == Init => Inv
<1> SUFFICES ASSUME Init PROVE Inv
  OBVIOUS
<1>0. /\ FANOUT \in Nat \ {0} /\ FANOUT >= 2 /\ TOP \in Nat /\ TOP >= 2 /\ NPAGES \in Nat
      /\ NPAGES > 3 /\ Pages = 0 .. NPAGES - 1
  BY Constants, VmAssumption DEF Pages
<1>1. PICK m : m = mem
  OBVIOUS
<1> DEFINE Cell0(x, n) ==
             CASE x = Root /\ n = 0 -> [pa |-> Second, perm |-> PWU]
               [] x = Second /\ n = 0 -> [pa |-> Third, perm |-> PWU]
               [] x = Second /\ n = 1 -> [pa |-> 0, perm |-> {"P", "W", "PS"}]
               [] x \notin {Root, Second, Third} -> [pa |-> 0, perm |-> {"P"}]
               [] OTHER -> NoEntry
<1>2. m = [x \in Pages |-> [n \in 0 .. FANOUT - 1 |-> Cell0(x, n)]]
  BY <1>1 DEF Init
<1>3. Root = 1 /\ Second = 2 /\ Third = 3
  BY DEF Root, Second, Third
<1>4. \A x \in Pages, n \in 0 .. FANOUT - 1 : Cell0(x, n) \in Entries
  <2> SUFFICES ASSUME NEW x \in Pages, NEW n \in 0 .. FANOUT - 1 PROVE Cell0(x, n) \in Entries
    OBVIOUS
  <2>1. /\ [pa |-> Second, perm |-> PWU] \in Entries /\ [pa |-> Third, perm |-> PWU] \in Entries
        /\ [pa |-> 0, perm |-> {"P", "W", "PS"}] \in Entries /\ [pa |-> 0, perm |-> {"P"}] \in Entries
        /\ NoEntry \in Entries
    BY Constants DEF Entries, NoEntry, Bits, PWU
  <2> QED
    BY <2>1
<1>5. /\ \A n \in 0 .. FANOUT - 1 : n # 0 => Cell0(Root, n) = NoEntry
      /\ Cell0(Root, 0) = [pa |-> Second, perm |-> PWU]
      /\ Cell0(Second, 0) = [pa |-> Third, perm |-> PWU]
      /\ Cell0(Second, 1) = [pa |-> 0, perm |-> {"P", "W", "PS"}]
      /\ \A n \in 0 .. FANOUT - 1 : n \notin {0, 1} => Cell0(Second, n) = NoEntry
      /\ \A n \in 0 .. FANOUT - 1 : Cell0(Third, n) = NoEntry
  BY <1>3
<1> HIDE DEF Cell0
<1>6. m \in Memory
  BY <1>2, <1>4 DEF Memory
<1>7. \A x \in Pages, n \in 0 .. FANOUT - 1 : m[x][n] = Cell0(x, n)
  BY <1>2
<1>8. /\ ~IsLink(NoEntry) /\ ~IsLink([pa |-> 0, perm |-> {"P", "W", "PS"}])
      /\ IsLink([pa |-> Second, perm |-> PWU]) /\ IsLink([pa |-> Third, perm |-> PWU])
  BY DEF IsLink, NoEntry, PWU
<1>9. Root \in Pages /\ Second \in Pages /\ Third \in Pages /\ 0 \in 0 .. FANOUT - 1
      /\ 1 \in 0 .. FANOUT - 1
  BY <1>0, <1>3
<1> DEFINE T == {Second, Third}
           U == T \cup {Root}
<1>10. \A x \in U, n \in 0 .. FANOUT - 1 : IsLink(m[x][n]) =>
         n = 0 /\ ((x = Root /\ m[x][n].pa = Second) \/ (x = Second /\ m[x][n].pa = Third))
  <2> SUFFICES ASSUME NEW x \in U, NEW n \in 0 .. FANOUT - 1, IsLink(m[x][n])
               PROVE  n = 0 /\ ((x = Root /\ m[x][n].pa = Second) \/ (x = Second /\ m[x][n].pa = Third))
    OBVIOUS
  <2>1. x \in Pages /\ m[x][n] = Cell0(x, n)
    BY <1>7, <1>9
  <2>2. CASE x = Root
    <3>1. CASE n = 0
      BY <1>5, <2>1, <2>2, <3>1
    <3>2. CASE n # 0
      BY <1>5, <1>8, <2>1, <2>2, <3>2
    <3> QED
      BY <3>1, <3>2
  <2>3. CASE x = Second
    BY <1>5, <1>8, <2>1, <2>3
  <2>4. CASE x = Third
    BY <1>5, <1>8, <2>1, <2>4
  <2> QED
    BY <2>2, <2>3, <2>4
<1>11. /\ IsLink(m[Root][0]) /\ m[Root][0].pa = Second
       /\ IsLink(m[Second][0]) /\ m[Second][0].pa = Third
  BY <1>5, <1>7, <1>8, <1>9
<1>12. IsTree(m, T)
  <2> DEFINE lev == [x \in U |-> IF x = Root THEN TOP ELSE IF x = Second THEN TOP - 1 ELSE TOP - 2]
             cell == [x \in U |-> 0]
  <2>1. TOP \in Levels /\ TOP - 1 \in Levels /\ TOP - 2 \in Levels
    BY <1>0 DEF Levels
  <2>2. lev \in [U -> Levels] /\ cell \in [U -> Nat]
    BY <2>1
  <2>3. /\ lev[Root] = TOP /\ lev[Second] = TOP - 1 /\ lev[Third] = TOP - 2
        /\ cell[Root] = 0 /\ cell[Second] = 0 /\ cell[Third] = 0
    BY <1>3
  <2>4. Second \in T /\ Third \in T /\ Root \in U /\ Second \in U
    OBVIOUS
  <2>5. \A x \in T : x = Second \/ x = Third
    OBVIOUS
  <2> HIDE DEF lev, cell, T
  <2>6. ASSUME NEW x \in U, NEW n \in 0 .. FANOUT - 1, lev[x] > 0, IsLink(m[x][n])
        PROVE  /\ m[x][n].pa \in T /\ lev[m[x][n].pa] = lev[x] - 1
               /\ cell[m[x][n].pa] = FANOUT * cell[x] + n
    <3>1. FANOUT * 0 + 0 = 0 /\ TOP - 1 - 1 = TOP - 2
      BY <1>0
    <3>2. n = 0 /\ ((x = Root /\ m[x][n].pa = Second) \/ (x = Second /\ m[x][n].pa = Third))
      BY <1>10, <2>6 DEF T
    <3> QED
      BY <2>3, <2>4, <3>1, <3>2
  <2>7. ASSUME NEW x \in T
        PROVE  \E y \in U, n \in 0 .. FANOUT - 1 : lev[y] > 0 /\ IsLink(m[y][n]) /\ m[y][n].pa = x
    <3>1. TOP > 0 /\ TOP - 1 > 0
      BY <1>0
    <3>2. CASE x = Second
      BY <1>9, <1>11, <2>3, <2>4, <3>1, <3>2
    <3>3. CASE x = Third
      BY <1>9, <1>11, <2>3, <2>4, <3>1, <3>3
    <3> QED
      BY <2>5, <3>2, <3>3
  <2>8. Tree(m, T, lev, cell)
    BY <2>2, <2>3, <2>6, <2>7 DEF Tree
  <2> QED
    BY <2>8, Zenon DEF IsTree
<1>13. /\ tables = T /\ free \in SUBSET (Pages \ ({0, Root, Second, Third} \cup DataPages))
       /\ it = vmiter(m, 0) /\ overtaken = FALSE /\ pti = NoPtiter /\ phase = "map"
  BY <1>1 DEF Init
<1>14. Sep(tables, free)
  <2>1. T \subseteq Pages /\ Root \notin T
    BY <1>3, <1>9
  <2>2. /\ free \subseteq Pages /\ Root \notin free /\ T \cap free = {}
        /\ DataPages \cap free = {}
    BY <1>13
  <2> QED
    BY <1>3, <1>13, <2>1, <2>2 DEF Sep
<1>15. 0 \in VAs
  <2>1. TOP + 1 \in 0 .. TOP + 1
    BY <1>0
  <2>2. Span[TOP + 1] \in Nat
    BY <2>1, SpanIs
  <2> QED
    BY <2>2, VmAssumption DEF VAs
<1>16. it \in Iters /\ On(m, it) /\ Leaf(m, it)
  BY <1>6, <1>13, <1>15, VmiterOn
<1>17. Types
  BY <1>1, <1>6, <1>9, <1>13, <1>16 DEF Types
<1>18. InUse
  <2>1. Fine(Table)
    BY <1>1, <1>12, <1>13, <1>14, <1>16, <1>17, TableIs DEF Fine
  <2> QED
    BY <1>1, <1>16, <2>1 DEF InUse
<1>19. Visits
  <2>1. NoPtiter \in Ptiters /\ NoPtiter.pc = "off"
    BY <1>0, <1>15 DEF NoPtiter, Ptiters, Levels, Slots
  <2> QED
    BY <1>13, <2>1 DEF Visits
<1> QED
  BY <1>17, <1>18, <1>19 DEF Inv

-----------------------------------------------------------------------------
(* The steps.                                                              *)

\* A vmiter that keeps its place has been overtaken before; but real_find ends where the way does.
LEMMA Repositioned ==
    ASSUME Inv, phase = "map", NEW va \in VAs, it' = real_find(mem, it, va),
           overtaken' \in BOOLEAN, UNCHANGED <<mem, free, tables, pti, phase>>
    PROVE  Inv'
<1>1. Types /\ Fine(Table) /\ Visits
  BY DEF Inv, InUse
<1>2. it' \in Iters /\ On(mem, it') /\ Leaf(mem, it')
  <2>1. mem \in Memory /\ it \in Iters /\ On(mem, it)
    BY <1>1, TableIs DEF Types, Fine
  <2> QED
    BY <2>1, FindOn
<1>3. Types'
  BY <1>1, <1>2 DEF Types
<1>4. Fine(Table')
  <2>1. Table' \in MapStates
    BY <1>3 DEF Table, MapStates, Types
  <2>2. /\ Table'.mem = mem /\ Table'.free = free /\ Table'.tables = tables /\ Table'.it = it'
    BY DEF Table
  <2> QED
    BY <1>1, <1>2, <2>1, <2>2, TableIs DEF Fine
<1>5. InUse'
  BY <1>2, <1>4 DEF InUse
<1>6. Visits'
  BY <1>1 DEF Visits
<1> QED
  BY <1>3, <1>5, <1>6 DEF Inv

\* next_va and last_va are addresses.
LEMMA NextIn ==
    ASSUME NEW i \in Iters
    PROVE  last_va(i) \in VAs /\ next_va(mem, i) \in VAs
<1>1. i.va \in VAs /\ i.level \in Levels /\ 0 \in Levels
  BY Constants DEF Iters, Levels
<1>2. After(i.va, i.level) \in VAs /\ After(i.va, 0) \in VAs
  BY <1>1, AfterIs
<1> QED
  BY <1>2 DEF last_va, next_va

\* Moving the kept vmiter.
LEMMA MoveInv ==
    ASSUME Inv, (\E va \in VAs : Find(va)) \/ next \/ next_range
    PROVE  Inv'
<1>1. Types
  BY DEF Inv
<1>2. overtaken \in BOOLEAN /\ it \in Iters
  BY <1>1 DEF Types
<1>3. CASE \E va \in VAs : Find(va)
  <2>1. PICK va \in VAs : Find(va)
    BY <1>3
  <2>2. /\ phase = "map" /\ it' = real_find(mem, it, va) /\ overtaken' \in BOOLEAN
        /\ UNCHANGED <<mem, free, tables, pti, phase>>
    BY <1>2, <2>1 DEF Find
  <2> QED
    BY <2>2, Repositioned
<1>4. CASE next
  <2>1. PICK va \in VAs : va = next_va(mem, it)
    BY <1>2, NextIn
  <2>2. /\ phase = "map" /\ it' = real_find(mem, it, va) /\ overtaken' \in BOOLEAN
        /\ UNCHANGED <<mem, free, tables, pti, phase>>
    BY <1>2, <1>4, <2>1 DEF next
  <2> QED
    BY <2>2, Repositioned
<1>5. CASE next_range
  <2>1. PICK va \in VAs : va = last_va(it)
    BY <1>2, NextIn
  <2>2. /\ phase = "map" /\ it' = real_find(mem, it, va) /\ overtaken' \in BOOLEAN
        /\ UNCHANGED <<mem, free, tables, pti, phase>>
    BY <1>2, <1>5, <2>1 DEF next_range
  <2> QED
    BY <2>2, Repositioned
<1> QED
  BY <1>3, <1>4, <1>5

\* Mapping through the kept vmiter.
LEMMA MapInv ==
    ASSUME Inv, NEW pa \in DataPages, NEW p \in Perms, TryMap(pa, p)
    PROVE  Inv'
<1>1. /\ phase = "map" /\ MapAllowed(mem, it, pa, p)
      /\ UNCHANGED <<overtaken, pti, phase>>
  BY DEF TryMap
<1>2. Types /\ Fine(Table) /\ Visits /\ (~overtaken => Leaf(mem, it))
  BY <1>1 DEF Inv, InUse
<1>3. PICK r : r = MapFrom(Table, pa, p)
  OBVIOUS
<1>4. try_map(it, pa, p) = r
  BY <1>3 DEF try_map, MapFrom, Table
<1>5. mem' = r.mem /\ free' = r.free /\ tables' = r.tables /\ it' = r.it
  BY <1>4 DEF TryMap
<1>6. PICK s : s = Table
  OBVIOUS
<1>7. s.mem = mem /\ s.it = it
  BY <1>6, TableIs
<1>8. Fine(r) /\ (Leaf(mem, it) => Leaf(r.mem, r.it))
  <2>1. Fine(s) /\ MapAllowed(s.mem, s.it, pa, p) /\ r = MapFrom(s, pa, p)
    BY <1>1, <1>2, <1>3, <1>6, <1>7
  <2> QED
    BY <1>7, <2>1, MapIs
<1>9. Table' = r
  <2>1. r \in MapStates
    BY <1>8 DEF Fine
  <2> QED
    BY <1>5, <2>1 DEF Table, MapStates
<1>10. Types'
  <2>1. r.mem \in Memory /\ r.free \in SUBSET Pages /\ r.tables \in SUBSET Pages /\ r.it \in Iters
    BY <1>8 DEF Fine, MapStates
  <2> QED
    BY <1>1, <1>2, <1>5, <2>1 DEF Types
<1>11. InUse'
  BY <1>1, <1>2, <1>5, <1>8, <1>9 DEF InUse
<1>12. Visits'
  BY <1>1, <1>2 DEF Visits
<1> QED
  BY <1>5, <1>8, <1>10, <1>11, <1>12 DEF Inv

\* Mapping through a vmiter of one's own: the kept one is overtaken, but still on its way.
LEMMA MapElsewhereInv ==
    ASSUME Inv, NEW wa \in VAs, NEW pa \in DataPages, NEW p \in Perms, TryMapElsewhere(wa, pa, p)
    PROVE  Inv'
<1>1. PICK i : i = vmiter(mem, wa)
  OBVIOUS
<1>2. /\ phase = "map" /\ MapAllowed(mem, i, pa, p) /\ overtaken' = TRUE
      /\ UNCHANGED <<it, pti, phase>>
  BY <1>1 DEF TryMapElsewhere
<1>3. Types /\ Fine(Table) /\ Visits
  BY <1>2 DEF Inv, InUse
<1>4. PICK s : s = [mem |-> mem, free |-> free, tables |-> tables, it |-> i]
  OBVIOUS
<1>5. s.mem = mem /\ s.free = free /\ s.tables = tables /\ s.it = i
  BY <1>4
<1>6. PICK r : r = MapFrom(s, pa, p)
  OBVIOUS
<1>7. mem' = r.mem /\ free' = r.free /\ tables' = r.tables
  <2>1. try_map(i, pa, p) = r
    BY <1>4, <1>6 DEF try_map, MapFrom
  <2> QED
    BY <1>1, <2>1 DEF TryMapElsewhere
<1>8. mem \in Memory /\ free \in SUBSET Pages /\ tables \in SUBSET Pages /\ it \in Iters
  BY <1>3 DEF Types
<1>9. i \in Iters /\ On(mem, i) /\ i.va = wa
  BY <1>1, <1>8, VmiterOn
<1>10. Fine(s)
  <2>1. s \in MapStates
    BY <1>4, <1>8, <1>9 DEF MapStates
  <2> QED
    BY <1>3, <1>5, <1>9, <2>1, TableIs DEF Fine
<1>11. Fine(r) /\ Kept(mem, r.mem)
  <2>1. MapAllowed(s.mem, s.it, pa, p)
    BY <1>2, <1>5
  <2> QED
    BY <1>5, <1>6, <1>9, <1>10, <2>1, MapIs
<1>12. On(r.mem, it)
  <2>1. On(mem, it)
    BY <1>3, TableIs DEF Fine
  <2> QED
    BY <1>8, <1>11, <2>1, KeptOn
<1>13. r.mem \in Memory /\ r.free \in SUBSET Pages /\ r.tables \in SUBSET Pages
  BY <1>11 DEF Fine, MapStates
<1>14. Types'
  BY <1>2, <1>3, <1>7, <1>13 DEF Types
<1>15. Fine(Table')
  <2>1. /\ Table'.mem = r.mem /\ Table'.free = r.free /\ Table'.tables = r.tables
        /\ Table'.it = it
    BY <1>2, <1>7 DEF Table
  <2>2. Table' \in MapStates
    BY <1>14 DEF Table, MapStates, Types
  <2> QED
    BY <1>11, <1>12, <2>1, <2>2 DEF Fine
<1>16. InUse'
  BY <1>2, <1>15 DEF InUse
<1>17. Visits'
  BY <1>2, <1>3 DEF Visits
<1> QED
  BY <1>7, <1>11, <1>14, <1>16, <1>17 DEF Inv

\* What is known of the ptiter where it stands.
LEMMA AtEntry ==
    ASSUME Inv, pti.pc # "off"
    PROVE  /\ pti.level \in Levels /\ pti.level >= pti.stop /\ pti.stop \in 1 .. TOP
           /\ pti.va \in VAs /\ pti.slot = <<pti.slot[1], pageindex(pti.va, pti.level)>>
           /\ pti.slot[1] \in Pages /\ Entry(mem, pti.slot) \in Entries
<1>1. /\ pti \in Ptiters /\ pti.level >= pti.stop /\ pti.slot[1] \in Pages
      /\ pti.slot[2] = pageindex(pti.va, pti.level) /\ mem \in Memory
  BY DEF Inv, Visits, Types
<1>2. PICK x : x = pti.slot[1]
  OBVIOUS
<1>3. pti.level \in Levels /\ pti.va \in VAs /\ pti.slot \in Slots /\ pti.stop \in 1 .. TOP
  BY <1>1 DEF Ptiters
<1>4. PICK n \in 0 .. FANOUT - 1 : n = pageindex(pti.va, pti.level)
  <2>1. pti.va \in Nat /\ pti.level \in 0 .. TOP
    BY <1>3, Constants DEF Levels
  <2> QED
    BY <2>1, RegionOf
<1>5. pti.slot = <<x, n>>
  BY <1>1, <1>2, <1>3, <1>4 DEF Slots, ZeroSlot
<1>6. Entry(mem, <<x, n>>) = mem[x][n]
  BY <1>1, <1>2, RealSlot
<1>7. mem[x][n] \in Entries
  BY <1>1, <1>2, <1>4 DEF Memory
<1> QED
  BY <1>1, <1>2, <1>3, <1>4, <1>5, <1>6, <1>7

\* A ptiter that goes on: at an entry for its address.
LEMMA PtiterAt ==
    ASSUME NEW l \in Levels, NEW x \in Pages, NEW va \in VAs, NEW stop \in 1 .. TOP, l >= stop,
           NEW pc \in {"down", "at"}, NEW skip \in BOOLEAN,
           pti' = [pc |-> pc, level |-> l, slot |-> <<x, pageindex(va, l)>>, va |-> va,
                   skip |-> skip, stop |-> stop]
    PROVE  Visits'
<1>1. pageindex(va, l) \in 0 .. FANOUT - 1
  <2>1. va \in Nat /\ l \in 0 .. TOP
    BY Constants DEF Levels
  <2> QED
    BY <2>1, RegionOf
<1>2. <<x, pageindex(va, l)>> \in Slots
  BY <1>1 DEF Slots
<1>3. pti' \in Ptiters
  BY <1>2 DEF Ptiters
<1> QED
  BY <1>3 DEF Visits

\* A ptiter that is at its end.
LEMMA PtiterOff ==
    ASSUME NEW va \in VAs, pti' = [NoPtiter EXCEPT !.va = va]
    PROVE  Visits'
<1>1. TOP \in Levels /\ 1 \in 1 .. TOP
  BY Constants DEF Levels
<1>2. NoPtiter = [pc |-> "off", level |-> TOP, slot |-> ZeroSlot, va |-> 0, skip |-> FALSE, stop |-> 1]
  BY DEF NoPtiter
<1>3. pti' = [pc |-> "off", level |-> TOP, slot |-> ZeroSlot, va |-> va, skip |-> FALSE, stop |-> 1]
  BY <1>2
<1>4. pti' \in Ptiters /\ pti'.pc = "off"
  <2>1. PICK slot \in Slots : slot = ZeroSlot
    BY DEF Slots
  <2>2. PICK stop \in 1 .. TOP : stop = 1
    BY <1>1
  <2>3. PICK pc \in {"off", "down", "at"}, skip \in BOOLEAN : pc = "off" /\ skip = FALSE
    OBVIOUS
  <2>4. pti' = [pc |-> pc, level |-> TOP, slot |-> slot, va |-> va, skip |-> skip, stop |-> stop]
    BY <1>3, <2>1, <2>2, <2>3
  <2> QED
    <3>1. PICK l \in Levels : l = TOP
      BY <1>1
    <3>2. PICK o : o = [pc |-> pc, level |-> l, slot |-> slot, va |-> va, skip |-> skip, stop |-> stop]
      OBVIOUS
    <3>3. o \in Ptiters
      BY <3>2 DEF Ptiters
    <3>4. o.pc = "off"
      BY <2>3, <3>2
    <3> QED
      BY <2>4, <3>1, <3>2, <3>3, <3>4
<1> QED
  BY <1>4 DEF Visits

\* Two addresses at the ends of the space.
LEMMA EndsIn == 0 \in VAs /\ NoncanonEnd \in VAs
<1>1. TOP + 1 \in 0 .. TOP + 1
  BY Constants
<1>2. Span[TOP + 1] \in Nat
  BY <1>1, SpanIs
<1> QED
  BY <1>2, VmAssumption DEF VAs, NoncanonEnd

\* The freeing loop starts at the root's first entry.
LEMMA GoInv ==
    ASSUME Inv, go
    PROVE  Inv'
<1>1. PICK z \in VAs : z = 0
  BY EndsIn
<1>2. PICK s \in 1 .. TOP : s = 1
  BY Constants
<1>3. pageindex(z, TOP) = 0
  <2>1. Span[TOP] \in Nat \ {0} /\ FANOUT \in Nat \ {0}
    <3>1. TOP \in 0 .. TOP + 1
      BY Constants
    <3> QED
      BY <3>1, SpanIs, Constants
  <2>2. PICK a \in Nat \ {0} : a = Span[TOP]
    BY <2>1
  <2>3. 0 \div a = 0 /\ 0 % FANOUT = 0
    BY <2>1
  <2> QED
    BY <1>1, <2>2, <2>3 DEF pageindex
<1>4. pti' = [pc |-> "down", level |-> TOP, slot |-> <<Root, pageindex(z, TOP)>>, va |-> z,
              skip |-> FALSE, stop |-> s]
  BY <1>1, <1>2, <1>3 DEF go, NoPtiter
<1>5. TOP \in Levels /\ TOP >= s /\ Root \in Pages
  BY <1>2, Constants DEF Levels
<1>6. Visits'
  BY <1>4, <1>5, PtiterAt
<1>7. Types' /\ phase' = "free"
  BY DEF go, Inv, Types
<1> QED
  BY <1>6, <1>7 DEF Inv, InUse

\* The region of level l that an address is in.
Region(a, l) == a \div Span[l]

\* A ptiter at the entry of page x for va.
AtPage(pc, l, x, va, skip, stop) ==
    [pc |-> pc, level |-> l, slot |-> <<x, pageindex(va, l)>>, va |-> va, skip |-> skip, stop |-> stop]

\* A turn of the loop of ptiter::down by a ptiter at page x: it stops, goes a level down, to the
\* next entry, comes to an end, or starts over from the root.
Turn(l, x, va, skip, stop) ==
    LET e == mem[x][pageindex(va, l)]
        link == IsLink(e) /\ ~skip
        last == Region(After(va, l), l + 1) # Region(va, l + 1)
    IN /\ l >= stop /\ pti = AtPage("down", l, x, va, skip, stop)
       /\ link /\ l = stop => pti' = AtPage("at", l, x, va, skip, stop)
       /\ link /\ l # stop => pti' = AtPage("down", l - 1, e.pa, va, skip, stop)
       /\ ~link /\ ~last => pti' = AtPage("down", l, x, After(va, l), FALSE, stop)
       /\ ~link /\ last /\ l = TOP => pti' = [NoPtiter EXCEPT !.va = NoncanonEnd]
       /\ ~link /\ last /\ l # TOP => pti' = AtPage("down", TOP, Root, va, FALSE, l + 1)
LEMMA PtDownIs ==
    ASSUME Inv, PtDown
    PROVE  \E l \in Levels, x \in Pages, va \in VAs, skip \in BOOLEAN, stop \in 1 .. TOP :
             Turn(l, x, va, skip, stop)
<1>1. pti.pc = "down"
  BY DEF PtDown
<1>2. PICK l \in Levels : l = pti.level
  BY <1>1, AtEntry
<1>3. PICK a \in VAs : a = pti.va
  BY <1>1, AtEntry
<1>4. PICK stop \in 1 .. TOP : stop = pti.stop /\ l >= stop
  BY <1>1, <1>2, AtEntry
<1>5. PICK x \in Pages : x = pti.slot[1]
  BY <1>1, AtEntry
<1>6. PICK e \in Entries : e = Entry(mem, pti.slot)
  BY <1>1, AtEntry
<1>7. PICK va \in VAs : va = After(a, l)
  BY AfterIs
<1>8. pti.slot = <<x, pageindex(a, l)>>
  BY <1>1, <1>2, <1>3, <1>5, AtEntry
<1>9. PICK skip \in BOOLEAN : skip = pti.skip
  BY DEF Inv, Visits, Ptiters
<1>10. pti = [pc |-> "down", level |-> l, slot |-> <<x, pageindex(a, l)>>, va |-> a,
              skip |-> skip, stop |-> stop]
  BY <1>1, <1>2, <1>3, <1>4, <1>8, <1>9 DEF Inv, Visits, Ptiters
<1>11. e = mem[x][pageindex(a, l)]
  BY <1>6, <1>8, RealSlot
<1>12. SameRegion(va, a, l + 1) <=> Region(va, l + 1) = Region(a, l + 1)
  BY DEF SameRegion, Region
<1>13. IsLink(e) /\ ~skip /\ l = stop => pti' = AtPage("at", l, x, a, skip, stop)
  BY <1>2, <1>4, <1>6, <1>9, <1>10 DEF PtDown, AtPage
<1>14. ASSUME IsLink(e) /\ ~skip /\ l # stop PROVE pti' = AtPage("down", l - 1, e.pa, a, skip, stop)
  <2>1. pti' = [pti EXCEPT !.level = @ - 1, !.slot = <<e.pa, pageindex(a, l - 1)>>]
    BY <1>2, <1>3, <1>4, <1>6, <1>9, <1>14 DEF PtDown
  <2> QED
    BY <1>10, <2>1 DEF AtPage
<1>15. ASSUME ~(IsLink(e) /\ ~skip) /\ SameRegion(va, a, l + 1)
       PROVE  pti' = AtPage("down", l, x, va, FALSE, stop)
  <2>1. pageindex(va, l) = pageindex(a, l) + 1
    BY <1>7, <1>15, AfterIndex
  <2>2. pti' = [pti EXCEPT !.slot = <<@[1], @[2] + 1>>, !.va = va, !.skip = FALSE]
    BY <1>2, <1>3, <1>6, <1>7, <1>9, <1>15 DEF PtDown, PtStays
  <2>3. pti' = [pc |-> "down", level |-> l, slot |-> <<x, pageindex(va, l)>>, va |-> va,
                skip |-> FALSE, stop |-> stop]
    BY <1>10, <2>1, <2>2
  <2> QED
    BY <2>3 DEF AtPage
<1>16. ~(IsLink(e) /\ ~skip) /\ ~SameRegion(va, a, l + 1) /\ l = TOP
         => pti' = [NoPtiter EXCEPT !.va = NoncanonEnd]
  BY <1>2, <1>3, <1>6, <1>7, <1>9 DEF PtDown, PtStays
<1>17. ASSUME ~(IsLink(e) /\ ~skip) /\ ~SameRegion(va, a, l + 1) /\ l # TOP
       PROVE  pti' = AtPage("down", TOP, Root, a, FALSE, l + 1)
  <2>1. pti' = PtUp
    BY <1>2, <1>3, <1>6, <1>7, <1>9, <1>17 DEF PtDown, PtStays
  <2> QED
    BY <1>10, <2>1 DEF PtUp, AtPage
<1>18. Turn(l, x, a, skip, stop)
  <2>1. pti = AtPage("down", l, x, a, skip, stop)
    BY <1>10 DEF AtPage
  <2> HIDE DEF AtPage
  <2> QED
    BY <1>4, <1>7, <1>11, <1>12, <1>13, <1>14, <1>15, <1>16, <1>17, <2>1, Zenon DEF Turn
<1> QED
  BY <1>18

LEMMA PtDownInv ==
    ASSUME Inv, PtDown
    PROVE  Inv'
<1>1. Types' /\ InUse' /\ mem \in Memory
  BY DEF PtDown, Inv, Types, InUse
<1>2. PICK l \in Levels, x \in Pages, va \in VAs, skip \in BOOLEAN, stop \in 1 .. TOP :
        Turn(l, x, va, skip, stop)
  BY PtDownIs
<1>3. TOP \in Nat /\ l \in 0 .. TOP /\ TOP \in Levels /\ Root \in Pages /\ va \in Nat /\ l >= stop
  BY <1>2, Constants DEF Levels, Turn
<1>4. PICK e \in Entries : e = mem[x][pageindex(va, l)]
  BY <1>1, <1>3, RegionOf DEF Memory
<1>5. PICK b \in VAs : b = After(va, l)
  BY AfterIs
<1>6. Visits'
  <2>1. CASE IsLink(e) /\ ~skip /\ l = stop
    BY <1>2, <1>3, <1>4, <2>1, PtiterAt DEF Turn, AtPage
  <2>2. CASE IsLink(e) /\ ~skip /\ l # stop
    <3>1. PICK k \in Levels : k = l - 1 /\ k >= stop
      BY <1>3, <2>2 DEF Levels
    <3>2. pti' = AtPage("down", k, e.pa, va, skip, stop)
      BY <1>2, <1>4, <2>2, <3>1 DEF Turn
    <3>3. e.pa \in Pages
      BY DEF Entries
    <3> QED
      BY <3>1, <3>2, <3>3, PtiterAt DEF AtPage
  <2>3. CASE ~(IsLink(e) /\ ~skip) /\ Region(b, l + 1) = Region(va, l + 1)
    <3>1. pti' = AtPage("down", l, x, b, FALSE, stop)
      BY <1>2, <1>4, <1>5, <2>3 DEF Turn
    <3> QED
      BY <1>3, <3>1, PtiterAt DEF AtPage
  <2>4. CASE ~(IsLink(e) /\ ~skip) /\ Region(b, l + 1) # Region(va, l + 1) /\ l = TOP
    <3>1. pti' = [NoPtiter EXCEPT !.va = NoncanonEnd]
      BY <1>2, <1>4, <1>5, <2>4 DEF Turn
    <3> QED
      BY <3>1, EndsIn, PtiterOff
  <2>5. CASE ~(IsLink(e) /\ ~skip) /\ Region(b, l + 1) # Region(va, l + 1) /\ l # TOP
    <3>1. PICK k \in 1 .. TOP : k = l + 1 /\ TOP >= k
      BY <1>3, <2>5
    <3>2. pti' = AtPage("down", TOP, Root, va, FALSE, k)
      BY <1>2, <1>4, <1>5, <2>5, <3>1 DEF Turn
    <3> QED
      BY <1>3, <3>1, <3>2, PtiterAt DEF AtPage
  <2> QED
    BY <2>1, <2>2, <2>3, <2>4, <2>5
<1> QED
  BY <1>1, <1>6 DEF Inv

\* Freeing the page table page that the ptiter is at.
LEMMA FreeTableInv ==
    ASSUME Inv, FreeTable
    PROVE  Inv'
<1>1. pti.pc = "at" /\ phase = "free" /\ phase' = "free" /\ Types
  BY DEF FreeTable, Inv
<1>2. PICK page \in Pages : page = Entry(mem, pti.slot).pa
  BY <1>1, AtEntry DEF Entries
<1>3. PICK blank : blank = [n \in 0 .. FANOUT - 1 |-> [pa |-> 0, perm |-> {"P"}]]
  OBVIOUS
<1>4. blank \in [0 .. FANOUT - 1 -> Entries]
  BY <1>3, Constants DEF Entries, Bits, PWU
<1>5. /\ mem' = [mem EXCEPT ![page] = blank]
      /\ free' = free \cup {page} /\ tables' = tables \ {page}
      /\ pti' = [pti EXCEPT !.pc = "down", !.skip = TRUE, !.stop = 1]
      /\ UNCHANGED <<it, overtaken, phase>>
  BY <1>2, <1>3 DEF FreeTable
<1>6. mem' \in Memory
  BY <1>1, <1>4, <1>5 DEF Types, Memory
<1>7. Types'
  BY <1>1, <1>5, <1>6 DEF Types
<1>8. Visits'
  <2>1. PICK l \in Levels : l = pti.level
    BY <1>1, AtEntry
  <2>2. PICK a \in VAs : a = pti.va
    BY <1>1, AtEntry
  <2>3. PICK x \in Pages : x = pti.slot[1]
    BY <1>1, AtEntry
  <2>4. pti.slot = <<x, pageindex(a, l)>> /\ l >= pti.stop /\ pti.stop \in 1 .. TOP
    BY <1>1, <2>1, <2>2, <2>3, AtEntry
  <2>5. PICK s \in 1 .. TOP : s = 1 /\ l >= s
    BY <2>4, Constants DEF Levels
  <2>6. pti' = [pc |-> "down", level |-> l, slot |-> <<x, pageindex(a, l)>>, va |-> a,
                skip |-> TRUE, stop |-> s]
    BY <1>5, <2>1, <2>2, <2>4, <2>5 DEF Inv, Visits, Ptiters
  <2> QED
    BY <2>5, <2>6, PtiterAt
<1> QED
  BY <1>1, <1>7, <1>8 DEF Inv, InUse

\* The end of the freeing loop.
LEMMA FreeEndInv ==
    ASSUME Inv, FreeEnd
    PROVE  Inv'
<1>1. PICK z \in VAs : z = 0
  BY EndsIn
<1>2. pti' = [NoPtiter EXCEPT !.va = z]
  <2>1. PICK pc, skip, stop :
          NoPtiter = [pc |-> pc, level |-> TOP, slot |-> ZeroSlot, va |-> z, skip |-> skip, stop |-> stop]
    BY <1>1 DEF NoPtiter
  <2>2. PICK o : o = NoPtiter
    OBVIOUS
  <2>3. [o EXCEPT !.va = z] = o
    BY <2>1, <2>2
  <2> QED
    BY <2>2, <2>3 DEF FreeEnd
<1>3. Visits'
  BY <1>2, PtiterOff
<1>4. Types' /\ phase' = "done"
  BY DEF FreeEnd, Inv, Types
<1> QED
  BY <1>3, <1>4 DEF Inv, InUse

\* Every step keeps the invariant.
LEMMA StepInv == Inv /\ [Next]_vars => Inv'
<1> SUFFICES ASSUME Inv, [Next]_vars PROVE Inv'
  OBVIOUS
<1>1. CASE UNCHANGED vars
  <2>1. Types' /\ Visits' /\ InUse' /\ Table' = Table
    BY <1>1 DEF vars, Inv, Types, Visits, InUse, Table
  <2> QED
    BY <2>1 DEF Inv
<1>2. CASE (\E va \in VAs : Find(va)) \/ next \/ next_range
  BY <1>2, MoveInv
<1>3. CASE \E pa \in DataPages, p \in Perms : TryMap(pa, p)
  BY <1>3, MapInv
<1>4. CASE \E va \in VAs, pa \in DataPages, p \in Perms : TryMapElsewhere(va, pa, p)
  BY <1>4, MapElsewhereInv
<1>5. CASE go \/ PtDown \/ FreeTable \/ FreeEnd
  BY <1>5, GoInv, PtDownInv, FreeTableInv, FreeEndInv
<1> QED
  BY <1>1, <1>2, <1>3, <1>4, <1>5 DEF Next

-----------------------------------------------------------------------------
(* The theorems.                                                           *)

\* The invariant holds in every reachable state.
LEMMA Invariance == Spec => []Inv
<1>1. Init => Inv
  BY InitInv
<1>2. Inv /\ [Next]_vars => Inv'
  BY StepInv
<1> QED
  BY <1>1, <1>2, PTL DEF Spec

\* The memory, the page sets, the vmiter, the ptiter and the phase have their types: whatever is
\* found, mapped and freed, real_find and ptiter::down point into pages of the machine.
THEOREM TypeCorrect == Spec => []TypeOK
<1>1. Inv => TypeOK
  BY DEF Inv, Types, Visits, Ptiters, Memory, Iters, TypeOK
<1> QED
  BY <1>1, Invariance, PTL

\* A vmiter that nobody has overtaken reports the translation that the hardware uses, after any
\* sequence of find, next, next_range and try_map: real_find keeps its place only where the way
\* to the new address leads through it.
THEOREM HardwareAgreement == Spec => []AgreesWithHardware
<1>1. ASSUME Inv PROVE AgreesWithHardware
  <2> SUFFICES ASSUME phase = "map", ~overtaken
               PROVE  /\ pa_of(mem, it) = Translate(mem, it.va).pa
                      /\ perm_of(mem, it) \cap PWU = Translate(mem, it.va).perm
    BY DEF AgreesWithHardware
  <2>1. mem \in Memory /\ it \in Iters /\ On(mem, it) /\ Leaf(mem, it)
    BY <1>1, TableIs DEF Inv, Types, InUse, Fine
  <2> QED
    BY <2>1, Agrees
<1> QED
  BY <1>1, Invariance, PTL

\* The page table is a tree of exactly the pages in use, the root and those that try_map took from
\* kalloc, also after a kalloc that failed half way down.
THEOREM TreeKept == Spec => []PageTableIsTree
<1>1. ASSUME Inv PROVE PageTableIsTree
  <2> SUFFICES ASSUME phase = "map" PROVE PageTableIsTree
    BY DEF PageTableIsTree
  <2>1. mem \in Memory /\ tables \in SUBSET Pages /\ Sep(tables, free) /\ IsTree(mem, tables)
    BY <1>1, TableIs DEF Inv, Types, InUse, Fine
  <2>2. Root \notin tables /\ tables \cap (free \cup {Root}) = {}
        /\ (tables \ {Second, Third}) \cap DataPages = {}
    BY <2>1 DEF Sep
  <2>3. /\ {x[1] : x \in Used(mem)} = tables \cup {Root}
        /\ Cardinality(Used(mem)) = Cardinality(tables) + 1
    BY <2>1, <2>2, UsedCount
  <2> QED
    BY <2>2, <2>3, Zenon DEF PageTableIsTree, Used, Serves
<1> QED
  BY <1>1, Invariance, PTL

\* A vmiter at the end of its way, above level 0, has an address without a level 0 table.
LEMMA LeafPath ==
    ASSUME NEW m \in Memory, NEW i \in Iters, On(m, i), Leaf(m, i), i.level # 0,
           va_is_canonical(i.va)
    PROVE  0 \notin DOMAIN Path(m, i.va)
<1>1. PICK l \in Levels, v \in VAs : l = i.level /\ v = i.va
  BY DEF Iters
<1>2. PICK f : Walk(m, v, l, f) /\ i.slot = <<f[l], pageindex(v, l)>>
  BY <1>1 DEF On
<1>3. l \in l .. TOP
  BY Constants DEF Levels
<1>4. f[l] \in Pages
  BY <1>2, <1>3, WalkEntry
<1>5. Entry(m, i.slot) = EntryOn(m, v, f, l)
  BY <1>2, <1>4, RealSlot DEF EntryOn
<1>6. ~IsLink(EntryOn(m, v, f, l))
  BY <1>1, <1>5 DEF Leaf
<1>7. Path(m, v) = f
  BY <1>2, <1>6, PathIs
<1>8. DOMAIN f = l .. TOP /\ 0 \notin l .. TOP
  BY <1>1, <1>2, Constants DEF Walk, Levels
<1> QED
  BY <1>1, <1>7, <1>8

\* try_map, whichever page table pages it adds, changes the translation of its own address only,
\* to what was asked for, and fails to do so only where kalloc does or nothing is to be mapped.
THEOREM OwnPageOnly == Spec => []MapsOnlyItsPage
<1>1. ASSUME Inv PROVE MapsOnlyItsPage
  <2> DEFINE Done(i, pa, p, r) ==
        \/ Translations(r.mem) = [Translations(mem) EXCEPT ![i.va] = Asked(pa, p)]
        \/ /\ Translations(r.mem) = Translations(mem)
           /\ \/ p # {} /\ r.free = {}
              \/ p = {} /\ (0 \notin DOMAIN Path(mem, i.va) \/ (i = it /\ overtaken))
  <2>1. ASSUME phase = "map", NEW i \in {it} \cup {vmiter(mem, va) : va \in VAs},
               NEW pa \in DataPages, NEW p \in Perms, MapAllowed(mem, i, pa, p),
               NEW r, r = try_map(i, pa, p)
        PROVE  Done(i, pa, p, r)
    <3>1. Types /\ Fine(Table) /\ (~overtaken => Leaf(mem, it))
      BY <1>1, <2>1 DEF Inv, InUse
    <3>2. mem \in Memory /\ free \in SUBSET Pages /\ tables \in SUBSET Pages /\ it \in Iters
      BY <3>1 DEF Types
    <3>3. On(mem, it)
      BY <3>1, TableIs DEF Fine
    <3>4. i \in Iters /\ On(mem, i) /\ ((i = it /\ overtaken) \/ Leaf(mem, i))
      <4>1. CASE i = it
        BY <3>1, <3>2, <3>3, <4>1
      <4>2. CASE \E va \in VAs : i = vmiter(mem, va)
        BY <3>2, <4>2, VmiterOn
      <4> QED
        BY <2>1, <4>1, <4>2
    <3>5. PICK s : s = [mem |-> mem, free |-> free, tables |-> tables, it |-> i]
      OBVIOUS
    <3>6. s.mem = mem /\ s.free = free /\ s.tables = tables /\ s.it = i
      BY <3>5
    <3>7. Fine(s)
      <4>1. s \in MapStates
        BY <3>2, <3>4, <3>5 DEF MapStates
      <4> QED
        BY <3>1, <3>4, <3>6, <4>1, TableIs DEF Fine
    <3>8. r = MapFrom(s, pa, p)
      BY <2>1, <3>5 DEF try_map, MapFrom
    <3>9. /\ \A va \in VAs : va # i.va => Translate(r.mem, va) = Translate(mem, va)
          /\ \/ Translate(r.mem, i.va) = Asked(pa, p)
             \/ /\ Translate(r.mem, i.va) = Translate(mem, i.va)
                /\ (p # {} /\ r.free = {}) \/ (p = {} /\ i.level # 0)
      <4>1. MapAllowed(s.mem, s.it, pa, p)
        BY <2>1, <3>6
      <4> QED
        BY <3>6, <3>7, <3>8, <4>1, MapIs
    <3>10. i.va \in VAs
      BY <3>4 DEF Iters
    <3>11. CASE Translate(r.mem, i.va) = Asked(pa, p)
      BY <3>9, <3>10, <3>11 DEF Translations
    <3>12. CASE Translate(r.mem, i.va) # Asked(pa, p)
      <4>1. Translations(r.mem) = Translations(mem)
        BY <3>9, <3>12 DEF Translations
      <4>2. CASE p # {} /\ r.free = {}
        BY <4>1, <4>2
      <4>3. CASE p = {} /\ i.level # 0
        <5>1. va_is_canonical(i.va)
          <6>1. Asked(pa, p) = NoTranslation
            BY <4>3 DEF Asked
          <6>2. ~va_is_canonical(i.va) => Translate(r.mem, i.va) = NoTranslation
            BY DEF Translate
          <6> QED
            BY <3>12, <6>1, <6>2
        <5>2. 0 \notin DOMAIN Path(mem, i.va) \/ (i = it /\ overtaken)
          BY <3>2, <3>4, <4>3, <5>1, LeafPath
        <5> QED
          BY <4>1, <4>3, <5>2
      <4> QED
        BY <3>9, <3>12, <4>2, <4>3
    <3> QED
      BY <3>11, <3>12
  <2> QED
    BY <2>1 DEF MapsOnlyItsPage
<1> QED
  BY <1>1, Invariance, PTL

\* Addresses in the region of the entry at the end of a way are translated alike.
LEMMA SamePerm ==
    ASSUME NEW m \in Memory, NEW i \in Iters, On(m, i), Leaf(m, i),
           NEW wa \in VAs, SameRegion(wa, i.va, i.level)
    PROVE  Translate(m, wa).perm = Translate(m, i.va).perm
<1>1. PICK l \in Levels : l = i.level
  BY DEF Iters
<1>2. PICK va \in VAs : va = i.va
  BY DEF Iters
<1>3. va \in Nat /\ wa \in Nat /\ l \in 0 .. TOP /\ SameRegion(wa, va, l)
  BY <1>1, <1>2, Constants DEF Levels
<1>4. va_is_canonical(wa) <=> va_is_canonical(va)
  BY <1>3, CanonRegion
<1>5. CASE va_is_canonical(va)
  <2>1. PICK f : Walk(m, va, l, f) /\ i.slot = <<f[l], pageindex(va, l)>>
    BY <1>1, <1>2, <1>5 DEF On
  <2>2. l \in l .. TOP
    BY <1>3
  <2>3. Entry(m, i.slot) = EntryOn(m, va, f, l)
    BY <2>1, <2>2, WalkEntry
  <2>4. \A k \in l .. TOP : pageindex(wa, k) = pageindex(va, k)
    BY <1>3, RegionIndex
  <2>5. \A k \in l .. TOP : EntryOn(m, wa, f, k) = EntryOn(m, va, f, k)
    BY <2>4 DEF EntryOn
  <2>6. Walk(m, wa, l, f)
    <3>1. \A k \in l + 1 .. TOP : pageindex(va, k) = pageindex(wa, k)
      BY <1>3, <2>4
    <3> QED
      BY <2>1, <3>1, WalkSame
  <2>7. l = 0 \/ ~IsLink(EntryOn(m, va, f, l))
    BY <1>1, <2>3 DEF Leaf
  <2>8. Allowed(m, wa, l, f) = Allowed(m, va, l, f)
    BY <2>5 DEF Allowed
  <2>9. PICK e : e = EntryOn(m, va, f, l) /\ e = EntryOn(m, wa, f, l)
    BY <2>2, <2>5
  <2>10. Translate(m, va) = IF va_is_canonical(va) /\ "P" \in e.perm
                              THEN [pa |-> e.pa + (va % Span[l]), perm |-> Allowed(m, va, l, f)]
                              ELSE NoTranslation
    BY <2>1, <2>7, <2>9, TranslateIs
  <2>11. Translate(m, wa) = IF va_is_canonical(wa) /\ "P" \in e.perm
                              THEN [pa |-> e.pa + (wa % Span[l]), perm |-> Allowed(m, wa, l, f)]
                              ELSE NoTranslation
    BY <2>6, <2>7, <2>9, TranslateIs
  <2> QED
    BY <1>2, <1>4, <2>8, <2>10, <2>11
<1>6. CASE ~va_is_canonical(va)
  BY <1>2, <1>4, <1>6 DEF Translate
<1> QED
  BY <1>5, <1>6

\* next() passes over no present page: where it skips a whole region, nothing in it is mapped.
THEOREM PassesNothing == Spec => NextSkipsNoPresent
<1> DEFINE Skips == next /\ ~overtaken =>
      \A va \in it.va + 1 .. (IF it'.va > it.va THEN it'.va ELSE NVA) - 1 :
        Translate(mem, va).perm = {}
<1>1. ASSUME Inv PROVE Skips
  <2> SUFFICES ASSUME next, ~overtaken,
                      NEW wa \in it.va + 1 .. (IF it'.va > it.va THEN it'.va ELSE NVA) - 1
               PROVE  Translate(mem, wa).perm = {}
    OBVIOUS
  <2>1. mem \in Memory /\ it \in Iters /\ On(mem, it) /\ Leaf(mem, it)
    BY <1>1, TableIs DEF next, Inv, Types, InUse, Fine
  <2>2. it.va \in VAs /\ it.level \in Levels /\ 0 \in Levels
    BY <2>1, Constants DEF Iters, Levels
  <2>3. PICK k \in Levels : k = IF it.level > 0 /\ perm_of(mem, it) = {} THEN it.level ELSE 0
    BY <2>2
  <2>4. it'.va = After(it.va, k)
    <3>1. next_va(mem, it) \in VAs /\ next_va(mem, it) = After(it.va, k)
      BY <2>1, <2>3, NextIn DEF next_va
    <3>2. it' = real_find(mem, it, next_va(mem, it))
      BY DEF next
    <3> QED
      BY <2>1, <3>1, <3>2, FindOn
  <2>5. wa \in VAs /\ SameRegion(wa, it.va, k)
    BY <2>2, <2>4, AfterRegion
  <2>6. CASE it.level > 0 /\ perm_of(mem, it) = {}
    <3>1. Translate(mem, wa).perm = Translate(mem, it.va).perm
      BY <2>1, <2>3, <2>5, <2>6, SamePerm
    <3>2. perm_of(mem, it) \cap PWU = Translate(mem, it.va).perm
      BY <2>1, Agrees
    <3> QED
      BY <2>6, <3>1, <3>2
  <2>7. CASE ~(it.level > 0 /\ perm_of(mem, it) = {})
    <3>1. wa \in Nat /\ it.va \in Nat /\ wa # it.va
      <4>1. PICK b \in Int : b = (IF it'.va > it.va THEN it'.va ELSE NVA) - 1
        <5>1. it'.va \in VAs
          BY <2>2, <2>3, <2>4, AfterIs
        <5>2. PICK a \in Nat : a = it'.va
          BY <5>1, Constants
        <5>3. NVA \in Nat
          BY VmAssumption
        <5>4. (IF a > it.va THEN a ELSE NVA) - 1 \in Int
          BY <5>3
        <5> QED
          BY <5>2, <5>4
      <4>2. wa \in it.va + 1 .. b /\ it.va \in Nat
        BY <2>2, <4>1, Constants
      <4> QED
        BY <4>2
    <3>2. wa \div 1 = it.va \div 1
      BY <2>3, <2>5, <2>7, SpanIs DEF SameRegion
    <3>3. wa \div 1 = wa /\ it.va \div 1 = it.va
      BY <3>1
    <3> QED
      BY <3>1, <3>2, <3>3
  <2> QED
    BY <2>6, <2>7
<1>2. Spec => [][Skips]_vars
  BY <1>1, Invariance, PTL DEF Spec
<1> QED
  BY <1>2 DEF NextSkipsNoPresent

-----------------------------------------------------------------------------
(* Ranges of addresses: low_perm.                                         *)

\* W starts with a at 0 and is continued upwards by step.
IsChain(W, n, a, step) == W = [k \in 0 .. n |-> IF k = 0 THEN a ELSE step[W[k - 1]]]

\* There is such a function.
LEMMA ChainExists ==
    ASSUME NEW n \in Nat, NEW S, NEW a \in S, NEW step \in [S -> S]
    PROVE  \E W \in [0 .. n -> S] : IsChain(W, n, a, step)
<1>1. PICK steps : steps = [l \in 0 .. n |-> step]
  OBVIOUS
<1>2. steps \in [0 .. n -> [S -> S]]
  BY <1>1
<1>3. PICK V \in [0 .. n -> S] : IsWalk(V, n, a, steps)
  BY <1>2, WalkExists
<1>4. \A l \in 0 .. n : V[l] = IF l = n THEN a ELSE step[V[l + 1]]
  BY <1>1, <1>3 DEF IsWalk
<1> DEFINE W == [k \in 0 .. n |-> V[n - k]]
<1>5. W \in [0 .. n -> S]
  BY <1>3
<1>6. ASSUME NEW k \in 0 .. n PROVE W[k] = IF k = 0 THEN a ELSE step[W[k - 1]]
  <2>1. PICK l \in 0 .. n : l = n - k
    OBVIOUS
  <2>2. W[k] = V[l] /\ V[l] = IF l = n THEN a ELSE step[V[l + 1]]
    BY <1>4, <2>1
  <2>3. k # 0 => W[k - 1] = V[l + 1]
    <3>1. k # 0 => k - 1 \in 0 .. n /\ n - (k - 1) = l + 1
      BY <2>1
    <3> QED
      BY <3>1
  <2> QED
    BY <2>1, <2>2, <2>3
<1>7. IsChain(W, n, a, step)
  BY <1>5, <1>6 DEF IsChain
<1> HIDE DEF W
<1> QED
  BY <1>5, <1>7, Zenon

\* Below the end of the root's reach the next region does not wrap.
LEMMA AfterLow ==
    ASSUME NEW va \in 0 .. NoncanonEnd - 1, NEW l \in Levels
    PROVE  /\ va \in VAs /\ va \div Span[l] \in Nat
           /\ After(va, l) = Span[l] * (va \div Span[l] + 1)
           /\ After(va, l) \in VAs /\ va < After(va, l) /\ After(va, l) <= NoncanonEnd
<1>0. NoncanonEnd \in VAs /\ NVA \in Nat /\ VAs \subseteq Nat /\ NoncanonEnd < NVA
  BY EndsIn, Constants, VmAssumption DEF VAs
<1>1. va \in VAs /\ va \in Nat
  BY <1>0 DEF VAs
<1>2. l \in 0 .. TOP + 1 /\ TOP \in Nat
  BY Constants DEF Levels
<1>3. PICK s \in Nat \ {0} : s = Span[l]
  BY <1>2, SpanIs
<1>4. PICK q \in Nat : q = va \div s
  BY <1>1, DivNat
<1>5. PICK e \in Nat \ {0} : NoncanonEnd = s * e
  BY <1>2, <1>3, SpanDivides
<1>6. q < e
  <2>1. va < s * e
    BY <1>0, <1>1, <1>5
  <2> QED
    BY <1>1, <1>4, <2>1, DivBelow
<1>7. PICK g \in Nat : e = (q + 1) + g
  <2>1. e - (q + 1) \in Nat /\ e = (q + 1) + (e - (q + 1))
    BY <1>6
  <2> QED
    BY <2>1
<1>8. PICK b \in Nat : b = s * (q + 1)
  OBVIOUS
<1>9. b <= NoncanonEnd
  <2>1. s * e = s * (q + 1) + s * g /\ s * g \in Nat
    BY <1>7
  <2> QED
    BY <1>0, <1>5, <1>8, <2>1
<1>10. va < b /\ After(va, l) = IF b = NVA THEN 0 ELSE b
  BY <1>1, <1>3, <1>4, <1>8, AfterIs
<1>11. After(va, l) = b
  BY <1>0, <1>9, <1>10
<1>12. After(va, l) \in VAs
  BY <1>1, AfterIs
<1> QED
  BY <1>1, <1>3, <1>4, <1>8, <1>9, <1>10, <1>11, <1>12

\* The low half ends within the reach of the root.
LEMMA LowEndIs == LowEnd \in Nat /\ NoncanonEnd = 2 * LowEnd /\ LowEnd <= NoncanonEnd
<1>1. PICK h, q \in Nat \ {0} : LowEnd = Span[TOP] * h /\ NoncanonEnd = 2 * LowEnd
  BY Geometry
<1>2. Span[TOP] \in Nat
  <2>1. TOP \in 0 .. TOP + 1
    BY Constants
  <2> QED
    BY <2>1, SpanIs
<1>3. PICK s \in Nat : s = Span[TOP]
  BY <1>2
<1>4. s * h \in Nat
  OBVIOUS
<1> QED
  BY <1>1, <1>3, <1>4

\* The vmiters of perm(last_va, p): one for each range from first up.
Ranges(m, first) ==
    LET I[n \in 0 .. LowEnd] == IF n = 0 THEN vmiter(m, first)
                                ELSE real_find(m, I[n - 1], last_va(I[n - 1]))
    IN I

\* Each is at the end of the way to the address where the one before ends.
LEMMA RangesIs ==
    ASSUME NEW m \in Memory, NEW first \in VAs
    PROVE  LET I == Ranges(m, first)
           IN  /\ \A n \in 0 .. LowEnd : I[n] \in Iters /\ On(m, I[n]) /\ Leaf(m, I[n])
               /\ I[0].va = first
               /\ \A n \in 0 .. LowEnd - 1 : I[n + 1].va = last_va(I[n])
<1>0. LowEnd \in Nat
  BY LowEndIs
<1> DEFINE S == {i \in Iters : On(m, i) /\ Leaf(m, i)}
           step == [i \in S |-> real_find(m, i, last_va(i))]
           Eq(W) == W = [n \in 0 .. LowEnd |-> IF n = 0 THEN vmiter(m, first)
                                               ELSE real_find(m, W[n - 1], last_va(W[n - 1]))]
<1>1. vmiter(m, first) \in S /\ vmiter(m, first).va = first
  BY VmiterOn
<1>2. ASSUME NEW i \in S
      PROVE  real_find(m, i, last_va(i)) \in S /\ real_find(m, i, last_va(i)).va = last_va(i)
  <2>1. i \in Iters /\ On(m, i) /\ last_va(i) \in VAs
    BY NextIn
  <2> QED
    BY <2>1, FindOn
<1>3. step \in [S -> S] /\ \A i \in S : step[i] = real_find(m, i, last_va(i))
  BY <1>2
<1> HIDE DEF step, S
<1>4. PICK W \in [0 .. LowEnd -> S] : IsChain(W, LowEnd, vmiter(m, first), step)
  <2>1. PICK n \in Nat, a \in S : n = LowEnd /\ a = vmiter(m, first)
    BY <1>0, <1>1
  <2>2. PICK t \in [S -> S] : t = step
    BY <1>3
  <2>3. \E W \in [0 .. n -> S] : IsChain(W, n, a, t)
    BY ONLY ChainExists, n \in Nat, a \in S, t \in [S -> S]
  <2> QED
    BY <2>1, <2>2, <2>3
<1>5. \A k \in 0 .. LowEnd : k # 0 => W[k - 1] \in S
  <2>1. \A k \in 0 .. LowEnd : k # 0 => k - 1 \in 0 .. LowEnd
    BY <1>0
  <2> QED
    BY <1>4, <2>1
<1>6. Eq(W)
  BY <1>3, <1>4, <1>5 DEF IsChain
<1>7. PICK I : I = Ranges(m, first)
  OBVIOUS
<1>8. I = CHOOSE f : Eq(f)
  BY <1>7 DEF Ranges
<1>9. Eq(I)
  <2> HIDE DEF Eq
  <2> QED
    BY <1>6, <1>8, Zenon
<1>10. I[0] = vmiter(m, first)
  BY <1>0, <1>9
<1>11. ASSUME NEW n \in 0 .. LowEnd - 1
       PROVE  I[n + 1] = real_find(m, I[n], last_va(I[n]))
  <2>1. n + 1 \in 0 .. LowEnd /\ n + 1 # 0 /\ (n + 1) - 1 = n
    BY <1>0
  <2> QED
    BY <1>9, <2>1
<1> HIDE DEF Eq
<1> DEFINE G == {n \in Nat : n <= LowEnd => I[n] \in S}
<1>12. 0 \in G
  BY <1>1, <1>10
<1>13. ASSUME NEW n \in G PROVE n + 1 \in G
  <2>1. n + 1 <= LowEnd => n \in 0 .. LowEnd - 1 /\ n <= LowEnd
    BY <1>0
  <2> QED
    BY <1>2, <1>11, <2>1
<1> HIDE DEF G
<1>14. \A n \in Nat : n \in G
  BY <1>12, <1>13, SetOfNaturals DEF G
<1>15. \A n \in 0 .. LowEnd : I[n] \in S
  BY <1>0, <1>14 DEF G
<1>16. \A n \in 0 .. LowEnd - 1 : I[n + 1].va = last_va(I[n])
  <2>1. \A n \in 0 .. LowEnd - 1 : n \in 0 .. LowEnd
    BY <1>0
  <2> QED
    BY <1>2, <1>11, <1>15, <2>1
<1> QED
  BY <1>1, <1>7, <1>10, <1>15, <1>16 DEF S

\* Until an address is passed, each range lies further up than the one before.
LEMMA RangesRise ==
    ASSUME NEW m \in Memory, NEW first \in 0 .. LowEnd, NEW top \in 0 .. LowEnd
    PROVE  LET I == Ranges(m, first)
           IN  \A n \in 0 .. LowEnd : (\A k \in 0 .. n : I[k].va < top) => I[n].va >= first + n
<1>0. LowEnd \in Nat /\ NoncanonEnd = 2 * LowEnd /\ 0 .. LowEnd \subseteq VAs
  <2>1. LowEnd \in Nat /\ NoncanonEnd = 2 * LowEnd
    BY LowEndIs
  <2>2. NoncanonEnd \in VAs
    BY EndsIn
  <2> QED
    BY <2>1, <2>2, VmAssumption DEF VAs
<1>1. PICK I : I = Ranges(m, first)
  OBVIOUS
<1>2. first \in VAs /\ first \in Nat
  BY <1>0
<1>3. /\ \A n \in 0 .. LowEnd : I[n] \in Iters
      /\ I[0].va = first
      /\ \A n \in 0 .. LowEnd - 1 : I[n + 1].va = last_va(I[n])
  BY <1>1, <1>2, RangesIs
<1> DEFINE Below(n) == \A k \in 0 .. n : I[k].va < top
           G == {n \in Nat : n <= LowEnd /\ Below(n) => I[n].va >= first + n}
<1>4. 0 \in G
  BY <1>2, <1>3
<1>5. ASSUME NEW n \in G PROVE n + 1 \in G
  <2> SUFFICES ASSUME n + 1 <= LowEnd, Below(n + 1) PROVE I[n + 1].va >= first + (n + 1)
    OBVIOUS
  <2>1. n \in 0 .. LowEnd - 1 /\ n \in 0 .. LowEnd /\ n <= LowEnd /\ n \in 0 .. n + 1
    BY <1>0
  <2>2. Below(n) /\ I[n].va < top
    BY <2>1
  <2> HIDE DEF Below
  <2>3. I[n].va >= first + n
    BY <2>1, <2>2
  <2>4. PICK v \in VAs, l \in Levels : v = I[n].va /\ l = I[n].level
    BY <1>3, <2>1 DEF Iters
  <2>5. v \in Nat /\ v < NoncanonEnd /\ v \in 0 .. NoncanonEnd - 1
    BY <1>0, <2>2, <2>4, Constants
  <2>6. After(v, l) \in VAs /\ v < After(v, l)
    BY <2>5, AfterLow
  <2>7. I[n + 1].va = After(v, l)
    BY <1>3, <2>1, <2>4 DEF last_va
  <2>8. PICK w \in Nat : w = I[n + 1].va
    BY <2>6, <2>7, Constants
  <2> QED
    BY <1>2, <2>3, <2>4, <2>5, <2>6, <2>7, <2>8
<1> HIDE DEF G
<1>6. \A n \in Nat : n \in G
  BY <1>4, <1>5, SetOfNaturals DEF G
<1> QED
  BY <1>0, <1>1, <1>6 DEF G

\* What a vmiter at the end of its way grants, for permissions that include P.
LEMMA GrantsAll ==
    ASSUME NEW m \in Memory, NEW i \in Iters, On(m, i), Leaf(m, i),
           NEW p \in SUBSET PWU, "P" \in p
    PROVE  p \subseteq Entry(m, i.slot).perm \cap i.perm <=> p \subseteq Translate(m, i.va).perm
<1>1. perm_of(m, i) \cap PWU = Translate(m, i.va).perm
  BY Agrees
<1>2. perm_of(m, i) = IF "P" \in Entry(m, i.slot).perm THEN Entry(m, i.slot).perm \cap i.perm ELSE {}
  BY DEF perm_of
<1> QED
  BY <1>1, <1>2

\* Every address up to the last is in one of the ranges that are looked at.
LEMMA RangesCover ==
    ASSUME NEW m \in Memory, NEW first \in 0 .. LowEnd, NEW last \in 0 .. LowEnd,
           NEW wa \in first .. last - 1
    PROVE  LET I == Ranges(m, first)
           IN  \E n \in 0 .. LowEnd : /\ \A k \in 0 .. n : I[k].va < last
                                      /\ wa \in VAs /\ SameRegion(wa, I[n].va, I[n].level)
<1>0. LowEnd \in Nat /\ NoncanonEnd = 2 * LowEnd /\ 0 .. LowEnd \subseteq VAs
  <2>1. LowEnd \in Nat /\ NoncanonEnd = 2 * LowEnd
    BY LowEndIs
  <2>2. NoncanonEnd \in VAs
    BY EndsIn
  <2> QED
    BY <2>1, <2>2, VmAssumption DEF VAs
<1>1. PICK I : I = Ranges(m, first)
  OBVIOUS
<1>2. first \in VAs /\ first \in Nat /\ wa \in Nat /\ wa \in VAs /\ last \in Nat /\ wa < last
      /\ first <= wa /\ wa + 1 \in 0 .. LowEnd
  BY <1>0
<1>3. /\ \A n \in 0 .. LowEnd : I[n] \in Iters
      /\ I[0].va = first
      /\ \A n \in 0 .. LowEnd - 1 : I[n + 1].va = last_va(I[n])
  BY <1>1, <1>2, RangesIs
<1>4. \A n \in 0 .. LowEnd : I[n].va \in Nat
  <2>1. \A n \in 0 .. LowEnd : I[n].va \in VAs
    BY <1>3 DEF Iters
  <2> QED
    BY <2>1, Constants
<1> DEFINE G == {n \in 0 .. LowEnd : \A k \in 0 .. n : I[k].va <= wa}
<1>5. 0 \in G
  BY <1>0, <1>2, <1>3
<1>6. LowEnd \notin G
  <2> SUFFICES ASSUME LowEnd \in G PROVE FALSE
    OBVIOUS
  <2>1. \A k \in 0 .. LowEnd : I[k].va < wa + 1
    BY <1>2, <1>4
  <2>2. LowEnd \in 0 .. LowEnd
    BY <1>0
  <2>3. PICK top \in 0 .. LowEnd : top = wa + 1
    BY <1>2
  <2>4. I[LowEnd].va >= first + LowEnd
    BY <1>1, <2>1, <2>2, <2>3, RangesRise
  <2> QED
    BY <1>0, <1>2, <1>4, <2>1, <2>2, <2>4
<1>7. PICK n \in G : n + 1 \notin G
  <2> SUFFICES ASSUME \A n \in G : n + 1 \in G PROVE FALSE
    OBVIOUS
  <2>1. G \in SUBSET Nat
    BY <1>0
  <2> HIDE DEF G
  <2>2. \A n \in Nat : n \in G
    BY <1>5, <2>1, SetOfNaturals
  <2> QED
    BY <1>0, <1>6, <2>2
<1>8. n \in 0 .. LowEnd /\ n # LowEnd /\ n \in 0 .. LowEnd - 1 /\ n + 1 \in 0 .. LowEnd
      /\ n \in 0 .. n
  BY <1>0, <1>6, <1>7
<1>9. (\A k \in 0 .. n : I[k].va <= wa) /\ I[n].va <= wa
  BY <1>7, <1>8
<1>10. ~(I[n + 1].va <= wa)
  <2>1. \A k \in 0 .. n + 1 : k = n + 1 \/ k \in 0 .. n
    BY <1>8
  <2> QED
    BY <1>7, <1>8, <1>9, <2>1
<1>11. PICK v \in VAs, l \in Levels : v = I[n].va /\ l = I[n].level
  BY <1>3, <1>8 DEF Iters
<1>12. v \in Nat /\ v <= wa /\ v \in 0 .. NoncanonEnd - 1
  BY <1>0, <1>2, <1>9, <1>11, Constants
<1>13. PICK b \in Nat : b = After(v, l) /\ v < b /\ wa < b
  <2>1. After(v, l) \in VAs /\ v < After(v, l)
    BY <1>12, AfterLow
  <2>2. I[n + 1].va = After(v, l)
    BY <1>3, <1>8, <1>11 DEF last_va
  <2>3. After(v, l) \in Nat
    BY <2>1, Constants
  <2> QED
    BY <1>2, <1>10, <2>1, <2>2, <2>3
<1>14. SameRegion(wa, v, l)
  <2>1. CASE wa = v
    BY <2>1 DEF SameRegion
  <2>2. CASE wa # v
    <3>1. wa \in v + 1 .. (IF After(v, l) > v THEN After(v, l) ELSE NVA) - 1
      BY <1>2, <1>12, <1>13, <2>2
    <3> QED
      BY <3>1, AfterRegion
  <2> QED
    BY <2>1, <2>2
<1>15. \A k \in 0 .. n : I[k].va < last
  <2>1. \A k \in 0 .. n : I[k].va \in Nat
    BY <1>0, <1>4, <1>8
  <2> QED
    BY <1>2, <1>9, <2>1
<1> QED
  BY <1>1, <1>2, <1>8, <1>11, <1>14, <1>15

\* low_perm answers for every address of the range.
LEMMA LowPermIs ==
    ASSUME NEW m \in Memory, NEW p \in SUBSET PWU, "P" \in p, NEW first \in 0 .. LowEnd,
           NEW last \in VAs
    PROVE  low_perm(m, first, last, p)
             <=> /\ first <= last /\ last <= LowEnd
                 /\ \A va \in first .. last - 1 : p \subseteq Translate(m, va).perm
<1>0. LowEnd \in Nat /\ VAs \subseteq Nat
  BY LowEndIs, Constants
<1>1. PICK I : I = Ranges(m, first)
  OBVIOUS
<1>2. low_perm(m, first, last, p) <=>
        /\ first <= last /\ last <= LowEnd
        /\ \A n \in 0 .. LowEnd : (\A k \in 0 .. n : I[k].va < last)
                                    => p \subseteq Entry(m, I[n].slot).perm \cap I[n].perm
  BY <1>1 DEF low_perm, Ranges
<1> SUFFICES ASSUME first <= last, last <= LowEnd
             PROVE  (\A n \in 0 .. LowEnd : (\A k \in 0 .. n : I[k].va < last)
                                    => p \subseteq Entry(m, I[n].slot).perm \cap I[n].perm)
                    <=> \A va \in first .. last - 1 : p \subseteq Translate(m, va).perm
  BY <1>2
<1>3. last \in 0 .. LowEnd /\ first \in VAs /\ first \in Nat
  <2>1. LowEnd \in VAs
    <3>1. LowEnd <= NoncanonEnd /\ NoncanonEnd \in VAs
      BY LowEndIs, EndsIn
    <3> QED
      BY <1>0, <3>1, VmAssumption DEF VAs
  <2> QED
    BY <1>0, <2>1, VmAssumption DEF VAs
<1>4. \A n \in 0 .. LowEnd : I[n] \in Iters /\ On(m, I[n]) /\ Leaf(m, I[n])
  BY <1>1, <1>3, RangesIs
<1>5. \A n \in 0 .. LowEnd : p \subseteq Entry(m, I[n].slot).perm \cap I[n].perm
                               <=> p \subseteq Translate(m, I[n].va).perm
  BY <1>4, GrantsAll
<1>6. ASSUME \A n \in 0 .. LowEnd : (\A k \in 0 .. n : I[k].va < last)
               => p \subseteq Entry(m, I[n].slot).perm \cap I[n].perm,
             NEW wa \in first .. last - 1
      PROVE  p \subseteq Translate(m, wa).perm
  <2>1. PICK n \in 0 .. LowEnd : /\ \A k \in 0 .. n : I[k].va < last
                                 /\ wa \in VAs /\ SameRegion(wa, I[n].va, I[n].level)
    BY <1>1, <1>3, RangesCover
  <2>2. p \subseteq Translate(m, I[n].va).perm
    BY <1>5, <1>6, <2>1
  <2>3. Translate(m, wa).perm = Translate(m, I[n].va).perm
    BY <1>4, <2>1, SamePerm
  <2> QED
    BY <2>2, <2>3
<1>7. ASSUME \A va \in first .. last - 1 : p \subseteq Translate(m, va).perm,
             NEW n \in 0 .. LowEnd, \A k \in 0 .. n : I[k].va < last
      PROVE  p \subseteq Entry(m, I[n].slot).perm \cap I[n].perm
  <2>1. I[n].va >= first + n
    BY <1>1, <1>3, <1>7, RangesRise
  <2>2. PICK v \in VAs : v = I[n].va
    BY <1>4 DEF Iters
  <2>3. v < last
    BY <1>0, <1>7, <2>2
  <2>4. v \in first .. last - 1
    BY <1>0, <1>3, <2>1, <2>2, <2>3
  <2> QED
    BY <1>5, <1>7, <2>2, <2>4
<1> QED
  BY <1>6, <1>7

\* low_perm answers for every address of its range, large pages included, and refuses a range
\* that goes beyond the low half of the address space.
THEOREM RangeAnswered == Spec => []LowPermExact
<1>1. ASSUME Inv PROVE LowPermExact
  <2> SUFFICES ASSUME NEW p \in {{"P"}, {"P", "U"}}, NEW first \in 0 .. LowEnd, NEW last \in VAs
               PROVE  low_perm(mem, first, last, p)
                        <=> /\ first <= last /\ last <= LowEnd
                            /\ \A va \in first .. last - 1 : p \subseteq Translate(mem, va).perm
    BY DEF LowPermExact
  <2>1. mem \in Memory
    BY <1>1 DEF Inv, Types
  <2>2. p \in SUBSET PWU /\ "P" \in p
    BY DEF PWU
  <2> QED
    BY <2>1, <2>2, LowPermIs
<1> QED
  BY <1>1, Invariance, PTL

-----------------------------------------------------------------------------
(* The pages of the tree and the addresses they serve.                     *)

\* A page below the root is of a lower level than the root.
LEMMA BelowRoot ==
    ASSUME NEW m, NEW t, NEW lev, NEW cell, Tree(m, t, lev, cell), NEW x \in t
    PROVE  \E y \in t \cup {Root}, n \in 0 .. FANOUT - 1 :
             /\ IsLink(m[y][n]) /\ m[y][n].pa = x /\ lev[y] \in Levels /\ lev[y] > 0
             /\ lev[x] = lev[y] - 1 /\ lev[x] \in 0 .. TOP - 1
             /\ cell[x] = FANOUT * cell[y] + n /\ cell[y] \in Nat
<1>1. PICK y \in t \cup {Root}, n \in 0 .. FANOUT - 1 :
        lev[y] > 0 /\ IsLink(m[y][n]) /\ m[y][n].pa = x
  BY DEF Tree
<1>2. lev[x] = lev[y] - 1 /\ cell[x] = FANOUT * cell[y] + n
  BY <1>1 DEF Tree
<1>3. lev[y] \in Levels /\ cell[y] \in Nat
  BY DEF Tree
<1>4. lev[x] \in 0 .. TOP - 1
  BY <1>1, <1>2, <1>3, Constants DEF Levels
<1> QED
  BY <1>1, <1>2, <1>3, <1>4

\* No two pages have the same level and cell.
LEMMA RoleUnique ==
    ASSUME NEW m, NEW t, NEW lev, NEW cell, Tree(m, t, lev, cell),
           NEW x \in t \cup {Root}, NEW y \in t \cup {Root}, lev[x] = lev[y], cell[x] = cell[y]
    PROVE  x = y
<1> DEFINE U == t \cup {Root}
           C == {l \in Levels : \A v, w \in U : lev[v] = l /\ lev[w] = l /\ cell[v] = cell[w] => v = w}
<1>0. TOP \in Nat /\ FANOUT \in Nat \ {0} /\ Levels = 0 .. TOP
  BY Constants DEF Levels
<1>1. lev \in [U -> Levels] /\ cell \in [U -> Nat] /\ lev[Root] = TOP
  BY DEF Tree
<1>2. \A v \in t : lev[v] \in 0 .. TOP - 1
  BY BelowRoot
<1>3. TOP \in C
  <2>1. \A v \in U : lev[v] = TOP => v = Root
    BY <1>0, <1>2
  <2> QED
    BY <1>0, <2>1
<1>4. ASSUME NEW l \in 0 .. TOP - 1, l + 1 \in C PROVE l \in C
  <2> SUFFICES ASSUME NEW v \in U, NEW w \in U, lev[v] = l, lev[w] = l, cell[v] = cell[w]
               PROVE  v = w
    BY <1>0
  <2>1. v \in t /\ w \in t
    BY <1>0, <1>1
  <2>2. PICK a \in U, i \in 0 .. FANOUT - 1 :
          /\ m[a][i].pa = v /\ lev[a] \in Levels /\ lev[v] = lev[a] - 1
          /\ cell[v] = FANOUT * cell[a] + i /\ cell[a] \in Nat
    BY <2>1, BelowRoot
  <2>3. PICK b \in U, j \in 0 .. FANOUT - 1 :
          /\ m[b][j].pa = w /\ lev[b] \in Levels /\ lev[w] = lev[b] - 1
          /\ cell[w] = FANOUT * cell[b] + j /\ cell[b] \in Nat
    BY <2>1, BelowRoot
  <2>4. lev[a] = l + 1 /\ lev[b] = l + 1
    <3>1. PICK p \in Levels, q \in Levels : p = lev[a] /\ q = lev[b] /\ l = p - 1 /\ l = q - 1
      BY <2>2, <2>3
    <3> QED
      BY <1>0, <3>1
  <2>5. cell[a] = cell[b] /\ i = j
    <3>1. PICK c \in Nat, d \in Nat, e \in Int : c = cell[a] /\ d = cell[b] /\ e = cell[v]
      BY <1>1, <2>2, <2>3
    <3>2. e = FANOUT * c + i /\ e = FANOUT * d + j
      BY <2>2, <2>3, <3>1
    <3>3. e \div FANOUT = c /\ e % FANOUT = i
      BY ONLY <1>0, <3>2, DivIs, e \in Int, c \in Nat, i \in 0 .. FANOUT - 1, SMTT(60)
    <3>4. e \div FANOUT = d /\ e % FANOUT = j
      BY ONLY <1>0, <3>2, DivIs, e \in Int, d \in Nat, j \in 0 .. FANOUT - 1, SMTT(60)
    <3> QED
      BY <3>1, <3>3, <3>4
  <2>6. a = b
    BY <1>4, <2>4, <2>5
  <2> QED
    BY <2>2, <2>3, <2>5, <2>6
<1> HIDE DEF C
<1>5. \A l \in 0 .. TOP : l \in C
  BY <1>0, <1>3, <1>4, Downwards
<1>6. lev[x] \in 0 .. TOP
  BY <1>0, <1>1
<1>7. lev[x] \in C
  BY <1>5, <1>6
<1> QED
  BY <1>7 DEF C

\* Within the reach of the root cells are regions.
LEMMA CellIs ==
    ASSUME NEW a \in 0 .. NoncanonEnd - 1, NEW l \in 0 .. TOP + 1
    PROVE  Cell(a, l) = a \div Span[l] /\ a \in Nat /\ a \in VAs /\ a \div Span[l] \in Nat
<1>0. NoncanonEnd \in VAs /\ NVA \in Nat /\ VAs \subseteq Nat
  BY EndsIn, Constants, VmAssumption
<1>1. NoncanonEnd \in Nat /\ a \in Nat /\ a \in VAs /\ a < NoncanonEnd
  BY <1>0 DEF VAs
<1>2. a % NoncanonEnd = a
  BY <1>1
<1>3. Span[l] \in Nat \ {0}
  BY SpanIs
<1>4. a \div Span[l] \in Nat
  BY <1>1, <1>3, DivNat
<1> QED
  BY <1>1, <1>2, <1>4 DEF Cell

\* x covers an address a; a page of a higher level that covers a too has an entry that leads
\* towards x.
LEMMA Ancestor ==
    ASSUME NEW m \in Memory, NEW t \in SUBSET Pages, NEW lev, NEW cell, Tree(m, t, lev, cell),
           NEW x \in t \cup {Root}
    PROVE  \E a \in 0 .. NoncanonEnd - 1 :
             /\ cell[x] = a \div Span[lev[x] + 1]
             /\ \A y \in t \cup {Root} : lev[y] > lev[x] /\ cell[y] = a \div Span[lev[y] + 1]
                  => IsLink(m[y][pageindex(a, lev[y])])
<1>0. TOP \in Nat /\ Levels = 0 .. TOP
  BY Constants DEF Levels
<1>1. lev \in [t \cup {Root} -> Levels]
  BY DEF Tree
<1>2. PICK a \in 0 .. NoncanonEnd - 1 : \E f : Walk(m, a, lev[x], f) /\ f[lev[x]] = x
  BY TreeReached
<1>3. PICK f : Walk(m, a, lev[x], f) /\ f[lev[x]] = x
  BY <1>2
<1>4. PICK l \in Levels : l = lev[x]
  BY <1>1
<1>5. l \in 0 .. TOP /\ l + 1 \in 0 .. TOP + 1 /\ l \in l .. TOP
  BY <1>0
<1>6. a \in VAs
  BY <1>5, CellIs
<1>7. Walk(m, a, l, f)
  BY <1>3, <1>4
<1>8. \A k \in l .. TOP : f[k] \in t \cup {Root} /\ lev[f[k]] = k /\ cell[f[k]] = Cell(a, k + 1)
  <2>1. PICK va \in VAs : va = a
    BY <1>6
  <2>2. Walk(m, va, l, f)
    BY <1>7, <2>1
  <2>3. \A k \in l .. TOP : f[k] \in t \cup {Root} /\ lev[f[k]] = k /\ cell[f[k]] = Cell(va, k + 1)
    BY ONLY <2>2, WalkLevels, Tree(m, t, lev, cell), m \in Memory, t \in SUBSET Pages, va \in VAs,
            l \in Levels, SMTT(60)
  <2> QED
    BY ONLY <2>1, <2>3
<1>9. \A k \in l .. TOP : Cell(a, k + 1) = a \div Span[k + 1]
  <2>1. \A k \in l .. TOP : k + 1 \in 0 .. TOP + 1
    BY <1>0
  <2> QED
    BY <2>1, CellIs
<1>10. cell[x] = a \div Span[lev[x] + 1]
  BY <1>3, <1>4, <1>5, <1>8, <1>9
<1>11. ASSUME NEW y \in t \cup {Root}, lev[y] > lev[x], cell[y] = a \div Span[lev[y] + 1]
       PROVE  IsLink(m[y][pageindex(a, lev[y])])
  <2>1. PICK k \in l + 1 .. TOP : k = lev[y] /\ k \in l .. TOP
    BY <1>0, <1>1, <1>4, <1>11
  <2>2. f[k] \in t \cup {Root} /\ lev[f[k]] = k /\ cell[f[k]] = a \div Span[k + 1]
    BY <1>8, <1>9, <2>1
  <2>3. f[k] = y
    <3>1. PICK z \in t \cup {Root} : z = f[k]
      BY <2>2
    <3>2. lev[z] = lev[y] /\ cell[z] = cell[y]
      BY <1>11, <2>1, <2>2, <3>1
    <3>3. z = y
      BY ONLY <3>2, RoleUnique, Tree(m, t, lev, cell), z \in t \cup {Root}, y \in t \cup {Root}
    <3> QED
      BY <3>1, <3>3
  <2>4. IsLink(EntryOn(m, a, f, k))
    BY <1>7, <2>1 DEF Walk
  <2> QED
    BY <2>1, <2>3, <2>4 DEF EntryOn
<1> QED
  BY <1>10, <1>11

\* An address's region, the one above it and its place there.
LEMMA RegionIs ==
    ASSUME NEW a \in Nat, NEW l \in 0 .. TOP
    PROVE  /\ Region(a, l) \in Nat /\ Region(a, l + 1) \in Nat
           /\ pageindex(a, l) \in 0 .. FANOUT - 1
           /\ Region(a, l) = FANOUT * Region(a, l + 1) + pageindex(a, l)
<1>1. l + 1 \in 0 .. TOP + 1 /\ TOP \in Nat
  BY Constants
<1>2. Span[l + 1] \in Nat \ {0}
  BY <1>1, SpanIs
<1>3. a \div Span[l + 1] \in Nat
  BY <1>2, DivNat
<1> QED
  BY <1>3, RegionOf DEF Region

\* Regions of every level follow each other in the same order.
LEMMA RegionOrder ==
    ASSUME NEW a \in Nat, NEW b \in Nat, NEW l \in 0 .. TOP + 1, Region(a, l) <= Region(b, l),
           NEW k \in l .. TOP + 1
    PROVE  Region(a, k) <= Region(b, k)
<1> DEFINE G == {j \in Nat : j >= l /\ j <= TOP + 1 => Region(a, j) <= Region(b, j)}
<1>0. TOP \in Nat /\ FANOUT \in Nat \ {0}
  BY Constants
<1>1. 0 \in G
  OBVIOUS
<1>2. ASSUME NEW j \in G PROVE j + 1 \in G
  <2>1. CASE j >= l /\ j + 1 <= TOP + 1
    <3>1. j \in 0 .. TOP /\ Region(a, j) <= Region(b, j)
      BY <1>0, <2>1
    <3>2. PICK p \in Nat, q \in Nat : p = Region(a, j + 1) /\ q = Region(b, j + 1)
      BY <3>1, RegionIs
    <3>3. PICK u \in 0 .. FANOUT - 1, w \in 0 .. FANOUT - 1 :
            Region(a, j) = FANOUT * p + u /\ Region(b, j) = FANOUT * q + w
      BY <3>1, <3>2, RegionIs
    <3>4. FANOUT * p + u <= FANOUT * q + w
      BY <3>1, <3>3
    <3>5. p <= q
      <4>1. SUFFICES ASSUME p >= q + 1 PROVE FALSE
        OBVIOUS
      <4>2. PICK d \in Nat : p = q + 1 + d
        <5>1. p - q - 1 \in Nat /\ p = q + 1 + (p - q - 1)
          BY <4>1
        <5> QED
          BY <5>1
      <4>3. FANOUT * p = FANOUT * q + FANOUT + FANOUT * d
        BY <1>0, <4>2
      <4>4. FANOUT * d >= 0 /\ FANOUT * d \in Int /\ FANOUT * q \in Int
        BY <1>0
      <4> QED
        BY <1>0, <3>4, <4>3, <4>4
    <3> QED
      BY <3>2, <3>5
  <2>2. CASE j + 1 = l
    BY <2>2
  <2>3. CASE ~(j >= l /\ j + 1 <= TOP + 1) /\ j + 1 # l
    BY <1>0, <2>3
  <2> QED
    BY <2>1, <2>2, <2>3
<1> HIDE DEF G
<1>3. \A j \in Nat : j \in G
  BY <1>1, <1>2, SetOfNaturals DEF G
<1>4. k \in Nat /\ k >= l /\ k <= TOP + 1
  BY <1>0
<1> QED
  BY <1>3, <1>4 DEF G

\* Addresses below the end of the address space are in the root's region.
LEMMA RegionRoot ==
    ASSUME NEW a \in 0 .. NoncanonEnd - 1
    PROVE  a \in Nat /\ a \in VAs /\ Region(a, TOP + 1) = 0
<1>1. TOP + 1 \in 0 .. TOP + 1
  BY Constants
<1>2. PICK s \in Nat \ {0} : s = Span[TOP + 1]
  BY <1>1, SpanIs
<1>3. a \in Nat /\ a \in VAs
  BY <1>1, CellIs
<1>4. a \in 0 .. s - 1
  BY <1>2 DEF NoncanonEnd
<1>5. a \div s = 0
  BY ONLY <1>3, <1>4, DivIs, a = s * 0 + a, s \in Nat \ {0}, 0 \in Int
<1> QED
  BY <1>2, <1>3, <1>5 DEF Region

\* The address after a region: it is in the next region of that level, and the addresses before it
\* are in no later region than the first address.
LEMMA RegionAfter ==
    ASSUME NEW a \in 0 .. NoncanonEnd - 1, NEW l \in Levels
    PROVE  /\ After(a, l) \in Nat /\ After(a, l) <= NoncanonEnd
           /\ Region(After(a, l), l) = Region(a, l) + 1
           /\ \A c \in Nat : c < After(a, l) <=> Region(c, l) <= Region(a, l)
<1>0. TOP \in Nat /\ l \in 0 .. TOP /\ l \in 0 .. TOP + 1 /\ VAs \subseteq Nat
  BY Constants DEF Levels
<1>1. PICK s \in Nat \ {0} : s = Span[l]
  BY <1>0, SpanIs
<1>2. PICK b \in Nat : b = After(a, l) /\ b <= NoncanonEnd
  BY <1>0, AfterLow
<1>3. PICK q \in Nat : q = a \div s
  BY <1>1, AfterLow
<1>4. b = s * (q + 1) + 0 /\ q + 1 \in Int /\ 0 \in 0 .. s - 1
  <2>1. b = s * (q + 1)
    BY <1>1, <1>2, <1>3, AfterLow
  <2> QED
    BY <2>1
<1>5. b \div s = q + 1
  BY ONLY <1>4, DivIs, b \in Nat, s \in Nat \ {0}
<1>6. ASSUME NEW c \in Nat PROVE c < b <=> c \div s <= q
  <2>1. c < s * (q + 1) <=> c \div s < q + 1
    BY ONLY DivBelow, c \in Nat, s \in Nat \ {0}, q + 1 \in Int, q \in Nat
  <2>2. c \div s \in Nat
    BY DivNat
  <2> QED
    BY <1>4, <2>1, <2>2
<1> QED
  BY <1>1, <1>2, <1>3, <1>5, <1>6 DEF Region

\* Regions of level 0 are addresses.
LEMMA RegionZero == \A a \in Nat : Region(a, 0) = a
<1>1. Span[0] = 1
  BY SpanIs
<1>2. \A a \in Nat : a \div 1 = a
  OBVIOUS
<1> QED
  BY <1>1, <1>2 DEF Region

\* The last of the regions that make up the next larger one: it has the last index,
LEMMA LastEntry ==
    ASSUME NEW a \in 0 .. NoncanonEnd - 1, NEW l \in Levels,
           Region(After(a, l), l + 1) # Region(a, l + 1)
    PROVE  pageindex(a, l) = FANOUT - 1
<1>0. TOP \in Nat /\ l \in 0 .. TOP /\ FANOUT \in Nat \ {0} /\ a \in Nat
  BY Constants, RegionRoot DEF Levels
<1>1. PICK b \in Nat : b = After(a, l) /\ Region(b, l) = Region(a, l) + 1
  BY RegionAfter
<1>2. PICK p \in Nat, u \in 0 .. FANOUT - 1 :
        p = Region(a, l + 1) /\ u = pageindex(a, l) /\ Region(a, l) = FANOUT * p + u
  <2>1. /\ Region(a, l + 1) \in Nat /\ pageindex(a, l) \in 0 .. FANOUT - 1
        /\ Region(a, l) = FANOUT * Region(a, l + 1) + pageindex(a, l)
    BY <1>0, RegionIs
  <2> QED
    BY <2>1, Zenon
<1>3. PICK q \in Nat, w \in 0 .. FANOUT - 1 :
        q = Region(b, l + 1) /\ w = pageindex(b, l) /\ Region(b, l) = FANOUT * q + w
  <2>1. /\ Region(b, l + 1) \in Nat /\ pageindex(b, l) \in 0 .. FANOUT - 1
        /\ Region(b, l) = FANOUT * Region(b, l + 1) + pageindex(b, l)
    BY <1>0, RegionIs
  <2> QED
    BY <2>1, Zenon
<1>4. ASSUME u # FANOUT - 1 PROVE FALSE
  <2>1. PICK v \in 0 .. FANOUT - 1 : v = u + 1
    BY <1>0, <1>4
  <2>2. PICK c \in Int : c = FANOUT * p + v /\ c = FANOUT * q + w
    <3>1. FANOUT * p \in Int /\ FANOUT * q \in Int
      BY <1>0
    <3> QED
      BY <1>1, <1>2, <1>3, <2>1, <3>1
  <2>3. c \div FANOUT = p
    BY ONLY <1>0, <2>2, DivIs, p \in Nat, v \in 0 .. FANOUT - 1, c \in Int
  <2>4. c \div FANOUT = q
    BY ONLY <1>0, <2>2, DivIs, q \in Nat, w \in 0 .. FANOUT - 1, c \in Int
  <2> QED
    BY <1>1, <1>2, <1>3, <2>3, <2>4
<1> QED
  BY <1>2, <1>4

\* and no address of the larger region is in a later one.
LEMMA LastRegion ==
    ASSUME NEW a \in Nat, NEW c \in Nat, NEW l \in 0 .. TOP, pageindex(a, l) = FANOUT - 1,
           Region(c, l + 1) <= Region(a, l + 1)
    PROVE  Region(c, l) <= Region(a, l)
<1>0. FANOUT \in Nat \ {0}
  BY Constants
<1>1. PICK p \in Nat, q \in Nat : p = Region(a, l + 1) /\ q = Region(c, l + 1)
  BY RegionIs
<1>2. PICK w \in 0 .. FANOUT - 1 : Region(c, l) = FANOUT * q + w
  BY <1>1, RegionIs
<1>3. Region(a, l) = FANOUT * p + (FANOUT - 1)
  BY <1>1, RegionIs
<1>4. PICK d \in Nat : p = q + d
  <2>1. p - q \in Nat /\ p = q + (p - q)
    BY <1>1
  <2> QED
    BY <2>1
<1>5. FANOUT * p = FANOUT * q + FANOUT * d
  BY <1>0, <1>4
<1>6. FANOUT * d >= 0 /\ FANOUT * d \in Int /\ FANOUT * q \in Int
  BY <1>0
<1> QED
  BY <1>0, <1>2, <1>3, <1>5, <1>6

\* Addresses of one region that have the same index there are in one region below.
LEMMA RegionBelow ==
    ASSUME NEW a \in Nat, NEW c \in Nat, NEW l \in 0 .. TOP, Region(c, l + 1) = Region(a, l + 1),
           pageindex(c, l) = pageindex(a, l)
    PROVE  Region(c, l) = Region(a, l)
BY RegionIs

\* The pages t below the root have a level and an address that they serve: no two pages of a level
\* serve one region, an entry leads to the page that serves the entry's part of the region, and
\* pages above x that serve x's address have an entry that leads to a page there.
Placed(m, t, lev, at) ==
    /\ lev \in [t \cup {Root} -> Levels] /\ at \in [t \cup {Root} -> 0 .. NoncanonEnd - 1]
    /\ lev[Root] = TOP /\ \A x \in t : lev[x] < TOP
    /\ \A x, y \in t \cup {Root} :
         lev[x] = lev[y] /\ Region(at[x], lev[x] + 1) = Region(at[y], lev[x] + 1) => x = y
    /\ \A x \in t \cup {Root}, n \in 0 .. FANOUT - 1 : lev[x] > 0 /\ IsLink(m[x][n]) =>
         /\ m[x][n].pa \in t /\ lev[m[x][n].pa] = lev[x] - 1
         /\ Region(at[m[x][n].pa], lev[x] + 1) = Region(at[x], lev[x] + 1)
         /\ pageindex(at[m[x][n].pa], lev[x]) = n
    /\ \A x \in t, y \in t \cup {Root} :
         lev[y] > lev[x] /\ Region(at[x], lev[y] + 1) = Region(at[y], lev[y] + 1)
           => IsLink(m[y][pageindex(at[x], lev[y])])

\* The pages of a tree can be placed.
LEMMA TreePlaced ==
    ASSUME NEW m \in Memory, NEW t \in SUBSET Pages, NEW lev, NEW cell, Tree(m, t, lev, cell)
    PROVE  \E at : Placed(m, t, lev, at)
<1> DEFINE U == t \cup {Root}
           Fits(x, a) == /\ cell[x] = Region(a, lev[x] + 1)
                         /\ \A y \in U : lev[y] > lev[x] /\ cell[y] = Region(a, lev[y] + 1)
                              => IsLink(m[y][pageindex(a, lev[y])])
           at == [x \in U |-> CHOOSE a \in 0 .. NoncanonEnd - 1 : Fits(x, a)]
<1>0. TOP \in Nat /\ FANOUT \in Nat \ {0} /\ Levels = 0 .. TOP
  BY Constants DEF Levels
<1>1. /\ lev \in [U -> Levels] /\ cell \in [U -> Nat] /\ lev[Root] = TOP
      /\ \A x \in U, n \in 0 .. FANOUT - 1 : lev[x] > 0 /\ IsLink(m[x][n]) =>
           /\ m[x][n].pa \in t /\ lev[m[x][n].pa] = lev[x] - 1
           /\ cell[m[x][n].pa] = FANOUT * cell[x] + n
  BY DEF Tree
<1>2. ASSUME NEW x \in U PROVE \E a \in 0 .. NoncanonEnd - 1 : Fits(x, a)
  BY Ancestor DEF Region
<1>3. \A x \in U : at[x] \in 0 .. NoncanonEnd - 1 /\ Fits(x, at[x])
  <2> HIDE DEF Fits
  <2> QED
    BY <1>2
<1>4. \A x \in t : lev[x] < TOP
  <2>1. \A x \in t : lev[x] \in 0 .. TOP - 1
    BY BelowRoot
  <2> QED
    BY <1>0, <2>1
<1>5. at \in [U -> 0 .. NoncanonEnd - 1]
  <2> HIDE DEF Fits
  <2> QED
    BY <1>3
<1>6. \A x \in U : cell[x] = Region(at[x], lev[x] + 1)
  BY <1>3
<1>7. \A x \in t, y \in U : lev[y] > lev[x] /\ Region(at[x], lev[y] + 1) = Region(at[y], lev[y] + 1)
        => IsLink(m[y][pageindex(at[x], lev[y])])
  <2>1. \A x \in U, y \in U : lev[y] > lev[x] /\ cell[y] = Region(at[x], lev[y] + 1)
          => IsLink(m[y][pageindex(at[x], lev[y])])
    BY <1>3
  <2> HIDE DEF at
  <2> QED
    BY <1>6, <2>1
<1> HIDE DEF at, Fits
<1>8. ASSUME NEW x \in U, NEW y \in U, lev[x] = lev[y],
             Region(at[x], lev[x] + 1) = Region(at[y], lev[x] + 1)
      PROVE  x = y
  <2>1. cell[x] = cell[y]
    BY <1>6, <1>8
  <2> QED
    BY ONLY <1>8, <2>1, RoleUnique, Tree(m, t, lev, cell), x \in t \cup {Root}, y \in t \cup {Root}
<1>9. ASSUME NEW x \in U, NEW n \in 0 .. FANOUT - 1, lev[x] > 0, IsLink(m[x][n])
      PROVE  /\ Region(at[m[x][n].pa], lev[x] + 1) = Region(at[x], lev[x] + 1)
             /\ pageindex(at[m[x][n].pa], lev[x]) = n
  <2>1. PICK y \in t : y = m[x][n].pa /\ lev[y] = lev[x] - 1 /\ cell[y] = FANOUT * cell[x] + n
    BY <1>1, <1>9
  <2>2. PICK l \in 0 .. TOP : l = lev[x] /\ lev[y] + 1 = l
    BY <1>0, <1>1, <1>9, <2>1
  <2>3. PICK a \in 0 .. NoncanonEnd - 1 : a = at[y]
    BY <1>5, <2>1
  <2>4. a \in Nat
    BY RegionRoot
  <2>5. PICK p \in Nat, u \in 0 .. FANOUT - 1 :
          p = Region(a, l + 1) /\ u = pageindex(a, l) /\ Region(a, l) = FANOUT * p + u
    BY <2>4, RegionIs
  <2>6. PICK c \in Nat, d \in Int : c = cell[x] /\ d = cell[y]
    BY <1>1, <2>1
  <2>7. d = FANOUT * c + n /\ d = FANOUT * p + u
    BY <1>6, <2>1, <2>2, <2>3, <2>5, <2>6
  <2>8. d \div FANOUT = c /\ d % FANOUT = n
    BY ONLY <1>0, <2>7, DivIs, d \in Int, c \in Nat, n \in 0 .. FANOUT - 1, SMTT(60)
  <2>9. d \div FANOUT = p /\ d % FANOUT = u
    BY ONLY <1>0, <2>7, DivIs, d \in Int, p \in Nat, u \in 0 .. FANOUT - 1, SMTT(60)
  <2>10. c = p /\ n = u /\ c = Region(at[x], l + 1)
    BY <1>6, <2>2, <2>6, <2>8, <2>9
  <2> QED
    BY <2>1, <2>2, <2>3, <2>5, <2>10
<1>10. Placed(m, t, lev, at)
  BY <1>1, <1>4, <1>5, <1>7, <1>8, <1>9 DEF Placed
<1> QED
  BY <1>10

-----------------------------------------------------------------------------
(* The freeing loop.                                                       *)

\* A page of level l that serves a is behind a loop at va that is done with the part of va's entry
\* of level bar, and above it with what precedes va.
Passed(va, bar, l, a) == IF l < bar THEN Region(a, bar) <= Region(va, bar)
                         ELSE Region(a, l + 1) < Region(va, l + 1)

\* Of the pages t0, m0 before the loop those that it has passed are freed, and no other has changed.
Held(m, t, va, bar, m0, t0, lev, at) ==
    /\ t0 \in SUBSET Pages /\ Root \notin t0 /\ Placed(m0, t0, lev, at)
    /\ va \in 0 .. NoncanonEnd - 1 /\ t = {x \in t0 : ~Passed(va, bar, lev[x], at[x])}
    /\ \A x \in t \cup {Root} : m[x] = m0[x]

\* x is the page of level l that serves va.
Stands(x, va, l, t0, lev, at) ==
    x \in t0 \cup {Root} /\ lev[x] = l /\ Region(at[x], l + 1) = Region(va, l + 1)

\* On the way down to a page of which the loop has passed the last entry, that page is ahead.
Ahead(va, stop, t0, lev, at) ==
    stop > 1 => /\ pageindex(va, stop - 1) = FANOUT - 1
                /\ \E z \in t0 : lev[z] = stop - 1 /\ Region(at[z], stop) = Region(va, stop)

\* The page that the ptiter points into has not been freed.
LEMMA StoodOn ==
    ASSUME NEW m, NEW t, NEW va, NEW bar \in Nat, NEW m0, NEW t0, NEW lev, NEW at,
           Held(m, t, va, bar, m0, t0, lev, at), NEW x, NEW l \in Levels, l >= bar,
           Stands(x, va, l, t0, lev, at)
    PROVE  x \in t \cup {Root} /\ m[x] = m0[x]
<1>0. TOP \in Nat /\ l \in 0 .. TOP
  BY Constants DEF Levels
<1>1. x \in t0 \cup {Root} /\ lev[x] = l /\ Region(at[x], l + 1) = Region(va, l + 1)
  BY DEF Stands
<1>2. va \in Nat
  BY RegionRoot DEF Held
<1>3. Region(va, l + 1) \in Nat
  BY <1>0, <1>2, RegionIs
<1>4. ~Passed(va, bar, l, at[x])
  <2>1. ~(l < bar) /\ ~(Region(at[x], l + 1) < Region(va, l + 1))
    BY <1>0, <1>1, <1>3
  <2> QED
    BY <2>1 DEF Passed
<1>5. x \in t \cup {Root}
  BY <1>1, <1>4 DEF Held
<1> QED
  BY <1>5 DEF Held

\* There is nothing to free behind an entry that is no link.
LEMMA NothingBehind ==
    ASSUME NEW m, NEW t, NEW lev, NEW at, Placed(m, t, lev, at), NEW va \in Nat, NEW x,
           NEW l \in Levels, Stands(x, va, l, t, lev, at), ~IsLink(m[x][pageindex(va, l)]),
           NEW z \in t
    PROVE  Passed(va, 0, lev[z], at[z]) <=> Passed(va, l, lev[z], at[z])
<1>0. TOP \in Nat /\ l \in 0 .. TOP /\ Levels = 0 .. TOP
  BY Constants DEF Levels
<1>1. PICK k \in 0 .. TOP : k = lev[z]
  BY <1>0 DEF Placed
<1>2. PICK a \in 0 .. NoncanonEnd - 1 : a = at[z]
  BY DEF Placed
<1>3. a \in Nat
  BY RegionRoot
<1>4. Passed(va, 0, k, a) <=> Region(a, k + 1) < Region(va, k + 1)
  BY <1>0 DEF Passed
<1>5. CASE k >= l
  <2>1. Passed(va, l, k, a) <=> Region(a, k + 1) < Region(va, k + 1)
    BY <1>0, <1>5 DEF Passed
  <2> QED
    BY <1>1, <1>2, <1>4, <2>1
<1>6. CASE k < l
  <2>0. /\ k + 1 \in 0 .. TOP + 1 /\ k + 1 \in 0 .. TOP /\ l \in k + 1 .. TOP + 1
        /\ l \in 0 .. TOP + 1 /\ l + 1 \in l .. TOP + 1 /\ l \in l .. TOP
    BY <1>0, <1>6
  <2>1. Passed(va, l, k, a) <=> Region(a, l) <= Region(va, l)
    BY <1>6 DEF Passed
  <2>2. /\ Region(a, k + 1) \in Nat /\ Region(va, k + 1) \in Nat
        /\ Region(a, l) \in Nat /\ Region(va, l) \in Nat
    BY <1>0, <1>3, <2>0, RegionIs
  <2>3. Region(a, k + 1) <= Region(va, k + 1) => Region(a, l) <= Region(va, l)
    BY <1>3, <2>0, RegionOrder
  <2>4. Region(va, k + 1) <= Region(a, k + 1) => Region(va, l) <= Region(a, l)
    BY <1>3, <2>0, RegionOrder
  <2>5. ASSUME Region(a, l) = Region(va, l) PROVE FALSE
    <3>1. SameRegion(a, va, l)
      BY <2>5 DEF Region, SameRegion
    <3>2. pageindex(a, l) = pageindex(va, l)
      BY <1>0, <1>3, <2>0, <3>1, RegionIndex
    <3>3. Region(a, l + 1) = Region(va, l + 1)
      <4>1. SameRegion(a, va, l + 1)
        BY <1>3, <2>0, <3>1, RegionUp
      <4> QED
        BY <4>1 DEF SameRegion, Region
    <3>4. IsLink(m[x][pageindex(a, l)])
      <4>1. x \in t \cup {Root} /\ lev[x] = l /\ Region(at[x], l + 1) = Region(va, l + 1)
        BY DEF Stands
      <4>2. lev[x] > lev[z] /\ Region(at[z], lev[x] + 1) = Region(at[x], lev[x] + 1)
        BY <1>1, <1>2, <1>6, <3>3, <4>1
      <4>3. IsLink(m[x][pageindex(at[z], lev[x])])
        BY <4>1, <4>2 DEF Placed
      <4> QED
        BY <1>2, <4>1, <4>3
    <3> QED
      BY <3>2, <3>4
  <2> QED
    BY <1>1, <1>2, <1>4, <2>1, <2>2, <2>3, <2>4, <2>5
<1> QED
  BY <1>0, <1>1, <1>5, <1>6

\* A loop that is done with va's entry of level l is at the next entry.
LEMMA Onward ==
    ASSUME NEW va \in 0 .. NoncanonEnd - 1, NEW l \in Levels,
           Region(After(va, l), l + 1) = Region(va, l + 1)
    PROVE  /\ After(va, l) \in 0 .. NoncanonEnd - 1
           /\ \A k \in Levels, a \in 0 .. NoncanonEnd - 1 :
                Passed(va, l, k, a) <=> Passed(After(va, l), 0, k, a)
<1>0. TOP \in Nat /\ l \in 0 .. TOP /\ Levels = 0 .. TOP /\ va \in Nat /\ NoncanonEnd \in Nat
  BY Constants, RegionRoot, EndsIn DEF Levels
<1>1. PICK b \in Nat : /\ b = After(va, l) /\ b <= NoncanonEnd /\ Region(b, l) = Region(va, l) + 1
                       /\ \A c \in Nat : c < b <=> Region(c, l) <= Region(va, l)
  BY RegionAfter
<1>2. SameRegion(b, va, l + 1) /\ l + 1 \in 0 .. TOP + 1
  BY <1>0, <1>1 DEF Region, SameRegion
<1>3. \A k \in l + 1 .. TOP + 1 : Region(b, k) = Region(va, k)
  <2>1. \A k \in l + 1 .. TOP + 1 : SameRegion(b, va, k)
    BY <1>0, <1>2, RegionUp
  <2> QED
    BY <2>1 DEF SameRegion, Region
<1>4. b \in 0 .. NoncanonEnd - 1
  <2>1. TOP + 1 \in l + 1 .. TOP + 1 /\ TOP + 1 \in 0 .. TOP + 1
    BY <1>0
  <2>2. Region(b, TOP + 1) = 0
    BY <1>3, <2>1, RegionRoot
  <2>3. PICK s \in Nat \ {0} : s = Span[TOP + 1]
    BY <2>1, SpanIs
  <2>4. b \div s = 0
    BY <2>2, <2>3 DEF Region
  <2>5. b < s * 1 <=> b \div s < 1
    BY ONLY DivBelow, b \in Nat, s \in Nat \ {0}, 1 \in Int
  <2>6. b < s
    BY <2>4, <2>5
  <2> QED
    BY <2>3, <2>6 DEF NoncanonEnd
<1>5. ASSUME NEW k \in Levels, NEW a \in 0 .. NoncanonEnd - 1
      PROVE  Passed(va, l, k, a) <=> Passed(b, 0, k, a)
  <2>0. a \in Nat /\ k \in 0 .. TOP
    BY <1>0, RegionRoot
  <2>1. Passed(b, 0, k, a) <=> Region(a, k + 1) < Region(b, k + 1)
    BY <2>0 DEF Passed
  <2>2. CASE k >= l
    <3>1. k + 1 \in l + 1 .. TOP + 1
      BY <1>0, <2>0, <2>2
    <3>2. Passed(va, l, k, a) <=> Region(a, k + 1) < Region(va, k + 1)
      BY <1>0, <2>0, <2>2 DEF Passed
    <3> QED
      BY <1>3, <2>1, <3>1, <3>2
  <2>3. CASE k < l
    <3>0. /\ k + 1 \in 0 .. TOP + 1 /\ k + 1 \in 0 .. TOP /\ l \in k + 1 .. TOP + 1 /\ 0 \in 0 .. TOP + 1
          /\ k + 1 \in 0 .. TOP + 1
      BY <1>0, <2>0, <2>3
    <3>1. Passed(va, l, k, a) <=> Region(a, l) <= Region(va, l)
      BY <2>3 DEF Passed
    <3>2. /\ Region(a, k + 1) \in Nat /\ Region(b, k + 1) \in Nat
          /\ Region(a, l) \in Nat /\ Region(va, l) \in Nat
      BY <1>0, <2>0, <3>0, RegionIs
    <3>3. Region(b, k + 1) <= Region(a, k + 1) => Region(b, l) <= Region(a, l)
      BY <2>0, <3>0, RegionOrder
    <3>4. b <= a => Region(b, k + 1) <= Region(a, k + 1)
      <4>1. Region(b, 0) = b /\ Region(a, 0) = a
        BY <2>0, RegionZero
      <4> QED
        BY <2>0, <3>0, <4>1, RegionOrder
    <3>5. a < b <=> Region(a, l) <= Region(va, l)
      BY <1>1, <2>0
    <3>6. Region(b, l) = Region(va, l) + 1
      BY <1>1
    <3> QED
      BY <2>0, <2>1, <3>1, <3>2, <3>3, <3>4, <3>5, <3>6
  <2> QED
    BY <1>0, <2>0, <2>2, <2>3
<1> QED
  BY <1>1, <1>4, <1>5

\* The page that va's entry of level l leads to serves va.
LEMMA LedTo ==
    ASSUME NEW m, NEW t, NEW lev, NEW at, Placed(m, t, lev, at), NEW va \in Nat, NEW x,
           NEW l \in Levels, l > 0, Stands(x, va, l, t, lev, at), IsLink(m[x][pageindex(va, l)])
    PROVE  /\ m[x][pageindex(va, l)].pa \in t
           /\ Stands(m[x][pageindex(va, l)].pa, va, l - 1, t, lev, at)
<1>0. TOP \in Nat /\ l \in 0 .. TOP
  BY Constants DEF Levels
<1>1. x \in t \cup {Root} /\ lev[x] = l /\ Region(at[x], l + 1) = Region(va, l + 1)
  BY DEF Stands
<1>2. PICK n \in 0 .. FANOUT - 1 : n = pageindex(va, l)
  BY <1>0, RegionIs
<1>3. PICK y \in t : /\ y = m[x][n].pa /\ lev[y] = l - 1
                     /\ Region(at[y], l + 1) = Region(va, l + 1) /\ pageindex(at[y], l) = n
  BY <1>1, <1>2 DEF Placed
<1>4. PICK a \in 0 .. NoncanonEnd - 1 : a = at[y]
  BY <1>3 DEF Placed
<1>5. a \in Nat
  BY RegionRoot
<1>6. Region(a, l) = Region(va, l)
  BY <1>0, <1>2, <1>3, <1>4, <1>5, RegionBelow
<1>7. l - 1 + 1 = l
  BY <1>0
<1> QED
  BY <1>2, <1>3, <1>4, <1>6, <1>7 DEF Stands

\* On the way down to a page ahead every entry is a link.
LEMMA LinkAhead ==
    ASSUME NEW m, NEW t, NEW lev, NEW at, Placed(m, t, lev, at), NEW va \in Nat, NEW x,
           NEW l \in Levels, NEW stop \in 1 .. TOP, stop > 1, l >= stop,
           Ahead(va, stop, t, lev, at), Stands(x, va, l, t, lev, at)
    PROVE  IsLink(m[x][pageindex(va, l)])
<1>0. /\ TOP \in Nat /\ l \in 0 .. TOP /\ stop \in 0 .. TOP /\ stop \in 0 .. TOP + 1
      /\ l \in stop .. TOP /\ l + 1 \in stop .. TOP + 1
  BY Constants DEF Levels
<1>1. x \in t \cup {Root} /\ lev[x] = l /\ Region(at[x], l + 1) = Region(va, l + 1)
  BY DEF Stands
<1>2. PICK z \in t : lev[z] = stop - 1 /\ Region(at[z], stop) = Region(va, stop)
  BY DEF Ahead
<1>3. PICK a \in 0 .. NoncanonEnd - 1 : a = at[z]
  BY DEF Placed
<1>4. a \in Nat
  BY RegionRoot
<1>5. SameRegion(a, va, stop)
  BY <1>2, <1>3 DEF Region, SameRegion
<1>6. pageindex(a, l) = pageindex(va, l)
  BY <1>0, <1>4, <1>5, RegionIndex
<1>7. SameRegion(a, va, l + 1)
  BY <1>0, <1>4, <1>5, RegionUp
<1>8. Region(at[z], l + 1) = Region(at[x], l + 1)
  BY <1>1, <1>3, <1>7 DEF Region, SameRegion
<1>9. lev[x] > lev[z]
  BY <1>0, <1>1, <1>2
<1>10. IsLink(m[x][pageindex(at[z], l)])
  BY <1>1, <1>8, <1>9 DEF Placed
<1> QED
  BY <1>3, <1>6, <1>10

\* Freeing the page that va's entry of level k leads to is being done with that entry.
LEMMA FreeOne ==
    ASSUME NEW m, NEW t, NEW lev, NEW at, Placed(m, t, lev, at), NEW va \in Nat, NEW k \in 1 .. TOP,
           Ahead(va, k, t, lev, at), NEW p \in t, Stands(p, va, k - 1, t, lev, at), NEW x \in t
    PROVE  Passed(va, k, lev[x], at[x]) <=> Passed(va, k - 1, lev[x], at[x]) \/ x = p
<1>0. /\ TOP \in Nat /\ Levels = 0 .. TOP /\ k - 1 \in 0 .. TOP /\ k \in 0 .. TOP
      /\ k - 1 \in 0 .. TOP + 1 /\ k \in k - 1 .. TOP + 1 /\ k - 1 + 1 = k
  BY Constants DEF Levels
<1>1. PICK l \in 0 .. TOP : l = lev[x]
  BY <1>0 DEF Placed
<1>2. PICK a \in 0 .. NoncanonEnd - 1 : a = at[x]
  BY DEF Placed
<1>3. a \in Nat
  BY RegionRoot
<1>4. lev[p] = k - 1 /\ Region(at[p], k) = Region(va, k)
  BY <1>0 DEF Stands
<1>5. Region(a, k) \in Nat /\ Region(va, k) \in Nat
  BY <1>0, <1>3, RegionIs
<1>6. CASE l >= k
  <2>1. Passed(va, k, l, a) <=> Region(a, l + 1) < Region(va, l + 1)
    BY <1>0, <1>6 DEF Passed
  <2>2. Passed(va, k - 1, l, a) <=> Region(a, l + 1) < Region(va, l + 1)
    <3>1. ~(l < k - 1)
      BY <1>0, <1>6
    <3> QED
      BY <3>1 DEF Passed
  <2>3. x # p
    BY <1>0, <1>1, <1>4, <1>6
  <2> QED
    BY <1>1, <1>2, <2>1, <2>2, <2>3
<1>7. CASE l = k - 1
  <2>1. Passed(va, k, l, a) <=> Region(a, k) <= Region(va, k)
    BY <1>0, <1>7 DEF Passed
  <2>2. Passed(va, k - 1, l, a) <=> Region(a, k) < Region(va, k)
    <3>1. ~(l < k - 1) /\ l + 1 = k
      BY <1>0, <1>7
    <3> QED
      BY <3>1 DEF Passed
  <2>3. x = p <=> Region(a, k) = Region(va, k)
    <3>1. x = p => Region(a, k) = Region(va, k)
      BY <1>2, <1>4
    <3>2. ASSUME Region(a, k) = Region(va, k) PROVE x = p
      <4>1. lev[x] = lev[p] /\ lev[x] + 1 = k
        BY <1>0, <1>1, <1>4, <1>7
      <4>2. Region(at[x], lev[x] + 1) = Region(at[p], lev[x] + 1)
        BY <1>2, <1>4, <3>2, <4>1
      <4> QED
        BY <4>1, <4>2 DEF Placed
    <3> QED
      BY <3>1, <3>2
  <2> QED
    BY <1>1, <1>2, <1>5, <2>1, <2>2, <2>3
<1>8. CASE l < k - 1
  <2>1. Passed(va, k, l, a) <=> Region(a, k) <= Region(va, k)
    BY <1>0, <1>8 DEF Passed
  <2>2. Passed(va, k - 1, l, a) <=> Region(a, k - 1) <= Region(va, k - 1)
    BY <1>8 DEF Passed
  <2>3. Region(a, k - 1) <= Region(va, k - 1) => Region(a, k) <= Region(va, k)
    BY <1>0, <1>3, RegionOrder
  <2>4. pageindex(va, k - 1) = FANOUT - 1
    BY <1>0, <1>8 DEF Ahead
  <2>5. Region(a, k) <= Region(va, k) => Region(a, k - 1) <= Region(va, k - 1)
    <3>1. PICK j \in 0 .. TOP : j = k - 1 /\ j + 1 = k
      BY <1>0
    <3>2. Region(a, j + 1) <= Region(va, j + 1) => Region(a, j) <= Region(va, j)
      BY <1>3, <2>4, <3>1, LastRegion
    <3> QED
      BY <3>1, <3>2
  <2>6. x # p
    BY <1>0, <1>1, <1>4, <1>8
  <2> QED
    BY <1>1, <1>2, <2>1, <2>2, <2>3, <2>5, <2>6
<1> QED
  BY <1>0, <1>6, <1>7, <1>8

\* At a page the loop has passed the pages that its entries lead to.
LEMMA ChildrenPassed ==
    ASSUME NEW m, NEW t, NEW lev, NEW at, Placed(m, t, lev, at), NEW va \in Nat, NEW k \in 2 .. TOP,
           Ahead(va, k, t, lev, at), NEW p \in t, Stands(p, va, k - 1, t, lev, at),
           NEW n \in 0 .. FANOUT - 1, IsLink(m[p][n])
    PROVE  Passed(va, k - 1, lev[m[p][n].pa], at[m[p][n].pa])
<1>0. /\ TOP \in Nat /\ Levels = 0 .. TOP /\ k - 1 \in 0 .. TOP /\ k \in 0 .. TOP /\ k - 1 > 0
      /\ k - 1 + 1 = k /\ k > 1
  BY Constants DEF Levels
<1>1. lev[p] = k - 1 /\ Region(at[p], k) = Region(va, k)
  BY <1>0 DEF Stands
<1>2. PICK y \in t : y = m[p][n].pa /\ lev[y] = k - 1 - 1 /\ Region(at[y], k) = Region(at[p], k)
  <2>1. lev[p] > 0 /\ lev[p] + 1 = k
    BY <1>0, <1>1
  <2>2. /\ m[p][n].pa \in t /\ lev[m[p][n].pa] = lev[p] - 1
        /\ Region(at[m[p][n].pa], lev[p] + 1) = Region(at[p], lev[p] + 1)
    BY <2>1 DEF Placed
  <2> QED
    BY <1>1, <2>1, <2>2
<1>3. PICK a \in 0 .. NoncanonEnd - 1 : a = at[y]
  BY DEF Placed
<1>4. a \in Nat /\ Region(va, k) \in Nat
  BY <1>0, RegionRoot, RegionIs
<1>5. PICK j \in 0 .. TOP : j = k - 1 /\ j + 1 = k
  BY <1>0
<1>6. pageindex(va, j) = FANOUT - 1
  BY <1>0, <1>5 DEF Ahead
<1>7. Region(a, j + 1) <= Region(va, j + 1)
  BY <1>1, <1>2, <1>3, <1>4, <1>5
<1>8. Region(a, j) <= Region(va, j)
  BY <1>4, <1>6, <1>7, LastRegion
<1>9. lev[y] < j
  BY <1>0, <1>2, <1>5
<1>10. Passed(va, j, lev[y], a)
  BY <1>8, <1>9 DEF Passed
<1> QED
  BY <1>2, <1>3, <1>5, <1>10

\* A loop that is done with the root's last entry has passed every page.
LEMMA AllPassed ==
    ASSUME NEW m, NEW t, NEW lev, NEW at, Placed(m, t, lev, at), NEW va \in 0 .. NoncanonEnd - 1,
           pageindex(va, TOP) = FANOUT - 1, NEW x \in t
    PROVE  Passed(va, TOP, lev[x], at[x])
<1>0. TOP \in Nat /\ TOP \in 0 .. TOP /\ va \in Nat /\ lev[x] < TOP
  BY Constants, RegionRoot DEF Placed
<1>1. PICK a \in 0 .. NoncanonEnd - 1 : a = at[x]
  BY DEF Placed
<1>2. a \in Nat /\ Region(a, TOP + 1) = 0 /\ Region(va, TOP + 1) = 0
  BY RegionRoot
<1>3. Region(a, TOP) <= Region(va, TOP)
  BY <1>0, <1>2, LastRegion
<1> QED
  BY <1>0, <1>1, <1>3 DEF Passed

\* The ptiter of the loop: what it has passed is freed, it is at a page that is held, and it stops
\* at links of the level to stop at.
Looping(m, t, i, m0, t0, lev, at) ==
    /\ Held(m, t, i.va, IF i.skip THEN i.level ELSE i.stop - 1, m0, t0, lev, at)
    /\ Stands(i.slot[1], i.va, i.level, t0, lev, at) /\ Ahead(i.va, i.stop, t0, lev, at)
    /\ i.skip => i.stop = 1 /\ i.pc = "down"
    /\ i.pc = "at" => i.level = i.stop /\ IsLink(m[i.slot[1]][pageindex(i.va, i.level)])
LEMMA LoopingIs ==
    ASSUME NEW pc, NEW l, NEW x, NEW va, NEW skip \in BOOLEAN, NEW stop, NEW bar,
           bar = (IF skip THEN l ELSE stop - 1), NEW m, NEW t, NEW m0, NEW t0, NEW lev, NEW at
    PROVE  Looping(m, t, AtPage(pc, l, x, va, skip, stop), m0, t0, lev, at)
             <=> /\ Held(m, t, va, bar, m0, t0, lev, at) /\ Stands(x, va, l, t0, lev, at)
                 /\ Ahead(va, stop, t0, lev, at) /\ (skip => stop = 1 /\ pc = "down")
                 /\ pc = "at" => l = stop /\ IsLink(m[x][pageindex(va, l)])
<1>1. PICK i : i = AtPage(pc, l, x, va, skip, stop)
  OBVIOUS
<1>2. /\ i.pc = pc /\ i.level = l /\ i.slot[1] = x /\ i.va = va /\ i.skip = skip /\ i.stop = stop
  BY <1>1 DEF AtPage
<1>3. Looping(m, t, i, m0, t0, lev, at)
        <=> /\ Held(m, t, va, bar, m0, t0, lev, at) /\ Stands(x, va, l, t0, lev, at)
            /\ Ahead(va, stop, t0, lev, at) /\ (skip => stop = 1 /\ pc = "down")
            /\ pc = "at" => l = stop /\ IsLink(m[x][pageindex(va, l)])
  BY <1>2 DEF Looping
<1> QED
  BY <1>1, <1>3

\* A loop whose ptiter does not stop at its entry is done with that entry.
LEMMA EntryDone ==
    ASSUME NEW m, NEW t, NEW m0, NEW t0, NEW lev, NEW at, NEW va, NEW l \in Levels, NEW x,
           NEW skip \in BOOLEAN, NEW stop \in 1 .. TOP, l >= stop, NEW bar,
           bar = (IF skip THEN l ELSE stop - 1), Held(m, t, va, bar, m0, t0, lev, at),
           Stands(x, va, l, t0, lev, at), Ahead(va, stop, t0, lev, at), skip => stop = 1,
           ~(IsLink(m[x][pageindex(va, l)]) /\ ~skip)
    PROVE  stop = 1 /\ Held(m, t, va, l, m0, t0, lev, at)
<1>1. CASE skip
  BY <1>1
<1>2. CASE ~skip
  <2>0. Placed(m0, t0, lev, at) /\ va \in 0 .. NoncanonEnd - 1
    BY DEF Held
  <2>1. va \in Nat /\ bar = stop - 1 /\ bar \in Nat /\ l \in Nat /\ l >= bar /\ TOP \in Nat
    BY <1>2, <2>0, RegionRoot, Constants DEF Levels
  <2>2. m[x] = m0[x]
    BY <2>1, StoodOn
  <2>3. ~IsLink(m0[x][pageindex(va, l)])
    BY <1>2, <2>2
  <2>4. stop = 1
    <3>1. ASSUME stop > 1 PROVE FALSE
      BY <2>0, <2>1, <2>3, <3>1, LinkAhead
    <3> QED
      BY <2>1, <3>1
  <2>5. bar = 0
    BY <2>1, <2>4
  <2>6. \A z \in t0 : Passed(va, 0, lev[z], at[z]) <=> Passed(va, l, lev[z], at[z])
    BY <2>0, <2>1, <2>3, NothingBehind
  <2>7. {z \in t0 : ~Passed(va, 0, lev[z], at[z])} = {z \in t0 : ~Passed(va, l, lev[z], at[z])}
    BY <2>6
  <2> QED
    BY <2>4, <2>5, <2>7 DEF Held
<1> QED
  BY <1>1, <1>2

\* A turn of ptiter::down keeps the loop's invariant, and ends it only when everything is freed.
LEMMA TurnLoops ==
    ASSUME Inv, NEW l \in Levels, NEW x \in Pages, NEW va \in VAs, NEW skip \in BOOLEAN,
           NEW stop \in 1 .. TOP, Turn(l, x, va, skip, stop), NEW m0, NEW t0, NEW lev, NEW at,
           Looping(mem, tables, pti, m0, t0, lev, at)
    PROVE  IF pti'.pc = "off" THEN tables = {} ELSE Looping(mem, tables, pti', m0, t0, lev, at)
<1>0. TOP \in Nat /\ l \in 0 .. TOP /\ Levels = 0 .. TOP
  BY Constants DEF Levels
<1>1. pti = AtPage("down", l, x, va, skip, stop) /\ l >= stop
  BY DEF Turn
<1>2. PICK bar : bar = IF skip THEN l ELSE stop - 1
  OBVIOUS
<1>3. /\ Held(mem, tables, va, bar, m0, t0, lev, at) /\ Stands(x, va, l, t0, lev, at)
      /\ Ahead(va, stop, t0, lev, at) /\ (skip => stop = 1)
  BY <1>1, <1>2, LoopingIs
<1>4. Placed(m0, t0, lev, at) /\ va \in 0 .. NoncanonEnd - 1
  BY <1>3 DEF Held
<1>5. va \in Nat
  BY <1>4, RegionRoot
<1>6. PICK e : e = mem[x][pageindex(va, l)]
  OBVIOUS
<1>7. PICK b : b = After(va, l)
  OBVIOUS
<1>8. \A pc \in {"down", "at"} : \A k, y, v, s, u : AtPage(pc, k, y, v, s, u).pc # "off"
  BY DEF AtPage
<1>9. CASE IsLink(e) /\ ~skip /\ l = stop
  <2>1. pti' = AtPage("at", l, x, va, skip, stop)
    BY <1>6, <1>9 DEF Turn
  <2>2. Looping(mem, tables, AtPage("at", l, x, va, skip, stop), m0, t0, lev, at)
    BY <1>2, <1>3, <1>6, <1>9, LoopingIs
  <2> QED
    BY <1>8, <2>1, <2>2
<1>10. CASE IsLink(e) /\ ~skip /\ l # stop
  <2>1. pti' = AtPage("down", l - 1, e.pa, va, skip, stop)
    BY <1>6, <1>10 DEF Turn
  <2>2. bar = stop - 1 /\ bar \in Nat /\ l > 0 /\ l >= bar
    BY <1>0, <1>1, <1>2, <1>10
  <2>3. mem[x] = m0[x]
    BY <1>3, <2>2, StoodOn
  <2>4. IsLink(m0[x][pageindex(va, l)]) /\ m0[x][pageindex(va, l)].pa = e.pa
    BY <1>6, <1>10, <2>3
  <2>5. Stands(e.pa, va, l - 1, t0, lev, at)
    BY <1>3, <1>4, <1>5, <2>2, <2>4, LedTo
  <2>6. Looping(mem, tables, AtPage("down", l - 1, e.pa, va, skip, stop), m0, t0, lev, at)
    BY <1>3, <1>10, <2>2, <2>5, LoopingIs
  <2> QED
    BY <1>8, <2>1, <2>6
<1>11. ASSUME ~(IsLink(e) /\ ~skip) PROVE stop = 1 /\ Held(mem, tables, va, l, m0, t0, lev, at)
  BY <1>1, <1>2, <1>3, <1>6, <1>11, EntryDone
<1>12. CASE ~(IsLink(e) /\ ~skip) /\ Region(b, l + 1) = Region(va, l + 1)
  <2>1. pti' = AtPage("down", l, x, b, FALSE, stop)
    BY <1>6, <1>7, <1>12 DEF Turn
  <2>2. stop = 1 /\ Held(mem, tables, va, l, m0, t0, lev, at)
    BY <1>11, <1>12
  <2>3. /\ b \in 0 .. NoncanonEnd - 1
        /\ \A k \in Levels, a \in 0 .. NoncanonEnd - 1 : Passed(va, l, k, a) <=> Passed(b, 0, k, a)
    BY <1>4, <1>7, <1>12, Onward
  <2>4. \A z \in t0 : lev[z] \in Levels /\ at[z] \in 0 .. NoncanonEnd - 1
    BY <1>4 DEF Placed
  <2>5. {z \in t0 : ~Passed(va, l, lev[z], at[z])} = {z \in t0 : ~Passed(b, 0, lev[z], at[z])}
    BY <2>3, <2>4
  <2>6. Held(mem, tables, b, 0, m0, t0, lev, at)
    BY <2>2, <2>3, <2>5 DEF Held
  <2>7. Stands(x, b, l, t0, lev, at)
    BY <1>3, <1>12 DEF Stands
  <2>8. Ahead(b, stop, t0, lev, at)
    BY <2>2 DEF Ahead
  <2>9. PICK f \in BOOLEAN : f = FALSE
    OBVIOUS
  <2>10. 0 = IF f THEN l ELSE stop - 1
    BY <2>2, <2>9
  <2>11. Looping(mem, tables, AtPage("down", l, x, b, f, stop), m0, t0, lev, at)
    BY <2>6, <2>7, <2>8, <2>9, <2>10, LoopingIs
  <2> QED
    BY <1>8, <2>1, <2>9, <2>11
<1>13. ASSUME ~(IsLink(e) /\ ~skip), Region(b, l + 1) # Region(va, l + 1)
       PROVE  Held(mem, tables, va, l, m0, t0, lev, at) /\ pageindex(va, l) = FANOUT - 1
  BY <1>4, <1>7, <1>11, <1>13, LastEntry
<1>14. CASE ~(IsLink(e) /\ ~skip) /\ Region(b, l + 1) # Region(va, l + 1) /\ l = TOP
  <2>1. pti' = [NoPtiter EXCEPT !.va = NoncanonEnd]
    BY <1>6, <1>7, <1>14 DEF Turn
  <2>2. pti'.pc = "off"
    BY <2>1 DEF NoPtiter
  <2>3. \A z \in t0 : Passed(va, TOP, lev[z], at[z])
    BY <1>4, <1>13, <1>14, AllPassed
  <2>4. tables = {}
    BY <1>13, <1>14, <2>3 DEF Held
  <2> QED
    BY <2>2, <2>4
<1>15. CASE ~(IsLink(e) /\ ~skip) /\ Region(b, l + 1) # Region(va, l + 1) /\ l # TOP
  <2>1. PICK s \in 1 .. TOP : s = l + 1 /\ s - 1 = l
    BY <1>0, <1>15
  <2>2. pti' = AtPage("down", TOP, Root, va, FALSE, s)
    BY <1>6, <1>7, <1>15, <2>1 DEF Turn
  <2>3. x \in t0 /\ lev[x] = l /\ Region(at[x], l + 1) = Region(va, l + 1)
    BY <1>3, <1>4, <1>15 DEF Stands, Placed
  <2>4. Ahead(va, s, t0, lev, at)
    <3>1. pageindex(va, s - 1) = FANOUT - 1
      BY <1>13, <1>15, <2>1
    <3>2. lev[x] = s - 1 /\ Region(at[x], s) = Region(va, s)
      BY <2>1, <2>3
    <3> QED
      BY <2>3, <3>1, <3>2, Zenon DEF Ahead
  <2>5. Stands(Root, va, TOP, t0, lev, at)
    <3>1. at[Root] \in 0 .. NoncanonEnd - 1 /\ lev[Root] = TOP
      BY <1>4 DEF Placed
    <3>2. Region(at[Root], TOP + 1) = 0 /\ Region(va, TOP + 1) = 0
      BY <1>4, <3>1, RegionRoot
    <3> QED
      BY <3>1, <3>2 DEF Stands
  <2>6. PICK f \in BOOLEAN : f = FALSE
    OBVIOUS
  <2>7. l = IF f THEN TOP ELSE s - 1
    BY <2>1, <2>6
  <2>8. Looping(mem, tables, AtPage("down", TOP, Root, va, f, s), m0, t0, lev, at)
    BY <1>13, <1>15, <2>4, <2>5, <2>6, <2>7, LoopingIs
  <2> QED
    BY <1>8, <2>2, <2>6, <2>8
<1> QED
  BY <1>9, <1>10, <1>12, <1>14, <1>15

\* The ptiter has stopped at the entry of page x that leads to the page p.
StoppedAt(k, x, va, p, m0, t0, lev, at) ==
    /\ pti = AtPage("at", k, x, va, FALSE, k) /\ p = Entry(mem, pti.slot).pa
    /\ Held(mem, tables, va, k - 1, m0, t0, lev, at) /\ Stands(x, va, k, t0, lev, at)
    /\ Ahead(va, k, t0, lev, at) /\ Stands(p, va, k - 1, t0, lev, at)
    /\ p \in tables /\ p # Root /\ mem[p] = m0[p]
LEMMA StopIs ==
    ASSUME Inv, pti.pc = "at", NEW m0, NEW t0, NEW lev, NEW at,
           Looping(mem, tables, pti, m0, t0, lev, at)
    PROVE  \E k \in 1 .. TOP, x \in Pages, va \in 0 .. NoncanonEnd - 1, p \in t0 :
             StoppedAt(k, x, va, p, m0, t0, lev, at)
<1>1. PICK k \in Levels : k = pti.level
  BY AtEntry
<1>2. PICK va \in VAs : va = pti.va
  BY AtEntry
<1>3. PICK x \in Pages : x = pti.slot[1]
  BY AtEntry
<1>4. PICK stop \in 1 .. TOP : stop = pti.stop
  BY AtEntry
<1>5. PICK skip \in BOOLEAN : skip = pti.skip
  BY DEF Inv, Visits, Ptiters
<1>6. pti = AtPage("at", k, x, va, skip, stop)
  <2>1. pti.slot = <<x, pageindex(va, k)>>
    BY <1>1, <1>2, <1>3, AtEntry
  <2> QED
    BY <1>1, <1>2, <1>4, <1>5, <2>1 DEF Inv, Visits, Ptiters, AtPage
<1>7. PICK bar : bar = IF skip THEN k ELSE stop - 1
  OBVIOUS
<1>8. Looping(mem, tables, AtPage("at", k, x, va, skip, stop), m0, t0, lev, at)
  BY <1>6
<1>9. /\ Held(mem, tables, va, bar, m0, t0, lev, at) /\ Stands(x, va, k, t0, lev, at)
      /\ Ahead(va, stop, t0, lev, at) /\ ~skip /\ k = stop /\ IsLink(mem[x][pageindex(va, k)])
  BY <1>7, <1>8, LoopingIs
<1>10. k \in 1 .. TOP /\ bar = k - 1 /\ bar \in Nat /\ k >= bar /\ k > 0 /\ TOP \in Nat
  BY <1>7, <1>9, Constants
<1>11. va \in 0 .. NoncanonEnd - 1 /\ Placed(m0, t0, lev, at) /\ Root \notin t0
  BY <1>9 DEF Held
<1>12. va \in Nat
  BY <1>11, RegionRoot
<1>13. mem[x] = m0[x]
  BY <1>9, <1>10, StoodOn
<1>14. PICK p : p = m0[x][pageindex(va, k)].pa
  OBVIOUS
<1>15. p \in t0 /\ Stands(p, va, k - 1, t0, lev, at)
  BY <1>9, <1>10, <1>11, <1>12, <1>13, <1>14, LedTo
<1>16. k - 1 \in Levels /\ k - 1 \in Nat /\ k - 1 >= bar
  BY <1>10 DEF Levels
<1>17. p \in tables \cup {Root} /\ mem[p] = m0[p]
  BY <1>9, <1>10, <1>15, <1>16, StoodOn
<1>18. p # Root
  BY <1>11, <1>15
<1>19. p = Entry(mem, pti.slot).pa
  <2>1. pti.slot = <<x, pageindex(va, k)>>
    BY <1>1, <1>2, <1>3, AtEntry
  <2>2. Entry(mem, pti.slot) = mem[x][pageindex(va, k)]
    BY <2>1, RealSlot
  <2> QED
    BY <1>13, <1>14, <2>2
<1>20. pti = AtPage("at", k, x, va, FALSE, k)
  BY <1>6, <1>9
<1>21. StoppedAt(k, x, va, p, m0, t0, lev, at)
  <2>1. Held(mem, tables, va, k - 1, m0, t0, lev, at) /\ Ahead(va, k, t0, lev, at)
    BY <1>9, <1>10
  <2> QED
    BY <1>9, <1>15, <1>17, <1>18, <1>19, <1>20, <2>1 DEF StoppedAt
<1> QED
  BY <1>10, <1>11, <1>15, <1>21

\* The page there is still in use, and the pages it leads to are freed.
LEMMA ChildrenFreed ==
    ASSUME Inv, pti.pc = "at", NEW m0, NEW t0, NEW lev, NEW at,
           Looping(mem, tables, pti, m0, t0, lev, at)
    PROVE  FreesChildrenFirst
<1>0. PICK k \in 1 .. TOP, x \in Pages, va \in 0 .. NoncanonEnd - 1, p \in t0 :
        StoppedAt(k, x, va, p, m0, t0, lev, at)
  BY StopIs
<1>1. /\ pti = AtPage("at", k, x, va, FALSE, k) /\ p = Entry(mem, pti.slot).pa
      /\ Held(mem, tables, va, k - 1, m0, t0, lev, at)
      /\ Ahead(va, k, t0, lev, at) /\ Stands(p, va, k - 1, t0, lev, at)
       /\ p \in tables /\ mem[p] = m0[p]
  BY <1>0 DEF StoppedAt
<1>2. pti.level = k /\ va \in Nat
  BY <1>1, RegionRoot DEF AtPage
<1>3. Placed(m0, t0, lev, at) /\ tables = {z \in t0 : ~Passed(va, k - 1, lev[z], at[z])}
  BY <1>1 DEF Held
<1>4. ASSUME k > 1, NEW n \in 0 .. FANOUT - 1, IsLink(mem[p][n])
      PROVE  mem[p][n].pa \notin tables
  <2>1. k \in 2 .. TOP /\ IsLink(m0[p][n]) /\ mem[p][n].pa = m0[p][n].pa
    BY <1>1, <1>4
  <2>2. Passed(va, k - 1, lev[m0[p][n].pa], at[m0[p][n].pa])
    BY <1>1, <1>2, <1>3, <2>1, ChildrenPassed
  <2> QED
    BY <1>3, <2>1, <2>2
<1> QED
  BY <1>1, <1>2, <1>4 DEF FreesChildrenFirst

\* Freeing the page keeps the loop's invariant.
LEMMA FreeTableLoops ==
    ASSUME Inv, FreeTable, NEW m0, NEW t0, NEW lev, NEW at,
           Looping(mem, tables, pti, m0, t0, lev, at)
    PROVE  Looping(mem', tables', pti', m0, t0, lev, at) /\ pti'.pc = "down"
<1>0. PICK k \in 1 .. TOP, x \in Pages, va \in 0 .. NoncanonEnd - 1, p \in t0 :
        StoppedAt(k, x, va, p, m0, t0, lev, at)
  BY StopIs DEF FreeTable
<1>1. /\ pti = AtPage("at", k, x, va, FALSE, k) /\ p = Entry(mem, pti.slot).pa
      /\ Held(mem, tables, va, k - 1, m0, t0, lev, at) /\ Stands(x, va, k, t0, lev, at)
      /\ Ahead(va, k, t0, lev, at) /\ Stands(p, va, k - 1, t0, lev, at)
       /\ p \in tables /\ p # Root
  BY <1>0 DEF StoppedAt
<1>2. va \in Nat
  BY RegionRoot
<1>3. PICK blank : blank = [n \in 0 .. FANOUT - 1 |-> [pa |-> 0, perm |-> {"P"}]]
  OBVIOUS
<1>4. /\ mem' = [mem EXCEPT ![p] = blank] /\ tables' = tables \ {p}
      /\ pti' = [pti EXCEPT !.pc = "down", !.skip = TRUE, !.stop = 1]
  BY <1>1, <1>3 DEF FreeTable
<1>5. pti' = AtPage("down", k, x, va, TRUE, 1) /\ pti'.pc = "down"
  BY <1>1, <1>4 DEF AtPage
<1>6. /\ t0 \in SUBSET Pages /\ Root \notin t0 /\ Placed(m0, t0, lev, at)
      /\ tables = {z \in t0 : ~Passed(va, k - 1, lev[z], at[z])}
      /\ \A z \in tables \cup {Root} : mem[z] = m0[z]
  BY <1>1 DEF Held
<1>7. \A z \in t0 : Passed(va, k, lev[z], at[z]) <=> Passed(va, k - 1, lev[z], at[z]) \/ z = p
  <2> SUFFICES ASSUME NEW z \in t0
               PROVE  Passed(va, k, lev[z], at[z]) <=> Passed(va, k - 1, lev[z], at[z]) \/ z = p
    OBVIOUS
  <2>1. Placed(m0, t0, lev, at) /\ Ahead(va, k, t0, lev, at) /\ Stands(p, va, k - 1, t0, lev, at)
    BY <1>1, <1>6
  <2> QED
    BY ONLY <2>1, <1>2, FreeOne, k \in 1 .. TOP, p \in t0, z \in t0, SMTT(60)
<1>8. tables' = {z \in t0 : ~Passed(va, k, lev[z], at[z])}
  BY <1>4, <1>6, <1>7
<1>9. \A z \in tables' \cup {Root} : mem'[z] = m0[z]
  <2>1. mem \in [Pages -> [0 .. FANOUT - 1 -> Entries]] /\ Root \in Pages
    BY Constants DEF Inv, Types, Memory
  <2>2. \A z \in tables' \cup {Root} : z # p /\ z \in tables \cup {Root} /\ z \in Pages
    BY <1>1, <1>4, <1>6, <2>1
  <2>3. \A z \in tables' \cup {Root} : mem'[z] = mem[z]
    BY <1>4, <2>1, <2>2
  <2> QED
    BY <1>6, <2>2, <2>3
<1>10. Held(mem', tables', va, k, m0, t0, lev, at)
  BY <1>6, <1>8, <1>9 DEF Held
<1>11. Ahead(va, 1, t0, lev, at)
  BY DEF Ahead
<1>12. PICK f \in BOOLEAN, s \in {1} : f = TRUE /\ s = 1
  OBVIOUS
<1>13. PICK n, t : n = mem' /\ t = tables'
  OBVIOUS
<1>14. Held(n, t, va, k, m0, t0, lev, at) /\ Ahead(va, s, t0, lev, at)
  BY <1>10, <1>11, <1>12, <1>13
<1>15. k = IF f THEN k ELSE s - 1
  BY <1>12
<1>16. Looping(n, t, AtPage("down", k, x, va, f, s), m0, t0, lev, at)
  <2>1. PICK pc : pc = "down" /\ pc # "at"
    OBVIOUS
  <2>2. Stands(x, va, k, t0, lev, at) /\ (f => s = 1 /\ pc = "down")
    BY <1>1, <1>12, <2>1
  <2>3. Looping(n, t, AtPage(pc, k, x, va, f, s), m0, t0, lev, at)
    BY ONLY <1>14, <1>15, <2>1, <2>2, LoopingIs, f \in BOOLEAN, SMTT(60)
  <2> QED
    BY <2>1, <2>3
<1> QED
  BY <1>5, <1>12, <1>13, <1>16

\* While the loop runs it keeps its invariant; when it is over nothing is left.
Freeing ==
    /\ phase = "free" => IF pti.pc = "off" THEN tables = {}
                         ELSE \E m0, t0, lev, at : Looping(mem, tables, pti, m0, t0, lev, at)
    /\ phase = "done" => tables = {}

\* The loop starts at the root, with everything ahead.
LEMMA GoLoops ==
    ASSUME Inv, go
    PROVE  \E m0, t0, lev, at : Looping(mem, tables, pti', m0, t0, lev, at)
<1>1. Fine(Table)
  BY DEF Inv, InUse, go
<1>2. IsTree(mem, tables) /\ Sep(tables, free) /\ mem \in Memory /\ tables \in SUBSET Pages
  BY <1>1, TableIs DEF Fine, Inv, Types
<1>3. PICK m \in Memory, t \in SUBSET Pages : m = mem /\ t = tables
  BY <1>2
<1>4. PICK lev, cell : Tree(m, t, lev, cell)
  BY <1>2, <1>3 DEF IsTree
<1>5. PICK at : Placed(m, t, lev, at)
  BY <1>4, TreePlaced
<1>6. PICK va \in 0 .. NoncanonEnd - 1 : va = 0
  <2>1. TOP + 1 \in 0 .. TOP + 1
    BY Constants
  <2>2. Span[TOP + 1] \in Nat \ {0}
    BY <2>1, SpanIs
  <2> QED
    BY <2>2 DEF NoncanonEnd
<1>7. \A l \in 0 .. TOP + 1 : Region(va, l) = 0
  <2>1. \A s \in Nat \ {0} : 0 \div s = 0
    OBVIOUS
  <2>2. \A l \in 0 .. TOP + 1 : Span[l] \in Nat \ {0}
    BY SpanIs
  <2> QED
    BY <1>6, <2>1, <2>2 DEF Region
<1>8. TOP \in Nat /\ Levels = 0 .. TOP /\ FANOUT \in Nat \ {0}
  BY Constants DEF Levels
<1>9. \A x \in t : ~Passed(va, 0, lev[x], at[x])
  <2> SUFFICES ASSUME NEW x \in t PROVE ~Passed(va, 0, lev[x], at[x])
    OBVIOUS
  <2>1. PICK l \in 0 .. TOP, a \in 0 .. NoncanonEnd - 1 : l = lev[x] /\ a = at[x]
    BY <1>5, <1>8 DEF Placed
  <2>2. Region(a, l + 1) \in Nat
    BY RegionRoot, RegionIs
  <2>3. Region(va, l + 1) = 0
    BY <1>7, <1>8
  <2>4. ~(l < 0) /\ ~(Region(a, l + 1) < Region(va, l + 1))
    BY <2>2, <2>3
  <2> QED
    BY <2>1, <2>4 DEF Passed
<1>10. Held(m, t, va, 0, m, t, lev, at)
  <2>1. Root \notin t
    BY <1>2, <1>3 DEF Sep
  <2> QED
    BY <1>5, <1>9, <2>1 DEF Held
<1>11. Stands(Root, va, TOP, t, lev, at)
  <2>1. at[Root] \in 0 .. NoncanonEnd - 1 /\ lev[Root] = TOP
    BY <1>5 DEF Placed
  <2> QED
    BY <2>1, RegionRoot DEF Stands
<1>12. PICK f \in BOOLEAN, s \in {1}, pc \in {"down"} : f = FALSE
  OBVIOUS
<1>13. Ahead(va, s, t, lev, at) /\ 0 = (IF f THEN TOP ELSE s - 1) /\ pc # "at"
  BY <1>12 DEF Ahead
<1>14. Looping(m, t, AtPage(pc, TOP, Root, va, f, s), m, t, lev, at)
  BY ONLY <1>10, <1>11, <1>12, <1>13, LoopingIs, f \in BOOLEAN, SMTT(60)
<1>15. pti' = AtPage(pc, TOP, Root, va, f, s)
  <2>1. pageindex(va, TOP) = 0
    <3>1. Region(va, TOP) = 0 /\ 0 % FANOUT = 0
      BY <1>7, <1>8
    <3> QED
      BY <3>1 DEF pageindex, Region
  <2> QED
    BY <1>6, <1>12, <2>1 DEF go, NoPtiter, AtPage
<1> HIDE DEF Looping
<1> QED
  BY <1>3, <1>14, <1>15

\* Every step keeps it.
LEMMA StepFreeing ==
    ASSUME Inv, Freeing, [Next]_vars
    PROVE  Freeing'
<1>1. CASE UNCHANGED vars
  BY <1>1 DEF vars, Freeing
<1>2. CASE phase = "map" /\ phase' = "map"
  BY <1>2 DEF Freeing
<1>3. CASE go
  <2>1. PICK m0, t0, lev, at : Looping(mem, tables, pti', m0, t0, lev, at)
    BY <1>3, GoLoops
  <2>2. phase' = "free" /\ mem' = mem /\ tables' = tables /\ pti'.pc = "down"
    BY <1>3 DEF go, NoPtiter
  <2>3. Looping(mem', tables', pti', m0, t0, lev, at)
    BY <2>1, <2>2
  <2> QED
    BY <2>2, <2>3 DEF Freeing
<1>4. CASE PtDown
  <2>1. phase = "free" /\ pti.pc = "down" /\ phase' = "free" /\ mem' = mem /\ tables' = tables
    BY <1>4 DEF PtDown
  <2>2. PICK m0, t0, lev, at : Looping(mem, tables, pti, m0, t0, lev, at)
    BY <2>1 DEF Freeing
  <2>3. PICK l \in Levels, x \in Pages, va \in VAs, skip \in BOOLEAN, stop \in 1 .. TOP :
          Turn(l, x, va, skip, stop)
    BY <1>4, PtDownIs
  <2>4. IF pti'.pc = "off" THEN tables = {} ELSE Looping(mem, tables, pti', m0, t0, lev, at)
    BY <2>2, <2>3, TurnLoops
  <2>5. IF pti'.pc = "off" THEN tables' = {} ELSE Looping(mem', tables', pti', m0, t0, lev, at)
    BY <2>1, <2>4
  <2> QED
    BY <2>1, <2>5 DEF Freeing
<1>5. CASE FreeTable
  <2>1. phase = "free" /\ pti.pc = "at" /\ phase' = "free"
    BY <1>5 DEF FreeTable
  <2>2. PICK m0, t0, lev, at : Looping(mem, tables, pti, m0, t0, lev, at)
    BY <2>1 DEF Freeing
  <2>3. Looping(mem', tables', pti', m0, t0, lev, at) /\ pti'.pc = "down"
    BY <1>5, <2>2, FreeTableLoops
  <2> QED
    BY <2>1, <2>3 DEF Freeing
<1>6. CASE FreeEnd
  <2>1. phase = "free" /\ pti.va = NoncanonEnd /\ phase' = "done" /\ tables' = tables
    BY <1>6 DEF FreeEnd
  <2>2. ASSUME NEW m0, NEW t0, NEW lev, NEW at, Looping(mem, tables, pti, m0, t0, lev, at)
        PROVE  FALSE
    <3>1. pti.va \in 0 .. NoncanonEnd - 1
      BY <2>2 DEF Looping, Held
    <3>2. NoncanonEnd \in Nat
      BY EndsIn, Constants
    <3> QED
      BY <2>1, <3>1, <3>2
  <2>3. tables = {}
    BY <2>1, <2>2 DEF Freeing
  <2> QED
    BY <2>1, <2>3 DEF Freeing
<1>7. CASE (\E va \in VAs : Find(va)) \/ next \/ next_range
  <2>1. phase = "map" /\ phase' = "map"
    BY <1>7 DEF Find, next, next_range
  <2> QED
    BY <1>2, <2>1
<1>8. CASE \E pa \in DataPages, p \in Perms : TryMap(pa, p)
  <2>1. phase = "map" /\ phase' = "map"
    BY <1>8 DEF TryMap
  <2> QED
    BY <1>2, <2>1
<1>9. CASE \E va \in VAs, pa \in DataPages, p \in Perms : TryMapElsewhere(va, pa, p)
  <2>1. phase = "map" /\ phase' = "map"
    BY <1>9 DEF TryMapElsewhere
  <2> QED
    BY <1>2, <2>1
<1> QED
  BY <1>1, <1>3, <1>4, <1>5, <1>6, <1>7, <1>8, <1>9 DEF Next

\* The loop's invariant holds in every reachable state.
LEMMA LoopInvariance == Spec => []Freeing
<1>1. Init => Freeing
  BY DEF Init, Freeing
<1>2. Inv /\ Freeing /\ [Next]_vars => Freeing'
  BY StepFreeing
<1> QED
  BY <1>1, <1>2, Invariance, PTL DEF Spec

\* The loop of k-vmiter.hh:76-79 frees a page table page that is still in use and whose own page
\* table pages it has freed before, for every page table that was built: it never reads a page
\* that it has given back.
THEOREM ChildrenFirst == Spec => []FreesChildrenFirst
<1>1. Inv /\ Freeing => FreesChildrenFirst
  <2>1. ASSUME Inv, Freeing, phase = "free", pti.pc = "at" PROVE FreesChildrenFirst
    <3>1. PICK m0, t0, lev, at : Looping(mem, tables, pti, m0, t0, lev, at)
      BY <2>1 DEF Freeing
    <3> QED
      BY <2>1, <3>1, ChildrenFreed
  <2>2. ~(phase = "free" /\ pti.pc = "at") => FreesChildrenFirst
    BY DEF FreesChildrenFirst
  <2> QED
    BY <2>1, <2>2
<1> QED
  BY <1>1, Invariance, LoopInvariance, PTL

\* When that loop is over it has freed every page table page but the root.
THEOREM AllFreed == Spec => [](phase = "done" => tables = {})
<1>1. Freeing => (phase = "done" => tables = {})
  BY DEF Freeing
<1> QED
  BY <1>1, LoopInvariance, PTL

=============================================================================
