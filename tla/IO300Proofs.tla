---------------------------- MODULE IO300Proofs ----------------------------
(***************************************************************************)
(* Proofs about the implementations of io300.h and the programs linked     *)
(* with them: each is the file ByteFile describes, and no program makes    *)
(* stdio change direction where the C standard leaves that undefined.      *)
(***************************************************************************)
EXTENDS IO300Programs, ProofLemmas, SequenceTheorems, TLAPS

Bytes == 0 .. 255
OpenFiles == [off : Nat, ahead : Seq(Bytes), pending : Seq(Bytes),
              dir : {"none", "read", "write"}, err : BOOLEAN, misused : BOOLEAN]

\* An open file f over the bytes d on disk.  What is buffered is what lies before the
\* descriptor's offset, or what is to be written after it, and never both.
Handle(f, d) ==
    /\ d \in Seq(Bytes) /\ f \in OpenFiles
    /\ f.misused = FALSE
    /\ Len(f.ahead) <= f.off
    /\ f.ahead # <<>> => /\ f.off <= Len(d)
                         /\ f.ahead = Between(d, f.off - Len(f.ahead), f.off)
    /\ f.dir # "read" => f.ahead = <<>>
    /\ f.dir # "write" => f.pending = <<>>

\* What a user of the file would read, and where.
View(f, d) == Overlaid(d, f.off, f.pending)
At(f) == f.off - Len(f.ahead) + Len(f.pending)

-----------------------------------------------------------------------------
(* Sequences of bytes.                                                     *)

\* A function from 1 .. n is a sequence.
LEMMA FunctionIsSeq ==
    ASSUME NEW S, NEW n \in Nat, NEW f \in [1 .. n -> S]
    PROVE  f \in Seq(S) /\ Len(f) = n
OBVIOUS

\* The bytes from a to b.
LEMMA BetweenBytes ==
    ASSUME NEW d \in Seq(Bytes), NEW a \in Nat, NEW b \in Nat, a <= b, b <= Len(d) \/ a = b
    PROVE  /\ Between(d, a, b) \in Seq(Bytes) /\ Len(Between(d, a, b)) = b - a
           /\ \A k \in 1 .. b - a : Between(d, a, b)[k] = d[a + k]
<1>1. \A k \in a + 1 .. b : d[k] \in Bytes
  OBVIOUS
<1> QED
  BY <1>1, SubSeqProperties DEF Between

\* What a write leaves on disk, byte by byte.
LEMMA OverlaidBytes ==
    ASSUME NEW d \in Seq(Bytes), NEW off \in Nat, NEW s \in Seq(Bytes)
    PROVE  /\ Overlaid(d, off, s) \in Seq(Bytes)
           /\ Len(Overlaid(d, off, s)) =
                IF Len(d) >= off + Len(s) \/ s = <<>> THEN Len(d) ELSE off + Len(s)
           /\ \A k \in 1 .. Len(Overlaid(d, off, s)) :
                Overlaid(d, off, s)[k] = IF k \in (off + 1)..(off + Len(s)) THEN s[k - off]
                                         ELSE IF k <= Len(d) THEN d[k] ELSE 0
<1> DEFINE n == IF Len(d) >= off + Len(s) \/ s = <<>> THEN Len(d) ELSE off + Len(s)
<1>1. n \in Nat
  OBVIOUS
<1>2. Overlaid(d, off, s) \in [1 .. n -> Bytes]
  <2>1. ASSUME NEW k \in 1 .. n
        PROVE  (IF k \in (off + 1)..(off + Len(s)) THEN s[k - off]
                ELSE IF k <= Len(d) THEN d[k] ELSE 0) \in Bytes
    <3>1. CASE k \in (off + 1)..(off + Len(s))
      <4>1. k - off \in 1 .. Len(s)
        BY <3>1
      <4> QED
        BY <3>1, <4>1, ElementOfSeq
    <3>2. CASE k \notin (off + 1)..(off + Len(s)) /\ k <= Len(d)
      BY <2>1, <3>2, ElementOfSeq
    <3> QED
      BY <3>1, <3>2 DEF Bytes
  <2> QED
    BY <2>1 DEF Overlaid
<1>3. Overlaid(d, off, s) \in Seq(Bytes) /\ Len(Overlaid(d, off, s)) = n
  <2> HIDE DEF n
  <2> QED
    BY <1>1, <1>2, FunctionIsSeq
<1> QED
  BY <1>3 DEF Overlaid

\* Writing nothing changes nothing.
LEMMA OverlaidNothing ==
    ASSUME NEW d \in Seq(Bytes), NEW off \in Nat
    PROVE  Overlaid(d, off, <<>>) = d
<1>1. PICK s \in Seq(Bytes) : s = <<>> /\ Len(s) = 0
  BY EmptySeq
<1>2. PICK e : e = Overlaid(d, off, s)
  OBVIOUS
<1>3. e \in Seq(Bytes) /\ Len(e) = Len(d)
  BY <1>1, <1>2, OverlaidBytes
<1>4. \A k \in 1 .. Len(e) : e[k] = IF k \in (off + 1)..(off + Len(s)) THEN s[k - off]
                                      ELSE IF k <= Len(d) THEN d[k] ELSE 0
  BY <1>2, OverlaidBytes
<1>5. \A k \in 1 .. Len(d) : e[k] = d[k]
  BY <1>1, <1>3, <1>4
<1>6. e = d
  BY <1>3, <1>5, SeqEqual
<1> QED
  BY <1>1, <1>2, <1>6

Joined(s, t, u) == u = s \o t

\* Two writes, one after the other, are one write.
LEMMA OverlaidTwice ==
    ASSUME NEW d \in Seq(Bytes), NEW off \in Nat, NEW s \in Seq(Bytes), NEW t \in Seq(Bytes),
           NEW m \in Nat, m = off + Len(s), NEW u \in Seq(Bytes), Joined(s, t, u)
    PROVE  Overlaid(Overlaid(d, off, s), m, t) = Overlaid(d, off, u)
<1>1. m = off + Len(s)
  OBVIOUS
<1>2.   /\ Len(u) = Len(s) + Len(t)
        /\ \A k \in 1 .. Len(s) + Len(t) : u[k] = IF k <= Len(s) THEN s[k] ELSE t[k - Len(s)]
  <2>1. /\ s \o t \in Seq(Bytes) /\ Len(s \o t) = Len(s) + Len(t)
        /\ \A k \in 1 .. Len(s) + Len(t) : (s \o t)[k] = IF k <= Len(s) THEN s[k] ELSE t[k - Len(s)]
    BY ConcatProperties
  <2>2. u = s \o t
    BY DEF Joined
  <2> QED
    BY <2>1, <2>2, Zenon
<1>3. PICK e \in Seq(Bytes) : e = Overlaid(d, off, s)
  BY OverlaidBytes
<1>4. PICK f \in Seq(Bytes) : f = Overlaid(e, m, t)
  BY OverlaidBytes
<1>5. PICK g \in Seq(Bytes) : g = Overlaid(d, off, u)
  BY OverlaidBytes
<1>6. /\ Len(e) = IF Len(d) >= off + Len(s) \/ s = <<>> THEN Len(d) ELSE off + Len(s)
      /\ \A k \in 1 .. Len(e) : e[k] = IF k \in (off + 1)..(off + Len(s)) THEN s[k - off]
                                        ELSE IF k <= Len(d) THEN d[k] ELSE 0
  BY <1>3, OverlaidBytes, SMTT(30)
<1>7. /\ Len(f) = IF Len(e) >= m + Len(t) \/ t = <<>> THEN Len(e) ELSE m + Len(t)
      /\ \A k \in 1 .. Len(f) : f[k] = IF k \in (m + 1)..(m + Len(t)) THEN t[k - m]
                                        ELSE IF k <= Len(e) THEN e[k] ELSE 0
  BY <1>4, OverlaidBytes, SMTT(30)
<1>8. /\ Len(g) = IF Len(d) >= off + Len(u) \/ u = <<>> THEN Len(d) ELSE off + Len(u)
      /\ \A k \in 1 .. Len(g) : g[k] = IF k \in (off + 1)..(off + Len(u)) THEN u[k - off]
                                        ELSE IF k <= Len(d) THEN d[k] ELSE 0
  BY <1>5, OverlaidBytes, SMTT(30)
<1>9. /\ s = <<>> <=> Len(s) = 0
      /\ t = <<>> <=> Len(t) = 0
      /\ u = <<>> <=> Len(u) = 0
  BY EmptySeq
<1>10. Len(f) = Len(g)
  <2>1. /\ Len(s) \in Nat /\ Len(t) \in Nat /\ Len(d) \in Nat /\ Len(e) \in Nat /\ Len(u) \in Nat
        /\ Len(u) = Len(s) + Len(t)
    BY <1>2
  <2>2. CASE Len(t) = 0
    BY <1>1, <1>6, <1>7, <1>8, <1>9, <2>1, <2>2
  <2>3. CASE Len(t) > 0
    <3>1. t # <<>> /\ u # <<>>
      BY <1>9, <2>1, <2>3
    <3> QED
      BY <1>1, <1>6, <1>7, <1>8, <1>9, <2>1, <2>3, <3>1
  <2> QED
    BY <2>1, <2>2, <2>3
<1>11. ASSUME NEW k \in 1 .. Len(f) PROVE f[k] = g[k]
  <2>1. Len(s) \in Nat /\ Len(t) \in Nat /\ Len(d) \in Nat /\ Len(e) \in Nat /\ k \in 1 .. Len(g)
        /\ Len(f) \in Nat /\ k \in Nat
    BY <1>10
  <2>2. CASE k <= off
    <3>1. g[k] = IF k <= Len(d) THEN d[k] ELSE 0
      BY <1>8, <2>1, <2>2
    <3>2. f[k] = IF k <= Len(e) THEN e[k] ELSE 0
      BY <1>1, <1>7, <2>1, <2>2
    <3>3. k <= Len(e) => e[k] = IF k <= Len(d) THEN d[k] ELSE 0
      BY <1>6, <2>1, <2>2
    <3>4. k <= Len(d) => k <= Len(e)
      BY <1>6, <2>1
    <3> QED
      BY <3>1, <3>2, <3>3, <3>4
  <2>3. CASE k \in off + 1 .. m
    <3>1. k <= Len(e) /\ k \in 1 .. Len(e)
      BY <1>1, <1>6, <1>9, <2>1, <2>3
    <3>2. f[k] = e[k]
      BY <1>1, <1>7, <2>1, <2>3, <3>1
    <3>3. e[k] = s[k - off]
      BY <1>1, <1>6, <2>3, <3>1
    <3>4. PICK j \in 1 .. Len(s) : j = k - off
      BY <1>1, <2>1, <2>3
    <3>5. u[j] = s[j]
      <4>1. j \in 1 .. Len(s) + Len(t) /\ j <= Len(s)
        BY <2>1, <3>4
      <4> QED
        BY ONLY <1>2, <4>1
    <3>6. k \in (off + 1)..(off + Len(u))
      BY <1>1, <1>2, <2>1, <2>3
    <3>7. g[k] = u[j]
      BY <1>8, <2>1, <3>4, <3>6
    <3> QED
      BY <3>2, <3>3, <3>4, <3>5, <3>7
  <2>4. CASE k \in m + 1 .. m + Len(t)
    <3>1. f[k] = t[k - m]
      BY <1>7, <2>4
    <3>2. PICK j \in Len(s) + 1 .. Len(s) + Len(t) : j = k - off
      BY <1>1, <2>1, <2>4
    <3>7. j \in 1 .. Len(s) + Len(t) /\ ~(j <= Len(s))
      BY <2>1, <3>2
    <3>3. u[j] = t[j - Len(s)]
      BY <1>2, <3>7
    <3>4. j - Len(s) = k - m
      BY <1>1, <2>1, <3>2
    <3>5. k \in (off + 1)..(off + Len(u))
      BY <1>1, <1>2, <2>1, <2>4
    <3>6. g[k] = u[j]
      BY <1>8, <2>1, <3>2, <3>5
    <3> QED
      BY <3>1, <3>3, <3>4, <3>6
  <2>5. CASE k > m + Len(t)
    <3>1. k <= Len(d) /\ Len(e) = Len(d)
      BY <1>1, <1>6, <1>7, <1>9, <2>1, <2>5
    <3>2. f[k] = e[k]
      BY <1>7, <2>1, <2>5, <3>1
    <3>4. k \in 1 .. Len(e) /\ k \notin (off + 1)..(off + Len(s))
      BY <1>1, <2>1, <2>5, <3>1
    <3>5. e[k] = d[k]
      BY <1>6, <3>1, <3>4
    <3>3. g[k] = d[k]
      BY <1>1, <1>2, <1>8, <2>1, <2>5, <3>1
    <3> QED
      BY <3>2, <3>3, <3>5
  <2> QED
    BY <1>1, <2>1, <2>2, <2>3, <2>4, <2>5
<1>12. f = g
  BY <1>10, <1>11, SeqEqual
<1> QED
  BY <1>3, <1>4, <1>5, <1>12

\* What is written out of n bytes is a number of whole buffers.
LEMMA WholeBuffers ==
    ASSUME NEW n \in Nat
    PROVE  (n \div BUFSIZ) * BUFSIZ \in 0 .. n
<1> USE BufferAssumption
<1>1. n = BUFSIZ * (n \div BUFSIZ) + (n % BUFSIZ)
  OBVIOUS
<1>2. n % BUFSIZ \in 0 .. BUFSIZ - 1
  OBVIOUS
<1>3. PICK q \in Int : q = n \div BUFSIZ
  OBVIOUS
<1>4. q >= 0
  <2>1. CASE q <= -1
    <3>1. BUFSIZ * q <= BUFSIZ * (-1)
      BY <2>1
    <3> QED
      BY <1>1, <1>2, <1>3, <3>1
  <2> QED
    BY <2>1
<1>5. q * BUFSIZ = BUFSIZ * q
  OBVIOUS
<1>6. BUFSIZ * q >= 0
  BY <1>4
<1> QED
  BY <1>1, <1>2, <1>3, <1>5, <1>6

\* Refilling a whole buffer at a time reads at least the bytes that are missing.
LEMMA Refilled ==
    ASSUME NEW n \in Nat \ {0}
    PROVE  (n + BUFSIZ - 1) \div BUFSIZ \in Int /\ ((n + BUFSIZ - 1) \div BUFSIZ) * BUFSIZ \in Nat
           /\ ((n + BUFSIZ - 1) \div BUFSIZ) * BUFSIZ >= n
           /\ (n + BUFSIZ - 1) \div BUFSIZ # 0
<1> USE BufferAssumption
<1>1. PICK x \in Nat : x = n + BUFSIZ - 1
  OBVIOUS
<1>2. x = BUFSIZ * (x \div BUFSIZ) + (x % BUFSIZ)
  OBVIOUS
<1>3. x % BUFSIZ \in 0 .. BUFSIZ - 1
  OBVIOUS
<1>4. PICK q \in Int : q = x \div BUFSIZ
  OBVIOUS
<1>5. BUFSIZ * q >= n /\ BUFSIZ * q \in Int
  BY <1>1, <1>2, <1>3, <1>4
<1>6. q * BUFSIZ = BUFSIZ * q
  OBVIOUS
<1>7. q # 0
  BY <1>5
<1> QED
  BY <1>1, <1>4, <1>5, <1>6, <1>7

-----------------------------------------------------------------------------
(* Files that a write has reached in part.                                 *)

\* Some first part of the bytes e, and after it what d has there.
Torn(d, e, r) == \E m \in 0..Len(e) : r = SubSeq(e, 1, m) \o SubSeq(d, m + 1, Len(d))

\* A first part of a sequence of bytes.
LEMMA FirstBytes ==
    ASSUME NEW s \in Seq(Bytes), NEW j \in 0 .. Len(s)
    PROVE  /\ SubSeq(s, 1, j) \in Seq(Bytes) /\ Len(SubSeq(s, 1, j)) = j
           /\ \A k \in 1 .. j : SubSeq(s, 1, j)[k] = s[k]
<1>1. Len(s) \in Nat /\ j \in Nat /\ j <= Len(s)
  BY LenProperties
<1>2. \A k \in 1 .. j : s[k] \in Bytes
  BY <1>1, ElementOfSeq
<1>3. 1 \in Int /\ j \in Int
  BY <1>1
<1>4. /\ SubSeq(s, 1, j) \in Seq(Bytes)
      /\ Len(SubSeq(s, 1, j)) = IF 1 <= j THEN j - 1 + 1 ELSE 0
      /\ \A k \in 1 .. j - 1 + 1 : SubSeq(s, 1, j)[k] = s[1 + k - 1]
  BY <1>2, <1>3, SubSeqProperties
<1> QED
  BY <1>1, <1>4

\* The rest of it.
LEMMA LastBytes ==
    ASSUME NEW d \in Seq(Bytes), NEW m \in Nat, m <= Len(d)
    PROVE  /\ SubSeq(d, m + 1, Len(d)) \in Seq(Bytes) /\ Len(SubSeq(d, m + 1, Len(d))) = Len(d) - m
           /\ \A k \in 1 .. Len(d) - m : SubSeq(d, m + 1, Len(d))[k] = d[m + k]
<1>1. PICK n \in Nat : n = Len(d)
  BY LenProperties
<1>2. n <= Len(d) /\ m <= n
  BY <1>1
<1>3. /\ Between(d, m, n) \in Seq(Bytes) /\ Len(Between(d, m, n)) = n - m
      /\ \A k \in 1 .. n - m : Between(d, m, n)[k] = d[m + k]
  BY ONLY <1>2, d \in Seq(Bytes), m \in Nat, n \in Nat, BetweenBytes
<1> QED
  BY <1>1, <1>3 DEF Between

\* Byte by byte.
LEMMA TornBytes ==
    ASSUME NEW d \in Seq(Bytes), NEW e \in Seq(Bytes), NEW r \in Seq(Bytes), NEW m \in 0 .. Len(e),
           Len(r) = IF m <= Len(d) THEN Len(d) ELSE m,
           \A k \in 1 .. Len(r) : r[k] = IF k <= m THEN e[k] ELSE d[k]
    PROVE  Torn(d, e, r)
<1>1. Len(d) \in Nat /\ Len(e) \in Nat /\ Len(r) \in Nat /\ m \in Nat /\ m <= Len(e)
  BY LenProperties
<1>2. PICK x \in Seq(Bytes) : x = SubSeq(e, 1, m) /\ Len(x) = m /\ \A k \in 1 .. m : x[k] = e[k]
  BY FirstBytes
<1>3. PICK y \in Seq(Bytes) : /\ y = SubSeq(d, m + 1, Len(d))
                              /\ Len(y) = IF m <= Len(d) THEN Len(d) - m ELSE 0
                              /\ \A k \in 1 .. Len(y) : y[k] = d[m + k]
  <2>1. CASE m <= Len(d)
    <3>1. PICK y \in Seq(Bytes) : y = SubSeq(d, m + 1, Len(d)) /\ Len(y) = Len(d) - m
                                  /\ \A k \in 1 .. Len(d) - m : y[k] = d[m + k]
      BY <1>1, <2>1, LastBytes
    <3> QED
      BY <2>1, <3>1
  <2>2. CASE ~(m <= Len(d))
    <3>1. SubSeq(d, m + 1, Len(d)) = <<>>
      BY <1>1, <2>2, SubSeqEmpty
    <3>2. PICK y \in Seq(Bytes) : y = <<>> /\ Len(y) = 0
      BY EmptySeq
    <3>3. \A k \in 1 .. Len(y) : y[k] = d[m + k]
      BY <3>2
    <3>4. Len(y) = IF m <= Len(d) THEN Len(d) - m ELSE 0
      BY <2>2, <3>2
    <3>5. y = SubSeq(d, m + 1, Len(d))
      BY <3>1, <3>2
    <3> QED
      BY ONLY <3>3, <3>4, <3>5, y \in Seq(Bytes)
  <2> QED
    BY <2>1, <2>2
<1>4. PICK z \in Seq(Bytes) :
        /\ z = x \o y /\ Len(z) = Len(x) + Len(y)
        /\ \A k \in 1 .. Len(x) + Len(y) : z[k] = IF k <= Len(x) THEN x[k] ELSE y[k - Len(x)]
  <2>1. /\ x \o y \in Seq(Bytes) /\ Len(x \o y) = Len(x) + Len(y)
        /\ \A k \in 1 .. Len(x) + Len(y) : (x \o y)[k] = IF k <= Len(x) THEN x[k] ELSE y[k - Len(x)]
    BY ConcatProperties
  <2> QED
    BY <2>1, Zenon
<1>5. Len(z) = Len(r)
  <2>1. CASE m <= Len(d)
    <3>1. Len(y) = Len(d) - m /\ Len(r) = Len(d) /\ Len(z) = Len(x) + Len(y) /\ Len(x) = m
      BY <1>2, <1>3, <1>4, <2>1
    <3> QED
      BY <1>1, <3>1
  <2>2. CASE ~(m <= Len(d))
    <3>1. Len(y) = 0 /\ Len(r) = m /\ Len(z) = Len(x) + Len(y) /\ Len(x) = m
      BY <1>2, <1>3, <1>4, <2>2
    <3> QED
      BY <1>1, <3>1
  <2> QED
    BY <2>1, <2>2
<1>6. ASSUME NEW k \in 1 .. Len(r) PROVE z[k] = r[k]
  <2>1. CASE k <= m
    <3>1. z[k] = x[k] /\ x[k] = e[k]
      BY <1>1, <1>2, <1>4, <1>5, <2>1
    <3> QED
      BY <2>1, <3>1
  <2>2. CASE k > m
    <3>1. PICK j \in 1 .. Len(y) : j = k - m /\ m + j = k
      BY <1>1, <1>2, <1>3, <1>4, <1>5, <2>2
    <3>2. z[k] = y[j]
      BY <1>1, <1>2, <1>4, <1>5, <2>2, <3>1
    <3>3. y[j] = d[k]
      BY <1>3, <3>1
    <3> QED
      BY <1>1, <2>2, <3>2, <3>3
  <2> QED
    BY <1>1, <2>1, <2>2
<1>7. z = r
  BY <1>5, <1>6, SeqEqual
<1> QED
  BY <1>2, <1>3, <1>4, <1>7 DEF Torn

\* Nothing of e, or all of it.
LEMMA TornNone ==
    ASSUME NEW d \in Seq(Bytes), NEW e \in Seq(Bytes)
    PROVE  Torn(d, e, d)
<1>1. PICK m \in 0 .. Len(e) : m = 0
  BY LenProperties
<1>2. Len(d) = IF m <= Len(d) THEN Len(d) ELSE m
  BY <1>1, LenProperties
<1>3. \A k \in 1 .. Len(d) : d[k] = IF k <= m THEN e[k] ELSE d[k]
  BY <1>1
<1> QED
  BY <1>2, <1>3, TornBytes

LEMMA TornAll ==
    ASSUME NEW d \in Seq(Bytes), NEW e \in Seq(Bytes), Len(e) >= Len(d)
    PROVE  Torn(d, e, e)
<1>1. Len(d) \in Nat /\ Len(e) \in Nat
  BY LenProperties
<1>2. PICK m \in 0 .. Len(e) : m = Len(e)
  BY <1>1
<1>3. Len(e) = IF m <= Len(d) THEN Len(d) ELSE m
  BY <1>1, <1>2
<1>4. \A k \in 1 .. Len(e) : e[k] = IF k <= m THEN e[k] ELSE d[k]
  BY <1>1, <1>2
<1> QED
  BY <1>3, <1>4, TornBytes

\* A write that stops early leaves a first part of what it was to leave.
LEMMA TornOverlaid ==
    ASSUME NEW d \in Seq(Bytes), NEW off \in Nat, NEW s \in Seq(Bytes), NEW j \in 0 .. Len(s)
    PROVE  Torn(d, Overlaid(d, off, s), Overlaid(d, off, SubSeq(s, 1, j)))
<1>1. Len(d) \in Nat /\ Len(s) \in Nat /\ j \in Nat /\ j <= Len(s)
  BY LenProperties
<1>2. PICK t \in Seq(Bytes) : t = SubSeq(s, 1, j) /\ Len(t) = j /\ \A k \in 1 .. j : t[k] = s[k]
  BY FirstBytes
<1>3. PICK e \in Seq(Bytes) : e = Overlaid(d, off, s)
  BY OverlaidBytes
<1>4. PICK r \in Seq(Bytes) : r = Overlaid(d, off, t)
  BY OverlaidBytes
<1>5. /\ Len(e) = IF Len(d) >= off + Len(s) \/ s = <<>> THEN Len(d) ELSE off + Len(s)
      /\ \A k \in 1 .. Len(e) : e[k] = IF k \in (off + 1)..(off + Len(s)) THEN s[k - off]
                                        ELSE IF k <= Len(d) THEN d[k] ELSE 0
  BY <1>3, OverlaidBytes, SMTT(30)
<1>6. /\ Len(r) = IF Len(d) >= off + Len(t) \/ t = <<>> THEN Len(d) ELSE off + Len(t)
      /\ \A k \in 1 .. Len(r) : r[k] = IF k \in (off + 1)..(off + Len(t)) THEN t[k - off]
                                        ELSE IF k <= Len(d) THEN d[k] ELSE 0
  BY <1>4, OverlaidBytes, SMTT(30)
<1>7. (t = <<>> <=> Len(t) = 0) /\ (s = <<>> <=> Len(s) = 0)
  BY EmptySeq
<1>8. CASE j = 0
  <2>1. r = d
    BY <1>2, <1>4, <1>7, <1>8, OverlaidNothing
  <2> QED
    BY <1>2, <1>3, <1>4, <2>1, TornNone
<1>9. CASE j > 0
  <2>1. PICK m \in Nat : m = off + j
    BY <1>1
  <2>2. Len(e) = (IF Len(d) >= off + Len(s) THEN Len(d) ELSE off + Len(s)) /\ m <= Len(e) /\ Len(e) \in Nat
    <3>1. s # <<>>
      BY <1>1, <1>7, <1>9
    <3>2. Len(e) = IF Len(d) >= off + Len(s) THEN Len(d) ELSE off + Len(s)
      BY <1>5, <3>1
    <3> QED
      BY <1>1, <2>1, <3>2
  <2>3. Len(r) = (IF m <= Len(d) THEN Len(d) ELSE m) /\ Len(r) \in Nat
    <3>1. t # <<>>
      <4>1. Len(t) # 0
        BY <1>1, <1>2, <1>9
      <4> QED
        BY <1>7, <4>1
    <3>2. Len(r) = IF Len(d) >= off + Len(t) THEN Len(d) ELSE off + Len(t)
      BY <1>6, <3>1
    <3>3. off + Len(t) = m
      BY <1>2, <2>1
    <3>4. Len(r) = IF Len(d) >= m THEN Len(d) ELSE m
      BY ONLY <3>2, <3>3
    <3> QED
      BY <1>1, <2>1, <3>4
  <2>4. ASSUME NEW k \in 1 .. Len(r) PROVE r[k] = IF k <= m THEN e[k] ELSE d[k]
    <3>1. r[k] = IF k \in (off + 1)..m THEN t[k - off] ELSE IF k <= Len(d) THEN d[k] ELSE 0
      BY <1>2, <1>6, <2>1
    <3>2. CASE k <= off
      <4>1. k \in 1 .. Len(e) /\ k \notin (off + 1)..(off + Len(s)) /\ k \notin (off + 1)..m
        BY <1>1, <2>1, <2>2, <2>3, <3>2
      <4>2. e[k] = IF k <= Len(d) THEN d[k] ELSE 0
        BY <1>5, <4>1
      <4> QED
        BY <2>1, <3>1, <3>2, <4>1, <4>2
    <3>3. CASE k \in (off + 1)..m
      <4>1. k \in 1 .. Len(e) /\ k \in (off + 1)..(off + Len(s)) /\ k - off \in 1 .. j
        BY <1>1, <2>1, <2>2, <3>3
      <4>2. e[k] = s[k - off] /\ t[k - off] = s[k - off]
        BY <1>2, <1>5, <4>1
      <4> QED
        BY <2>1, <3>1, <3>3, <4>2
    <3>4. CASE k > m
      <4>1. k <= Len(d) /\ k \notin (off + 1)..m
        BY <2>1, <2>3, <3>4
      <4> QED
        BY <2>1, <3>1, <3>4, <4>1
    <3> QED
      BY <1>1, <2>1, <2>3, <3>2, <3>3, <3>4
  <2>5. Torn(d, e, r)
    <3>1. m \in 0 .. Len(e)
      BY <2>1, <2>2
    <3> QED
      BY ONLY <2>3, <2>4, <3>1, d \in Seq(Bytes), e \in Seq(Bytes), r \in Seq(Bytes), TornBytes
  <2> QED
    BY <1>2, <1>3, <1>4, <2>5
<1> QED
  BY <1>1, <1>8, <1>9

\* A write makes a file no shorter.
LEMMA OverlaidLonger ==
    ASSUME NEW d \in Seq(Bytes), NEW off \in Nat, NEW s \in Seq(Bytes)
    PROVE  Len(Overlaid(d, off, s)) >= Len(d)
<1>1. Len(d) \in Nat /\ Len(s) \in Nat
  BY LenProperties
<1> QED
  BY <1>1, OverlaidBytes

-----------------------------------------------------------------------------
(* What each call does to a file, in terms of what its user sees.          *)

AtEnd(f, d) == At(f) >= Len(View(f, d))

\* A read of n bytes with outcome o got the bytes at the user's offset.
Gets(f, d, n, o) ==
    /\ o.failed \in BOOLEAN
    /\ Handle(o.f, o.d) /\ o.d = d /\ View(o.f, o.d) = View(f, d)
    /\ o.data \in Seq(Bytes) /\ Len(o.data) <= n
    /\ At(o.f) = At(f) + Len(o.data)
    /\ o.data = SubSeq(View(f, d), At(f) + 1, At(f) + Len(o.data))

\* What a read, and one of a single byte, return.
Reads(f, d, n, o) ==
    /\ Gets(f, d, n, o)
    /\ \/ o.ret = Len(o.data) /\ (o.ret = 0 => n = 0 \/ AtEnd(f, d))
       \/ o.ret = -1 /\ o.failed = TRUE /\ o.data = <<>>
Readcs(f, d, o) ==
    /\ Gets(f, d, 1, o)
    /\ \/ Len(o.data) = 1 /\ o.ret = o.data[1]
       \/ o.data = <<>> /\ o.ret = -1 /\ (o.failed = TRUE \/ AtEnd(f, d))

\* A write of s that succeeded, and one that did not: bytes that were not on disk are lost.
Puts(f, d, s, o) ==
    /\ View(o.f, o.d) = Overlaid(View(f, d), At(f), s)
    /\ At(o.f) = At(f) + Len(s)
PutsPart(f, d, s, o) ==
    /\ o.failed = TRUE
    /\ Torn(d, Overlaid(View(f, d), At(f), s), View(o.f, o.d))
    /\ At(o.f) \in 0 .. At(f) + Len(s)
Written(f, d, s, o) ==
    /\ o.failed \in BOOLEAN /\ o.data = s
    /\ Handle(o.f, o.d) /\ Torn(d, View(o.f, o.d), o.d)
Writes(f, d, s, o) ==
    /\ Written(f, d, s, o)
    /\ \/ o.ret = Len(s) /\ Puts(f, d, s, o)
       \/ o.ret \in Int /\ o.ret < Len(s) /\ PutsPart(f, d, s, o)

\* A seek may have bytes to write.
Seeks(f, d, to, o) ==
    /\ o.failed \in BOOLEAN
    /\ Handle(o.f, o.d) /\ Torn(d, View(o.f, o.d), o.d)
    /\ \/ /\ o.ret # -1 /\ o.ret \in {to, 0}
          /\ At(o.f) = to /\ View(o.f, o.d) = View(f, d)
       \/ o.ret = -1 /\ o.failed = TRUE /\ Torn(d, View(f, d), View(o.f, o.d))

\* A file with nothing buffered.
LEMMA Unbuffered ==
    ASSUME NEW f, NEW d, Handle(f, d), f.pending = <<>>, f.ahead = <<>>
    PROVE  View(f, d) = d /\ At(f) = f.off /\ f.off \in Nat
<1>1. f.off \in Nat /\ d \in Seq(Bytes)
  BY DEF Handle, OpenFiles
<1> QED
  BY <1>1, OverlaidNothing DEF View, At

LEMMA Emptied ==
    ASSUME NEW f \in OpenFiles, NEW d \in Seq(Bytes), f.pending = <<>>, f.ahead = <<>>,
           f.misused = FALSE
    PROVE  Handle(f, d) /\ View(f, d) = d /\ At(f) = f.off
<1>1. Len(f.ahead) = 0 /\ f.off \in Nat
  BY EmptySeq DEF OpenFiles
<1>2. Handle(f, d)
  BY <1>1 DEF Handle
<1> QED
  BY <1>2, Unbuffered

\* A descriptor at another offset.
LEMMA Moved ==
    ASSUME NEW f, NEW d, Handle(f, d), f.dir = "none", NEW x \in Nat, NEW e \in Seq(Bytes),
           NEW g, g = [f EXCEPT !.off = x]
    PROVE  Handle(g, e) /\ View(g, e) = e /\ At(g) = x /\ g.dir = "none"
<1>1. f \in OpenFiles /\ f.ahead = <<>> /\ f.pending = <<>> /\ f.misused = FALSE
  BY DEF Handle
<1>2. /\ g \in OpenFiles /\ g.off = x /\ g.ahead = <<>> /\ g.pending = <<>> /\ g.dir = "none"
      /\ g.misused = FALSE
  BY <1>1 DEF OpenFiles
<1>3. Handle(g, e)
  BY <1>2 DEF Handle
<1> QED
  BY <1>2, <1>3, Unbuffered

\* A read that got nothing.
LEMMA GotNothing ==
    ASSUME NEW f, NEW d, Handle(f, d), NEW n \in Nat, NEW o, o.f = f, o.d = d, o.data = <<>>,
           o.failed = TRUE, View(f, d) \in Seq(Bytes), At(f) \in Nat
    PROVE  Gets(f, d, n, o)
<1>1. o.data \in Seq(Bytes) /\ Len(o.data) = 0
  BY EmptySeq
<1>2. SubSeq(View(f, d), At(f) + 1, At(f) + 0) = <<>> /\ At(f) + 0 = At(f)
  BY SubSeqEmpty
<1>3. o.data = SubSeq(View(f, d), At(f) + 1, At(f) + Len(o.data)) /\ At(f) = At(f) + Len(o.data)
  BY <1>1, <1>2
<1>4. Len(o.data) <= n /\ o.failed \in BOOLEAN
  <2>1. Len(o.data) <= n
    BY <1>1
  <2> QED
    BY ONLY <2>1, o.failed = TRUE
<1>5. Handle(o.f, o.d) /\ o.d = d /\ View(o.f, o.d) = View(f, d) /\ At(o.f) = At(f) + Len(o.data)
  BY <1>3
<1> QED
  BY ONLY <1>1, <1>3, <1>4, <1>5 DEF Gets

\* read() returns the bytes at the descriptor's offset.
LEMMA SysReads ==
    ASSUME NEW f, NEW d, Handle(f, d), f.dir = "none", NEW n \in Nat, NEW o \in sys_read(f, d, n)
    PROVE  Reads(f, d, n, o) /\ o.f.dir = "none"
<1>1. /\ d \in Seq(Bytes) /\ f.ahead = <<>> /\ f.pending = <<>>
      /\ View(f, d) = d /\ At(f) = f.off /\ f.off \in Nat /\ Len(d) \in Nat
  <2>1. d \in Seq(Bytes) /\ f.ahead = <<>> /\ f.pending = <<>>
    BY DEF Handle
  <2> QED
    BY <2>1, Unbuffered, LenProperties
<1>2. PICK end : end = IF f.off >= Len(d) THEN f.off ELSE Least(f.off + n, Len(d))
  OBVIOUS
<1>3. /\ end \in Nat /\ f.off <= end /\ (end <= Len(d) \/ end = f.off)
      /\ end - f.off <= n /\ (end = f.off /\ n > 0 => f.off >= Len(d))
  BY <1>1, <1>2 DEF Least
<1>4. o \in {Done([f EXCEPT !.off = end], d, end - f.off, Between(d, f.off, end))} \cup Fault(f, d)
  BY <1>2 DEF sys_read
<1>5. CASE o = Done([f EXCEPT !.off = end], d, end - f.off, Between(d, f.off, end))
  <2>1. PICK g : g = [f EXCEPT !.off = end]
    OBVIOUS
  <2>2. o.f = g /\ o.d = d /\ o.ret = end - f.off /\ o.data = Between(d, f.off, end) /\ o.failed = FALSE
    BY <1>5, <2>1 DEF Done
  <2>3. Handle(g, d) /\ View(g, d) = d /\ At(g) = end /\ g.dir = "none"
    BY <1>1, <1>3, <2>1, Moved
  <2>4. o.data \in Seq(Bytes) /\ Len(o.data) = end - f.off
    <3>1. Between(d, f.off, end) \in Seq(Bytes) /\ Len(Between(d, f.off, end)) = end - f.off
      BY <1>1, <1>3, BetweenBytes, ZenonT(30)
    <3> QED
      BY <2>2, <3>1
  <2>5. f.off + Len(o.data) = end
    BY <1>1, <1>3, <2>4
  <2>6. o.data = SubSeq(d, f.off + 1, f.off + Len(o.data))
    BY <2>2, <2>5 DEF Between
  <2>7. Gets(f, d, n, o)
    BY <1>1, <1>3, <2>2, <2>3, <2>4, <2>5, <2>6 DEF Gets
  <2>8. o.ret = Len(o.data) /\ (o.ret = 0 => n = 0 \/ AtEnd(f, d))
    BY <1>1, <1>3, <2>2, <2>4 DEF AtEnd
  <2> QED
    BY <2>2, <2>3, <2>7, <2>8 DEF Reads
<1>6. CASE o \in Fault(f, d)
  <2>1. o = Failed(f, d, -1)
    BY <1>6 DEF Fault
  <2>2. o.f = f /\ o.d = d /\ o.ret = -1 /\ o.data = <<>> /\ o.failed = TRUE
    BY <2>1 DEF Failed
  <2>3. Gets(f, d, n, o)
    BY <1>1, <2>2, GotNothing
  <2> QED
    BY <2>2, <2>3 DEF Reads
<1> QED
  BY <1>4, <1>5, <1>6

\* lseek() moves the descriptor, unless it is to go before the file.
LEMMA SysSeeks ==
    ASSUME NEW f, NEW d, Handle(f, d), f.dir = "none", NEW to \in Int, NEW o \in sys_lseek(f, d, to)
    PROVE  Seeks(f, d, to, o) /\ o.f.dir = "none"
<1>1. d \in Seq(Bytes) /\ View(f, d) = d
  BY Unbuffered DEF Handle
<1>2. CASE ~(to < 0) /\ o = Done([f EXCEPT !.off = to], d, to, <<>>)
  <2>1. PICK g : g = [f EXCEPT !.off = to]
    OBVIOUS
  <2>2. o.f = g /\ o.d = d /\ o.ret = to /\ o.failed = FALSE
    BY <1>2, <2>1 DEF Done
  <2>3. to \in Nat
    BY <1>2
  <2>4. Handle(g, d) /\ View(g, d) = d /\ At(g) = to /\ g.dir = "none"
    BY <1>1, <2>1, <2>3, Moved
  <2>5. Torn(d, d, d)
    BY <1>1, TornNone
  <2>6. o.ret # -1 /\ o.ret \in {to, 0}
    BY <2>2, <2>3
  <2> QED
    BY <1>1, <2>2, <2>4, <2>5, <2>6 DEF Seeks
<1>3. CASE o = Failed(f, d, -1)
  <2>1. o.f = f /\ o.d = d /\ o.ret = -1 /\ o.failed = TRUE
    BY <1>3 DEF Failed
  <2>2. Torn(d, d, d)
    BY <1>1, TornNone
  <2> QED
    BY <1>1, <2>1, <2>2 DEF Seeks
<1> QED
  BY <1>2, <1>3 DEF sys_lseek, Fault

\* The bytes before and after a write of s of which the first k were written.
LEMMA PartWritten ==
    ASSUME NEW d \in Seq(Bytes), NEW off \in Nat, NEW s \in Seq(Bytes), NEW k \in 0 .. Len(s),
           NEW e, e = Overlaid(d, off, SubSeq(s, 1, k))
    PROVE  /\ e \in Seq(Bytes) /\ Torn(d, e, e) /\ Torn(d, Overlaid(d, off, s), e)
           /\ k = Len(s) => e = Overlaid(d, off, s)
<1>1. PICK t \in Seq(Bytes) : t = SubSeq(s, 1, k)
  BY FirstBytes
<1>2. e \in Seq(Bytes) /\ Len(e) >= Len(d)
  BY <1>1, OverlaidBytes, OverlaidLonger
<1>3. Torn(d, e, e)
  BY <1>2, TornAll
<1>4. Torn(d, Overlaid(d, off, s), e)
  BY TornOverlaid
<1>5. k = Len(s) => SubSeq(s, 1, k) = s
  BY SubSeqFull
<1> QED
  BY <1>2, <1>3, <1>4, <1>5

\* write() replaces the bytes at the descriptor's offset, as far as the file may grow.
LEMMA SysWrites ==
    ASSUME NEW f, NEW d, Handle(f, d), f.dir = "none", NEW s \in Seq(Bytes), NEW limit \in Nat,
           NEW o \in sys_write(f, d, s, limit)
    PROVE  Writes(f, d, s, o) /\ o.f.dir = "none"
<1>1. d \in Seq(Bytes) /\ View(f, d) = d /\ At(f) = f.off /\ f.off \in Nat /\ Len(s) \in Nat
  <2>1. d \in Seq(Bytes) /\ f.ahead = <<>> /\ f.pending = <<>>
    BY DEF Handle
  <2> QED
    BY <2>1, Unbuffered, LenProperties
<1>2. PICK room : room = IF f.off >= limit THEN 0 ELSE Least(Len(s), limit - f.off)
  OBVIOUS
<1>3. room \in 0 .. Len(s)
  BY <1>1, <1>2 DEF Least
<1>4. \/ \E k \in {room} \cup 1 .. room - 1 :
            o = [f |-> [f EXCEPT !.off = @ + k], d |-> Overlaid(d, f.off, SubSeq(s, 1, k)),
                 ret |-> IF k = 0 /\ s # <<>> THEN -1 ELSE k,
                 data |-> s, failed |-> k < Len(s)]
      \/ \E q \in Fault(f, d) : o = [q EXCEPT !.data = s]
  BY <1>2 DEF sys_write
<1>5. CASE \E q \in Fault(f, d) : o = [q EXCEPT !.data = s]
  <2>1. o = [Failed(f, d, -1) EXCEPT !.data = s]
    BY <1>5 DEF Fault
  <2>2. o.f = f /\ o.d = d /\ o.failed = TRUE /\ o.data = s /\ o.ret = -1
    BY <2>1 DEF Failed
  <2>3. Torn(d, d, d) /\ Torn(d, Overlaid(d, f.off, s), d)
    BY <1>1, TornNone, OverlaidBytes
  <2>4. PutsPart(f, d, s, o)
    BY <1>1, <2>2, <2>3 DEF PutsPart
  <2>5. Written(f, d, s, o)
    BY <1>1, <2>2, <2>3 DEF Written
  <2> QED
    BY <1>1, <2>2, <2>4, <2>5 DEF Writes
<1>6. ASSUME NEW k \in {room} \cup 1 .. room - 1,
             o = [f |-> [f EXCEPT !.off = @ + k], d |-> Overlaid(d, f.off, SubSeq(s, 1, k)),
                  ret |-> IF k = 0 /\ s # <<>> THEN -1 ELSE k,
                  data |-> s, failed |-> k < Len(s)]
      PROVE  Writes(f, d, s, o) /\ o.f.dir = "none"
  <2>0. k \in 0 .. Len(s) /\ k \in Nat
    BY <1>1, <1>3
  <2>1. PICK x \in Nat : x = f.off + k
    BY <1>1, <2>0
  <2>2. PICK g : g = [f EXCEPT !.off = x]
    OBVIOUS
  <2>3. PICK off \in Nat : off = f.off
    BY <1>1
  <2>4. PICK e : e = Overlaid(d, off, SubSeq(s, 1, k))
    OBVIOUS
  <2>5. /\ e \in Seq(Bytes) /\ Torn(d, e, e) /\ Torn(d, Overlaid(d, off, s), e)
        /\ k = Len(s) => e = Overlaid(d, off, s)
    BY ONLY <1>1, <2>0, <2>4, s \in Seq(Bytes), off \in Nat, PartWritten
  <2>6. o.f = g /\ o.d = e /\ o.data = s /\ o.ret = (IF k = 0 /\ s # <<>> THEN -1 ELSE k)
    BY <1>6, <2>1, <2>2, <2>3, <2>4
  <2>7. Handle(g, e) /\ View(g, e) = e /\ At(g) = x /\ g.dir = "none"
    BY <2>1, <2>2, <2>5, Moved
  <2>8. o.failed \in BOOLEAN /\ (k < Len(s) => o.failed = TRUE)
    <3>1. o.failed = (k < Len(s))
      BY <1>6
    <3>2. (k < Len(s)) \in BOOLEAN
      BY <1>1, <2>0
    <3> QED
      BY ONLY <3>1, <3>2
  <2>9. Written(f, d, s, o)
    BY <2>5, <2>6, <2>7, <2>8 DEF Written
  <2>10. CASE k = Len(s)
    <3>1. k = 0 => s = <<>>
      BY <2>10, EmptySeq
    <3>2. o.ret = Len(s)
      BY <2>6, <2>10, <3>1
    <3>3. Puts(f, d, s, o)
      BY <1>1, <2>1, <2>3, <2>5, <2>6, <2>7, <2>10 DEF Puts
    <3> QED
      BY <2>6, <2>7, <2>9, <3>2, <3>3 DEF Writes
  <2>11. CASE k # Len(s)
    <3>1. k < Len(s)
      BY <1>1, <2>0, <2>11
    <3>2. o.ret \in Int /\ o.ret < Len(s)
      BY <1>1, <2>0, <2>6, <3>1
    <3>3. x \in 0 .. f.off + Len(s)
      BY <1>1, <2>0, <2>1
    <3>4. PutsPart(f, d, s, o)
      BY <1>1, <2>3, <2>5, <2>6, <2>7, <2>8, <3>1, <3>3 DEF PutsPart
    <3> QED
      BY <2>6, <2>7, <2>9, <3>2, <3>4 DEF Writes
  <2> QED
    BY <2>10, <2>11
<1> QED
  BY <1>4, <1>5, <1>6

\* What fread() returns; a count of 0 may hide an error.
Freads(f, d, n, o) ==
    /\ Gets(f, d, n, o) /\ o.ret = Len(o.data)
    /\ o.ret = 0 => n = 0 \/ AtEnd(f, d) \/ (o.failed = TRUE /\ o.f.err = TRUE)

\* fread() returns the bytes at the user's offset, from the buffer first, and reads ahead.
LEMMA StdioReads ==
    ASSUME NEW f, NEW d, Handle(f, d), f.dir # "write", NEW n \in Nat, NEW o \in fread(f, d, n)
    PROVE  Freads(f, d, n, o) /\ o.f.dir = "read"
<1>1. /\ d \in Seq(Bytes) /\ f \in OpenFiles /\ f.pending = <<>> /\ f.misused = FALSE
      /\ f.off \in Nat /\ f.ahead \in Seq(Bytes) /\ Len(f.ahead) <= f.off
  BY DEF Handle, OpenFiles
<1>2. Len(d) \in Nat /\ Len(f.ahead) \in Nat /\ (f.ahead = <<>> <=> Len(f.ahead) = 0)
  BY <1>1, LenProperties, EmptySeq
<1>3. View(f, d) = d
  BY <1>1, OverlaidNothing DEF View
<1>4. PICK at \in Nat : at = f.off - Len(f.ahead)
  BY <1>1, <1>2
<1>5. At(f) = at
  <2>1. Len(f.pending) = 0
    BY <1>1, EmptySeq
  <2> QED
    BY <1>1, <1>2, <1>4, <2>1 DEF At
<1>6. PICK end : end = IF at >= Len(d) THEN at ELSE Least(at + n, Len(d))
  OBVIOUS
<1>7. /\ end \in Nat /\ at <= end /\ (end <= Len(d) \/ end = at)
      /\ end - at <= n /\ (end = at /\ n > 0 => at >= Len(d))
  BY <1>2, <1>6 DEF Least
<1>8. PICK r : r = IF end <= f.off THEN 0 ELSE (end - f.off + BUFSIZ - 1) \div BUFSIZ
  OBVIOUS
<1>9. PICK off : off = IF r = 0 THEN f.off ELSE Least(f.off + r * BUFSIZ, Len(d))
  OBVIOUS
<1>10. off \in Nat /\ end <= off /\ (off <= Len(d) \/ off = end)
  <2>1. CASE end <= f.off
    <3>1. off = f.off
      BY <1>8, <1>9, <2>1
    <3>2. CASE f.ahead = <<>>
      BY <1>1, <1>2, <1>4, <1>7, <2>1, <3>1, <3>2
    <3>3. CASE f.ahead # <<>>
      BY <1>1, <2>1, <3>1, <3>3 DEF Handle
    <3> QED
      BY <3>2, <3>3
  <2>2. CASE end > f.off
    <3>1. PICK m \in Nat \ {0} : m = end - f.off
      BY <1>1, <1>7, <2>2
    <3>2. r = (m + BUFSIZ - 1) \div BUFSIZ
      BY <1>1, <1>7, <1>8, <2>2, <3>1
    <3>3. r # 0 /\ r * BUFSIZ \in Nat /\ r * BUFSIZ >= m
      BY <3>1, <3>2, Refilled
    <3>4. PICK x \in Nat : x = r * BUFSIZ
      BY <3>3
    <3>5. off = Least(f.off + x, Len(d)) /\ x >= m
      BY <1>9, <3>3, <3>4
    <3>6. end <= Len(d)
      BY <1>1, <1>2, <1>4, <1>7, <2>2
    <3>7. \A a, b, l, y, z \in Nat : a + y >= b /\ b <= l /\ z = (IF a + y <= l THEN a + y ELSE l)
                                     => z \in Nat /\ b <= z /\ (z <= l \/ z = b)
      OBVIOUS
    <3>8. off \in Nat /\ off = IF f.off + x <= Len(d) THEN f.off + x ELSE Len(d)
      BY <1>1, <1>2, <3>5 DEF Least
    <3>9. f.off + x >= end
      BY <1>1, <1>7, <3>1, <3>4, <3>5
    <3> QED
      BY ONLY <1>1, <1>2, <1>7, <3>4, <3>6, <3>7, <3>8, <3>9
  <2> QED
    BY <1>1, <1>7, <2>1, <2>2
<1>0. PICK c : c = (f.misused \/ f.dir = "write")
  OBVIOUS
<1>00. c = FALSE
  BY <1>1, <1>0
<1>11. PICK w : w = [f EXCEPT !.dir = "read", !.misused = c]
  OBVIOUS
<1>12. /\ w \in OpenFiles /\ w.pending = <<>> /\ w.dir = "read" /\ w.misused = FALSE
  BY <1>1, <1>00, <1>11 DEF OpenFiles
<1>13. w = [f EXCEPT !.dir = "read", !.misused = @ \/ f.dir = "write"]
  BY <1>0, <1>11
<1>14. \/ o = Done([w EXCEPT !.off = off, !.ahead = Between(d, end, off)],
                   d, end - at, Between(d, at, end))
       \/ \E m \in Len(f.ahead)..(end - at) :
             /\ m < n
             /\ o = [f |-> [w EXCEPT !.off = at + m, !.ahead = <<>>, !.err = TRUE], d |-> d,
                     ret |-> m, data |-> Between(d, at, at + m), failed |-> TRUE]
  <2>1. \/ o = Done([w EXCEPT !.off = off, !.ahead = Between(d, end, off)],
                    d, end - at, Between(d, at, end))
        \/ o \in {[f |-> [w EXCEPT !.off = at + m, !.ahead = <<>>, !.err = TRUE], d |-> d,
                   ret |-> m, data |-> Between(d, at, at + m), failed |-> TRUE] :
                     m \in {m \in IF MayFail THEN Len(f.ahead)..(end - at) ELSE {} : m < n}}
    BY <1>4, <1>6, <1>8, <1>9, <1>13, Zenon DEF fread
  <2>2. ASSUME NEW m \in {m \in IF MayFail THEN Len(f.ahead)..(end - at) ELSE {} : m < n}
        PROVE  m \in Len(f.ahead)..(end - at) /\ m < n
    OBVIOUS
  <2> QED
    BY <2>1, <2>2, Zenon
<1>15. ASSUME NEW m \in Len(f.ahead)..(end - at), m < n,
              o = [f |-> [w EXCEPT !.off = at + m, !.ahead = <<>>, !.err = TRUE], d |-> d,
                   ret |-> m, data |-> Between(d, at, at + m), failed |-> TRUE]
       PROVE  Freads(f, d, n, o) /\ o.f.dir = "read"
  <2>1. m \in Nat /\ at + m <= end
    BY <1>2, <1>7
  <2>2. PICK x \in Nat : x = at + m
    BY <2>1
  <2>3. x <= Len(d) \/ x = at
    BY <1>2, <1>7, <2>1, <2>2
  <2>4. PICK z \in Seq(Bytes) : z = <<>>
    BY EmptySeq
  <2>5. PICK yes \in BOOLEAN : yes = TRUE
    OBVIOUS
  <2>6. PICK g : g = [w EXCEPT !.off = x, !.ahead = z, !.err = yes]
    OBVIOUS
  <2>7. o.f = g /\ o.d = d /\ o.ret = m /\ o.data = Between(d, at, x) /\ o.failed = TRUE
    BY <1>15, <2>2, <2>4, <2>5, <2>6
  <2>8. /\ g \in OpenFiles /\ g.off = x /\ g.ahead = z /\ g.err = yes
        /\ g.pending = <<>> /\ g.dir = "read" /\ g.misused = FALSE
    BY <1>12, <2>6 DEF OpenFiles
  <2>9. Handle(g, d) /\ View(g, d) = d /\ At(g) = x
    BY <1>1, <2>4, <2>8, Emptied
  <2>10. o.data \in Seq(Bytes) /\ Len(o.data) = m
    <3>1. Between(d, at, x) \in Seq(Bytes) /\ Len(Between(d, at, x)) = x - at
      <4>1. at <= x
        BY <2>1, <2>2
      <4> QED
        BY <1>1, <2>3, <4>1, BetweenBytes, ZenonT(30)
    <3> QED
      BY <2>1, <2>2, <2>7, <3>1
  <2>11. o.data = SubSeq(d, at + 1, at + Len(o.data)) /\ At(g) = at + Len(o.data)
    BY <2>2, <2>7, <2>9, <2>10 DEF Between
  <2>12. Gets(f, d, n, o)
    <3>1. Len(o.data) <= n /\ o.failed \in BOOLEAN
      <4>1. Len(o.data) <= n
        BY <1>15, <2>1, <2>10
      <4> QED
        BY ONLY <2>7, <4>1
    <3> QED
      BY <1>3, <1>5, <2>7, <2>9, <2>10, <2>11, <3>1 DEF Gets
  <2>13. o.f.err = TRUE
    BY <2>5, <2>7, <2>8
  <2> QED
    BY <2>7, <2>8, <2>10, <2>12, <2>13 DEF Freads
<1>16. CASE o = Done([w EXCEPT !.off = off, !.ahead = Between(d, end, off)],
                   d, end - at, Between(d, at, end))
  <2>1. PICK a \in Seq(Bytes) : a = Between(d, end, off) /\ Len(a) = off - end
    BY <1>1, <1>7, <1>10, BetweenBytes, ZenonT(60)
  <2>4. PICK g : g = [w EXCEPT !.off = off, !.ahead = a]
    OBVIOUS
  <2>5. o.f = g /\ o.d = d /\ o.ret = end - at /\ o.data = Between(d, at, end) /\ o.failed = FALSE
    BY <1>16, <2>1, <2>4 DEF Done
  <2>6. /\ g \in OpenFiles /\ g.off = off /\ g.ahead = a /\ g.pending = <<>> /\ g.dir = "read"
        /\ g.misused = FALSE
    BY <1>10, <1>12, <2>4 DEF OpenFiles
  <2>7. Handle(g, d)
    <3>1. Len(a) <= off /\ off - Len(a) = end
      BY <1>7, <1>10, <2>1
    <3>2. a # <<>> => off <= Len(d)
      BY <1>2, <1>7, <1>10, <2>1, EmptySeq
    <3> QED
      BY <1>1, <2>1, <2>6, <3>1, <3>2 DEF Handle
  <2>8. View(g, d) = d
    BY <1>1, <1>10, <2>6, OverlaidNothing DEF View
  <2>9. At(g) = end
    <3>1. Len(g.pending) = 0
      BY <2>6, EmptySeq
    <3> QED
      BY <1>7, <1>10, <2>1, <2>6, <3>1 DEF At
  <2>10. o.data \in Seq(Bytes) /\ Len(o.data) = end - at
    <3>1. Between(d, at, end) \in Seq(Bytes) /\ Len(Between(d, at, end)) = end - at
      BY <1>1, <1>7, BetweenBytes
    <3> QED
      BY <2>5, <3>1
  <2>11. at + Len(o.data) = end
    BY <1>7, <2>10
  <2>12. o.data = SubSeq(d, at + 1, at + Len(o.data))
    BY <2>5, <2>11 DEF Between
  <2>13. Gets(f, d, n, o)
    <3>1. Len(o.data) <= n
      BY <1>7, <2>10
    <3> QED
      BY <1>3, <1>5, <2>5, <2>7, <2>8, <2>9, <2>10, <2>11, <2>12, <3>1 DEF Gets
  <2>14. o.ret = Len(o.data) /\ (o.ret = 0 => n = 0 \/ AtEnd(f, d))
    <3>1. o.ret = 0 => end = at
      BY <1>7, <2>5
    <3> QED
      BY <1>3, <1>5, <1>7, <2>5, <2>10, <3>1 DEF AtEnd
  <2> QED
    BY <2>5, <2>6, <2>13, <2>14 DEF Freads
<1> QED
  BY <1>14, <1>15, <1>16, Zenon

\* fwrite() replaces the bytes at the user's offset, on disk as far as buffers are full.
LEMMA StdioWrites ==
    ASSUME NEW f, NEW d, Handle(f, d), f.dir # "read", NEW s \in Seq(Bytes), NEW o \in fwrite(f, d, s)
    PROVE  Writes(f, d, s, o) /\ o.f.dir = "write"
<1>1. /\ d \in Seq(Bytes) /\ f \in OpenFiles /\ f.ahead = <<>> /\ f.misused = FALSE
      /\ f.off \in Nat /\ f.pending \in Seq(Bytes)
  BY DEF Handle, OpenFiles
<1>2. PICK p \in Seq(Bytes) : p = f.pending
  BY <1>1
<1>3. PICK all \in Seq(Bytes) : all = p \o s /\ Len(all) = Len(p) + Len(s)
  <2>1. p \o s \in Seq(Bytes) /\ Len(p \o s) = Len(p) + Len(s)
    BY ConcatProperties
  <2> QED
    BY <2>1
<1>4. Len(p) \in Nat /\ Len(s) \in Nat /\ Len(all) \in Nat
  BY LenProperties
<1>5. PICK k \in 0 .. Len(all) : k = (Len(all) \div BUFSIZ) * BUFSIZ
  BY <1>4, WholeBuffers
<1>0. PICK off \in Nat : off = f.off
  BY <1>1
<1>6. PICK u : u = SubSeq(all, 1, k)
  OBVIOUS
<1>7. PICK v : v = SubSeq(all, k + 1, Len(all))
  OBVIOUS
<1>8. u \in Seq(Bytes) /\ Len(u) = k
  <2>1. \A j \in 1 .. k : all[j] \in Bytes
    BY <1>4, <1>5
  <2> QED
    BY <1>4, <1>5, <1>6, <2>1, SubSeqProperties
<1>9. v \in Seq(Bytes) /\ Len(v) = Len(all) - k
  <2>1. \A j \in k + 1 .. Len(all) : all[j] \in Bytes
    BY <1>4, <1>5
  <2> QED
    BY <1>4, <1>5, <1>7, <2>1, SubSeqProperties
<1>10. u \o v = all
  <2>1. u \o v = SubSeq(all, 1, Len(all))
    <3>1. 1 \in 1 .. Len(all) + 1 /\ k \in 1 - 1 .. Len(all) /\ Len(all) \in k .. Len(all)
      BY <1>4, <1>5
    <3>2. SubSeq(all, 1, k) \o SubSeq(all, k + 1, Len(all)) = SubSeq(all, 1, Len(all))
      BY <3>1, ConcatAdjacentSubSeq
    <3> QED
      BY <1>6, <1>7, <3>2
  <2> QED
    BY <2>1, SubSeqFull
<1>11. PICK c : c = (f.misused \/ f.dir = "read")
  OBVIOUS
<1>12. c = FALSE
  BY <1>1, <1>11
<1>13. PICK x \in Nat : x = f.off + k
  BY <1>1, <1>4, <1>5
<1>15. PICK e \in Seq(Bytes) : e = Overlaid(d, f.off, u)
  BY <1>1, <1>8, OverlaidBytes
<1>16. Overlaid(View(f, d), At(f), s) = Overlaid(d, off, all) /\ At(f) = off + Len(p)
  <2>1. PICK m \in Nat : m = off + Len(p) /\ m = At(f)
    <3>1. Len(f.ahead) = 0
      BY <1>1, EmptySeq
    <3>2. At(f) = off - 0 + Len(p)
      BY <1>0, <1>2, <3>1 DEF At
    <3>3. off + Len(p) \in Nat /\ off - 0 + Len(p) = off + Len(p)
      BY ONLY <1>0, <1>4
    <3> QED
      BY ONLY <3>2, <3>3
  <2>2. Overlaid(Overlaid(d, off, p), m, s) = Overlaid(d, off, all)
    <3>1. Joined(p, s, all)
      BY <1>3 DEF Joined
    <3> QED
      BY <1>1, <2>1, <3>1, OverlaidTwice
  <2> QED
    BY <1>0, <1>2, <2>1, <2>2 DEF View
<1>17. PICK w : w = [f EXCEPT !.dir = "write", !.misused = c]
  OBVIOUS
<1>18. /\ w \in OpenFiles /\ w.ahead = <<>> /\ w.dir = "write" /\ w.misused = FALSE /\ w.off = off
  BY <1>0, <1>1, <1>12, <1>17 DEF OpenFiles
<1>19. w = [f EXCEPT !.dir = "write", !.misused = @ \/ f.dir = "read"]
  BY <1>11, <1>17
<1>20. \/ o = Done([w EXCEPT !.off = @ + k, !.pending = v], e, Len(s), s)
       \/ \E j \in 0 .. k - 1, r \in 0 .. Len(s) - 1 :
             o = [f |-> Dropped(w, j), d |-> DroppedTo(f, d, all, j), ret |-> r,
                  data |-> s, failed |-> TRUE]
  <2>1. \/ o = Done([w EXCEPT !.off = @ + k, !.pending = v], e, Len(s), s)
        \/ o \in {[f |-> Dropped(w, j), d |-> DroppedTo(f, d, all, j), ret |-> r,
                   data |-> s, failed |-> TRUE] :
                     j \in IF MayFail THEN 0..(k - 1) ELSE {}, r \in 0..(Len(s) - 1)}
    <3>1. all = f.pending \o s /\ k = (Len(all) \div BUFSIZ) * BUFSIZ
      BY <1>2, <1>3, <1>5
    <3>2. v = SubSeq(all, k + 1, Len(all)) /\ e = Overlaid(d, f.off, SubSeq(all, 1, k))
      BY <1>6, <1>7, <1>15
    <3> QED
      BY <1>19, <3>1, <3>2, SMTT(30) DEF fwrite
  <2>2. ASSUME NEW j \in IF MayFail THEN 0..(k - 1) ELSE {} PROVE j \in 0 .. k - 1
    OBVIOUS
  <2>3. CASE o \in {[f |-> Dropped(w, j), d |-> DroppedTo(f, d, all, j), ret |-> r,
                     data |-> s, failed |-> TRUE] :
                       j \in IF MayFail THEN 0..(k - 1) ELSE {}, r \in 0..(Len(s) - 1)}
    <3>1. PICK j \in IF MayFail THEN 0..(k - 1) ELSE {}, r \in 0..(Len(s) - 1) :
             o = [f |-> Dropped(w, j), d |-> DroppedTo(f, d, all, j), ret |-> r,
                  data |-> s, failed |-> TRUE]
      BY <2>3
    <3> QED
      BY <2>2, <3>1
  <2> QED
    BY <2>1, <2>3
<1>21. CASE o = Done([w EXCEPT !.off = @ + k, !.pending = v], e, Len(s), s)
  <2>1. PICK g : g = [w EXCEPT !.off = x, !.pending = v]
    OBVIOUS
  <2>2. o.f = g /\ o.d = e /\ o.data = s /\ o.ret = Len(s) /\ o.failed = FALSE
    BY <1>0, <1>13, <1>18, <1>21, <2>1 DEF Done
  <2>3. /\ g \in OpenFiles /\ g.off = x /\ g.ahead = <<>> /\ g.pending = v /\ g.dir = "write"
        /\ g.misused = FALSE
    BY <1>9, <1>18, <2>1 DEF OpenFiles
  <2>4. Handle(g, e)
    <3>1. Len(g.ahead) = 0
      BY <2>3, EmptySeq
    <3> QED
      BY <2>3, <3>1 DEF Handle
  <2>5. View(g, e) = Overlaid(d, off, all)
    <3>1. Joined(u, v, all)
      BY <1>10 DEF Joined
    <3>2. x = off + Len(u)
      BY <1>0, <1>8, <1>13
    <3>3. Overlaid(Overlaid(d, off, u), x, v) = Overlaid(d, off, all)
      <4>1. off \in Nat /\ x \in Nat /\ all \in Seq(Bytes)
        OBVIOUS
      <4>2. d \in Seq(Bytes) /\ u \in Seq(Bytes) /\ v \in Seq(Bytes)
        BY <1>1, <1>8, <1>9
      <4> QED
        BY ONLY <3>1, <3>2, <4>1, <4>2, OverlaidTwice, SMTT(30)
    <3> QED
      BY <1>0, <1>15, <2>3, <3>3 DEF View
  <2>6. Torn(d, Overlaid(d, off, all), e)
    BY <1>0, <1>1, <1>6, <1>15, TornOverlaid
  <2>7. At(g) = At(f) + Len(s)
    <3>1. Len(g.ahead) = 0
      BY <2>3, EmptySeq
    <3>2. At(g) = x - 0 + (Len(all) - k)
      BY <1>9, <2>3, <3>1 DEF At
    <3>3. \A a, b, r, n, j, y \in Nat : n = b + r /\ j <= n /\ y = a + j
                                       => y - 0 + (n - j) = (a + b) + r
      OBVIOUS
    <3>4. k \in Nat /\ k <= Len(all) /\ x = off + k
      BY <1>0, <1>4, <1>5, <1>13
    <3>5. x - 0 + (Len(all) - k) = (off + Len(p)) + Len(s)
      BY ONLY <1>3, <1>4, <3>3, <3>4, off \in Nat, x \in Nat
    <3> QED
      BY ONLY <1>16, <3>2, <3>5
  <2>8. Written(f, d, s, o)
    BY <2>2, <2>4, <2>5, <2>6 DEF Written
  <2>9. Puts(f, d, s, o)
    BY <1>16, <2>2, <2>5, <2>7 DEF Puts
  <2> QED
    BY <2>2, <2>3, <2>8, <2>9 DEF Writes
<1>22. ASSUME NEW j \in 0 .. k - 1, NEW r \in 0 .. Len(s) - 1,
              o = [f |-> Dropped(w, j), d |-> DroppedTo(f, d, all, j), ret |-> r,
                   data |-> s, failed |-> TRUE]
       PROVE  Writes(f, d, s, o) /\ o.f.dir = "write"
  <2>1. j \in 0 .. Len(all) /\ j \in Nat
    BY <1>4, <1>5
  <2>2. PICK y \in Nat : y = off + j
    BY <2>1
  <2>3. PICK z \in Seq(Bytes) : z = <<>>
    BY EmptySeq
  <2>4. PICK yes \in BOOLEAN : yes = TRUE
    OBVIOUS
  <2>5. PICK g : g = [w EXCEPT !.off = y, !.pending = z, !.err = yes]
    OBVIOUS
  <2>6. PICK b : b = Overlaid(d, off, SubSeq(all, 1, j))
    OBVIOUS
  <2>7. o.f = g /\ o.d = b /\ o.ret = r /\ o.data = s /\ o.failed = TRUE
    BY <1>0, <1>18, <1>22, <2>2, <2>3, <2>4, <2>5, <2>6 DEF Dropped, DroppedTo
  <2>8. /\ g \in OpenFiles /\ g.off = y /\ g.ahead = <<>> /\ g.pending = z /\ g.dir = "write"
        /\ g.misused = FALSE
    BY <1>18, <2>5 DEF OpenFiles
  <2>9. /\ b \in Seq(Bytes) /\ Torn(d, b, b) /\ Torn(d, Overlaid(d, off, all), b)
    BY ONLY <1>1, <2>1, <2>6, off \in Nat, all \in Seq(Bytes), PartWritten
  <2>10. Handle(g, b) /\ View(g, b) = b /\ At(g) = y
    BY <2>3, <2>8, <2>9, Emptied
  <2>11. y \in 0 .. At(f) + Len(s)
    BY <1>3, <1>4, <1>16, <2>1, <2>2
  <2>12. Written(f, d, s, o)
    BY <2>7, <2>9, <2>10 DEF Written
  <2>13. PutsPart(f, d, s, o)
    BY <1>16, <2>7, <2>9, <2>10, <2>11 DEF PutsPart
  <2>14. o.ret \in Int /\ o.ret < Len(s)
    BY <1>4, <2>7
  <2> QED
    BY <2>7, <2>8, <2>12, <2>13, <2>14 DEF Writes
<1> QED
  BY <1>20, <1>21, <1>22, Zenon

\* What is pending has been written out.
LEMMA Drains ==
    ASSUME NEW f, NEW d, Handle(f, d), NEW g, g = Drained(f, d), NEW e, e = DrainedTo(f, d)
    PROVE  /\ Handle(g, e) /\ e = View(f, d) /\ View(g, e) = e /\ At(g) = At(f)
           /\ Torn(d, e, e) /\ g.dir = f.dir /\ g.pending = <<>> /\ e \in Seq(Bytes)
<1>1. /\ d \in Seq(Bytes) /\ f \in OpenFiles /\ f.misused = FALSE
      /\ f.off \in Nat /\ f.pending \in Seq(Bytes) /\ f.ahead \in Seq(Bytes) /\ Len(f.ahead) <= f.off
  BY DEF Handle, OpenFiles
<1>2. e \in Seq(Bytes) /\ e = View(f, d) /\ Torn(d, e, e)
  <2>1. e \in Seq(Bytes) /\ Len(e) >= Len(d)
    BY <1>1, OverlaidBytes, OverlaidLonger DEF DrainedTo
  <2> QED
    BY <1>1, <2>1, TornAll DEF DrainedTo, View
<1>3. PICK z \in Seq(Bytes) : z = <<>> /\ Len(z) = 0
  BY EmptySeq
<1>4. PICK x \in Nat : x = f.off + Len(f.pending)
  BY <1>1, LenProperties
<1>5. g = [f EXCEPT !.off = x, !.pending = z]
  BY <1>3, <1>4 DEF Drained
<1>6. /\ g \in OpenFiles /\ g.off = x /\ g.pending = z /\ g.ahead = f.ahead /\ g.dir = f.dir
      /\ g.misused = FALSE
  BY <1>1, <1>5 DEF OpenFiles
<1>7. ASSUME f.pending = <<>> PROVE Handle(g, e)
  <2>1. e = d
    BY <1>1, <1>7, OverlaidNothing DEF DrainedTo
  <2>2. Len(f.pending) = 0
    BY <1>7, EmptySeq
  <2>3. x = f.off
    BY <1>1, <1>4, <2>2
  <2> QED
    BY <1>3, <1>6, <2>1, <2>3 DEF Handle
<1>8. ASSUME f.pending # <<>> PROVE Handle(g, e)
  <2>1. f.dir = "write" /\ f.ahead = <<>>
    BY <1>8 DEF Handle
  <2>2. Len(f.ahead) = 0
    BY <2>1, EmptySeq
  <2> QED
    BY <1>2, <1>3, <1>6, <2>1, <2>2 DEF Handle
<1>9. Handle(g, e)
  BY <1>7, <1>8
<1>10. View(g, e) = e
  BY <1>2, <1>3, <1>6, OverlaidNothing DEF View
<1>11. At(g) = At(f)
  <2>1. Len(f.ahead) \in Nat /\ Len(f.pending) \in Nat
    BY <1>1, LenProperties
  <2>2. At(g) = x - Len(f.ahead) + 0
    BY <1>3, <1>6 DEF At
  <2>4. \A a, b, r, y \in Nat : y = a + b => y - r + 0 = a - r + b
    OBVIOUS
  <2>3. x - Len(f.ahead) + 0 = f.off - Len(f.ahead) + Len(f.pending)
    BY ONLY <1>1, <1>4, <2>1, <2>4
  <2> QED
    BY ONLY <2>2, <2>3 DEF At
<1> QED
  BY <1>2, <1>3, <1>6, <1>9, <1>10, <1>11

\* Some of it, and the rest is lost.
LEMMA Drops ==
    ASSUME NEW f, NEW d, Handle(f, d), NEW o \in FlushFaults(f, d)
    PROVE  /\ Handle(o.f, o.d) /\ View(o.f, o.d) = o.d /\ o.d \in Seq(Bytes)
           /\ Torn(d, o.d, o.d) /\ Torn(d, View(f, d), o.d)
           /\ o.ret = -1 /\ o.failed = TRUE /\ o.f.dir = f.dir /\ o.f.pending = <<>>
<1>1. /\ d \in Seq(Bytes) /\ f \in OpenFiles /\ f.misused = FALSE /\ f.pending \in Seq(Bytes)
  BY DEF Handle, OpenFiles
<1>0. PICK off \in Nat : off = f.off
  BY <1>1 DEF OpenFiles
<1>2. Len(f.pending) \in Nat
  BY <1>1, LenProperties
<1>3. PICK j \in 0 .. Len(f.pending) - 1 :
        o = Failed(Dropped(f, j), DroppedTo(f, d, f.pending, j), -1)
  BY DEF FlushFaults
<1>4. f.pending # <<>>
  <2>1. Len(f.pending) # 0
    BY <1>2, <1>3
  <2> QED
    BY <2>1, EmptySeq
<1>5. f.dir = "write" /\ f.ahead = <<>>
  BY <1>4 DEF Handle
<1>6. PICK z \in Seq(Bytes) : z = <<>>
  BY EmptySeq
<1>7. PICK yes \in BOOLEAN : yes = TRUE
  OBVIOUS
<1>8. PICK x \in Nat : x = off + j
  BY <1>2, <1>3
<1>9. PICK g : g = [f EXCEPT !.off = x, !.pending = z, !.err = yes]
  OBVIOUS
<1>10. PICK p \in Seq(Bytes) : p = f.pending
  BY <1>1
<1>11. PICK e : e = Overlaid(d, off, SubSeq(p, 1, j))
  OBVIOUS
<1>12. o.f = g /\ o.d = e /\ o.ret = -1 /\ o.failed = TRUE
  BY <1>0, <1>3, <1>6, <1>7, <1>8, <1>9, <1>10, <1>11 DEF Failed, Dropped, DroppedTo
<1>13. /\ g \in OpenFiles /\ g.ahead = <<>> /\ g.pending = z /\ g.dir = f.dir /\ g.misused = FALSE
  BY <1>1, <1>5, <1>9 DEF OpenFiles
<1>14. e \in Seq(Bytes) /\ Torn(d, e, e) /\ Torn(d, Overlaid(d, off, p), e)
  <2>1. j \in 0 .. Len(p)
    BY <1>2, <1>3, <1>10
  <2> QED
    BY ONLY <1>1, <1>11, <2>1, off \in Nat, p \in Seq(Bytes), PartWritten
<1>15. Handle(g, e) /\ View(g, e) = e
  BY <1>6, <1>13, <1>14, Emptied
<1>16. View(f, d) = Overlaid(d, off, p)
  BY <1>0, <1>10 DEF View
<1> QED
  BY <1>6, <1>12, <1>13, <1>14, <1>15, <1>16

\* fseek() writes out what is pending, forgets what was read ahead and moves.
LEMMA StdioSeeks ==
    ASSUME NEW f, NEW d, Handle(f, d), NEW to \in Int, NEW o \in fseek(f, d, to)
    PROVE  Seeks(f, d, to, o) /\ (o.f.dir = "none" \/ (o.ret = -1 /\ o.f.dir = f.dir))
<1>1. PICK g : g = Drained(f, d)
  OBVIOUS
<1>2. PICK e : e = DrainedTo(f, d)
  OBVIOUS
<1>3. /\ Handle(g, e) /\ e = View(f, d) /\ View(g, e) = e /\ At(g) = At(f)
      /\ Torn(d, e, e) /\ g.dir = f.dir /\ g.pending = <<>> /\ e \in Seq(Bytes)
  BY <1>1, <1>2, Drains
<1>4. \/ to < 0 /\ o = Failed(f, d, -1)
      \/ to >= 0 /\ o = Done([g EXCEPT !.off = to, !.ahead = <<>>, !.dir = "none"], e, 0, <<>>)
      \/ o = Failed(g, e, -1)
      \/ o \in FlushFaults(f, d)
  BY <1>1, <1>2 DEF fseek, Fault
<1>5. CASE o = Failed(f, d, -1)
  <2>1. o.f = f /\ o.d = d /\ o.ret = -1 /\ o.failed = TRUE
    BY <1>5 DEF Failed
  <2>2. /\ d \in Seq(Bytes) /\ f.off \in Nat /\ f.pending \in Seq(Bytes)
    BY DEF Handle, OpenFiles
  <2>3. Torn(d, View(f, d), d)
    BY <2>2, TornNone, OverlaidBytes DEF View
  <2>4. Torn(d, View(f, d), View(f, d))
    BY <1>3
  <2> QED
    BY <2>1, <2>3, <2>4 DEF Seeks
<1>6. CASE to >= 0 /\ o = Done([g EXCEPT !.off = to, !.ahead = <<>>, !.dir = "none"], e, 0, <<>>)
  <2>1. PICK z \in Seq(Bytes) : z = <<>>
    BY EmptySeq
  <2>2. PICK to2 \in Nat : to2 = to
    BY <1>6
  <2>3. PICK none \in {"none", "read", "write"} : none = "none"
    OBVIOUS
  <2>4. PICK h : h = [g EXCEPT !.off = to2, !.ahead = z, !.dir = none]
    OBVIOUS
  <2>5. o.f = h /\ o.d = e /\ o.ret = 0 /\ o.failed = FALSE
    BY <1>6, <2>1, <2>2, <2>3, <2>4 DEF Done
  <2>6. g \in OpenFiles /\ g.misused = FALSE
    BY <1>3 DEF Handle
  <2>7. /\ h \in OpenFiles /\ h.off = to2 /\ h.ahead = z /\ h.dir = none /\ h.pending = <<>>
        /\ h.misused = FALSE
    BY <1>3, <2>4, <2>6 DEF OpenFiles
  <2>8. Handle(h, e) /\ View(h, e) = e /\ At(h) = to
    BY <1>3, <2>1, <2>2, <2>7, Emptied
  <2>9. o.ret # -1 /\ o.ret \in {to, 0}
    BY <2>5
  <2> QED
    BY <1>3, <2>3, <2>5, <2>7, <2>8, <2>9, Zenon DEF Seeks
<1>7. CASE o = Failed(g, e, -1)
  <2>1. o.f = g /\ o.d = e /\ o.ret = -1 /\ o.failed = TRUE
    BY <1>7 DEF Failed
  <2> QED
    BY <1>3, <2>1 DEF Seeks
<1>8. CASE o \in FlushFaults(f, d)
  <2>1. /\ Handle(o.f, o.d) /\ View(o.f, o.d) = o.d
        /\ Torn(d, o.d, o.d) /\ Torn(d, View(f, d), o.d)
        /\ o.ret = -1 /\ o.failed = TRUE /\ o.f.dir = f.dir
    BY <1>8, Drops
  <2> QED
    BY <2>1 DEF Seeks
<1> QED
  BY <1>4, <1>5, <1>6, <1>7, <1>8

\* A close that does not fail leaves on disk what its user saw, and one that does a part of it.
Closes(f, d, o) ==
    /\ o.failed \in BOOLEAN /\ o.f = NoFile /\ o.d \in Seq(Bytes)
    /\ o.failed = FALSE => o.d = View(f, d)
    /\ Torn(d, View(f, d), o.d)

\* io300_close of stdio.c flushes, then closes.
LEMMA StdioCloses ==
    ASSUME NEW f, NEW d, Handle(f, d), NEW p \in stdio_close(f, d)
    PROVE  Closes(f, d, p)
<1>1. PICK o \in fflush(f, d) :
        p \in {[c EXCEPT !.failed = @ \/ o.failed] : c \in fclose(o.f, o.d)}
  BY DEF stdio_close, stdio_flush
<1>0. PICK c \in fclose(o.f, o.d) : p = [c EXCEPT !.failed = @ \/ o.failed]
  BY <1>1
<1>2. /\ o.failed \in BOOLEAN /\ o.d \in Seq(Bytes) /\ o.f.pending = <<>> /\ o.f.off \in Nat
      /\ o.failed = FALSE => o.d = View(f, d)
      /\ Torn(d, View(f, d), o.d)
  <2>1. PICK g : g = Drained(f, d)
    OBVIOUS
  <2>2. PICK e : e = DrainedTo(f, d)
    OBVIOUS
  <2>3. /\ Handle(g, e) /\ e = View(f, d) /\ Torn(d, e, e) /\ g.pending = <<>> /\ e \in Seq(Bytes)
    BY <2>1, <2>2, Drains
  <2>4. o = Done([g EXCEPT !.dir = "none"], e, 0, <<>>) \/ o \in FlushFaults(f, d)
    BY <2>1, <2>2 DEF fflush
  <2>5. CASE o = Done([g EXCEPT !.dir = "none"], e, 0, <<>>)
    <3>1. o.f = [g EXCEPT !.dir = "none"] /\ o.d = e /\ o.failed = FALSE
      BY <2>5 DEF Done
    <3>2. g \in OpenFiles
      BY <2>3 DEF Handle
    <3>3. o.f.pending = <<>> /\ o.f.off \in Nat
      BY <2>3, <3>1, <3>2 DEF OpenFiles
    <3> QED
      BY <2>3, <3>1, <3>3
  <2>6. CASE o \in FlushFaults(f, d)
    <3>1. Handle(o.f, o.d) /\ o.failed = TRUE /\ o.d \in Seq(Bytes) /\ o.f.pending = <<>>
          /\ Torn(d, View(f, d), o.d)
      BY <2>6, Drops
    <3>2. o.f.off \in Nat
      BY <3>1 DEF Handle, OpenFiles
    <3> QED
      BY <3>1, <3>2
  <2> QED
    BY <2>4, <2>5, <2>6
<1>3. c.f = NoFile /\ c.d = o.d /\ c.failed \in BOOLEAN
  <2>1. DrainedTo(o.f, o.d) = o.d
    BY <1>2, OverlaidNothing DEF DrainedTo
  <2>2. c = Done(NoFile, o.d, 0, <<>>) \/ c = Failed(NoFile, o.d, -1)
    BY <2>1 DEF fclose, Fault
  <2>3. CASE c = Done(NoFile, o.d, 0, <<>>)
    BY <2>3 DEF Done
  <2>4. CASE c = Failed(NoFile, o.d, -1)
    BY <2>4 DEF Failed
  <2> QED
    BY <2>2, <2>3, <2>4
<1>4. c = [f |-> c.f, d |-> c.d, ret |-> c.ret, data |-> c.data, failed |-> c.failed]
  BY DEF fclose, Fault, Done, Failed
<1>5. PICK b \in BOOLEAN : b = (c.failed \/ o.failed)
  BY <1>2, <1>3
<1>6. p = [c EXCEPT !.failed = b]
  BY <1>0, <1>5
<1>7. p.f = NoFile /\ p.d = o.d /\ p.failed = b
  BY <1>3, <1>4, <1>6
<1>8. b = FALSE => o.failed = FALSE
  BY <1>2, <1>5
<1> QED
  BY <1>2, <1>7, <1>8 DEF Closes

-----------------------------------------------------------------------------
(* The calls of the implementation the program is linked with.             *)

\* Outcomes are records, of which a wrapper may change the result.
IsOutcome(o) == o = [f |-> o.f, d |-> o.d, ret |-> o.ret, data |-> o.data, failed |-> o.failed]

\* The calls underneath return outcomes.
LEMMA Outcomes ==
    ASSUME NEW f, NEW d
    PROVE  /\ \A n : \A o \in sys_read(f, d, n) \cup fread(f, d, n) : IsOutcome(o)
           /\ \A s, limit : \A o \in sys_write(f, d, s, limit) : IsOutcome(o)
           /\ \A s : \A o \in fwrite(f, d, s) : IsOutcome(o)
<1>1. \A g, e, r, x : IsOutcome(Done(g, e, r, x)) /\ IsOutcome(Failed(g, e, r))
  BY DEF IsOutcome, Done, Failed
<1>2. \A o \in Fault(f, d) : IsOutcome(o)
  BY <1>1 DEF Fault
<1>3. \A g, e, r, x, y : IsOutcome([f |-> g, d |-> e, ret |-> r, data |-> x, failed |-> y])
  BY DEF IsOutcome
<1>4. ASSUME NEW n, NEW o \in sys_read(f, d, n) PROVE IsOutcome(o)
  BY <1>1, <1>2 DEF sys_read
<1>5. ASSUME NEW n, NEW o \in fread(f, d, n) PROVE IsOutcome(o)
  <2>1. \/ \E g, e, r, x : o = Done(g, e, r, x)
        \/ \E g, e, r, x, y : o = [f |-> g, d |-> e, ret |-> r, data |-> x, failed |-> y]
    <3> DEFINE at == f.off - Len(f.ahead)
               end == IF at >= Len(d) THEN at ELSE Least(at + n, Len(d))
               refills == IF end <= f.off THEN 0 ELSE (end - f.off + BUFSIZ - 1) \div BUFSIZ
               off == IF refills = 0 THEN f.off ELSE Least(f.off + refills * BUFSIZ, Len(d))
               g == [f EXCEPT !.dir = "read", !.misused = @ \/ f.dir = "write"]
               first(m) == [g EXCEPT !.off = at + m, !.ahead = <<>>, !.err = TRUE]
               M == {m \in IF MayFail THEN Len(f.ahead)..(end - at) ELSE {} : m < n}
    <3>1. \/ o = Done([g EXCEPT !.off = off, !.ahead = Between(d, end, off)], d, end - at,
                      Between(d, at, end))
          \/ o \in {[f |-> first(m), d |-> d, ret |-> m, data |-> Between(d, at, at + m),
                     failed |-> TRUE] : m \in M}
      BY Zenon DEF fread
    <3> HIDE DEF at, end, refills, off, g, first, M
    <3>2. CASE o \in {[f |-> first(m), d |-> d, ret |-> m, data |-> Between(d, at, at + m),
                       failed |-> TRUE] : m \in M}
      <4>1. PICK m \in M : o = [f |-> first(m), d |-> d, ret |-> m,
                                data |-> Between(d, at, at + m), failed |-> TRUE]
        BY <3>2
      <4> QED
        BY <4>1, Zenon
    <3>3. CASE o = Done([g EXCEPT !.off = off, !.ahead = Between(d, end, off)], d, end - at,
                        Between(d, at, end))
      BY <3>3, Zenon
    <3> QED
      BY <3>1, <3>2, <3>3
  <2> QED
    BY <1>1, <1>3, <2>1
<1>6. ASSUME NEW s, NEW limit, NEW o \in sys_write(f, d, s, limit) PROVE IsOutcome(o)
  <2>1. CASE \E q \in Fault(f, d) : o = [q EXCEPT !.data = s]
    <3>1. PICK q \in Fault(f, d) : o = [q EXCEPT !.data = s]
      BY <2>1
    <3>2. q = [f |-> q.f, d |-> q.d, ret |-> q.ret, data |-> q.data, failed |-> q.failed]
      BY <1>2 DEF IsOutcome
    <3>3. o = [f |-> q.f, d |-> q.d, ret |-> q.ret, data |-> s, failed |-> q.failed]
      BY <3>1, <3>2
    <3> QED
      BY <1>3, <3>3
  <2>2. \/ \E q \in Fault(f, d) : o = [q EXCEPT !.data = s]
        \/ \E g, e, r, x, y : o = [f |-> g, d |-> e, ret |-> r, data |-> x, failed |-> y]
    BY DEF sys_write
  <2> QED
    BY <1>3, <2>1, <2>2
<1>7. ASSUME NEW s, NEW o \in fwrite(f, d, s) PROVE IsOutcome(o)
  <2>1. \/ \E g, e, r, x : o = Done(g, e, r, x)
        \/ \E g, e, r, x, y : o = [f |-> g, d |-> e, ret |-> r, data |-> x, failed |-> y]
    BY SMTT(30) DEF fwrite
  <2> QED
    BY <1>1, <1>3, <2>1
<1> QED
  BY <1>4, <1>5, <1>6, <1>7

\* A wrapper that changes only what is returned.
LEMMA OtherReturn ==
    ASSUME NEW o, IsOutcome(o), NEW x, NEW p, p = [o EXCEPT !.ret = x]
    PROVE  /\ p.f = o.f /\ p.d = o.d /\ p.data = o.data /\ p.failed = o.failed /\ p.ret = x
BY DEF IsOutcome

Implementations == {"naive", "student", "stdio"}

\* The unbuffered implementations leave the direction alone.
Suits(f) == run.impl # "stdio" => f.dir = "none"

\* io300_read.
LEMMA CallReads ==
    ASSUME run.impl \in Implementations, NEW f, NEW d, Handle(f, d), Suits(f), f.dir # "write",
           NEW n \in Nat, NEW p \in io300_read(f, d, n)
    PROVE  Reads(f, d, n, p) /\ Suits(p.f) /\ p.f.dir # "write"
<1>1. CASE run.impl # "stdio"
  <2>1. p \in sys_read(f, d, n)
    BY <1>1 DEF io300_read, naive_read, student_read, Implementations
  <2>2. f.dir = "none"
    BY <1>1 DEF Suits
  <2>3. Reads(f, d, n, p) /\ p.f.dir = "none"
    BY <2>1, <2>2, SysReads
  <2> QED
    BY <2>3 DEF Suits
<1>2. CASE run.impl = "stdio"
  <2>0. p \in stdio_read(f, d, n)
    BY <1>2 DEF io300_read
  <2>1. PICK o \in fread(f, d, n) :
           p = IF o.data = <<>> /\ n # 0 /\ o.f.err THEN [o EXCEPT !.ret = -1, !.failed = TRUE] ELSE o
    BY <2>0, Zenon DEF stdio_read
  <2>2. Freads(f, d, n, o) /\ o.f.dir = "read"
    BY <2>1, StdioReads
  <2>3. o.data \in Seq(Bytes) /\ Len(o.data) \in Nat /\ (o.data = <<>> <=> Len(o.data) = 0)
    BY <2>2, LenProperties, EmptySeq DEF Freads, Gets
  <2>4. CASE p = o /\ ~(o.data = <<>> /\ n # 0 /\ o.f.err)
    <3>1. o.ret = 0 => n = 0 \/ AtEnd(f, d)
      BY <2>2, <2>3, <2>4 DEF Freads
    <3>2. Reads(f, d, n, o)
      BY <2>2, <3>1 DEF Freads, Reads
    <3> QED
      BY <1>2, <2>2, <2>4, <3>2 DEF Suits
  <2>5. CASE p = [o EXCEPT !.ret = -1, !.failed = TRUE] /\ o.data = <<>>
    <3>1. o = [f |-> o.f, d |-> o.d, ret |-> o.ret, data |-> o.data, failed |-> o.failed]
      BY <2>1, Outcomes DEF IsOutcome
    <3>2. p.f = o.f /\ p.d = o.d /\ p.data = o.data /\ p.ret = -1 /\ p.failed = TRUE
      BY <2>5, <3>1
    <3>3. Gets(f, d, n, p)
      BY <2>2, <3>2 DEF Freads, Gets
    <3> QED
      BY <1>2, <2>2, <2>5, <3>2, <3>3 DEF Reads, Suits
  <2> QED
    BY <2>1, <2>4, <2>5
<1> QED
  BY <1>1, <1>2

\* io300_readc: a byte, or -1.
LEMMA CallReadcs ==
    ASSUME run.impl \in Implementations, NEW f, NEW d, Handle(f, d), Suits(f), f.dir # "write",
           NEW p \in io300_readc(f, d)
    PROVE  /\ Readcs(f, d, p) /\ Suits(p.f) /\ p.f.dir # "write"
           /\ p.ret = -1 \/ p.ret \in Bytes
<1>1. PICK o, x : /\ p = [o EXCEPT !.ret = x] /\ x = IF o.ret = 1 THEN o.data[1] ELSE -1
                  /\ \/ run.impl # "stdio" /\ o \in sys_read(f, d, 1)
                     \/ run.impl = "stdio" /\ o \in fread(f, d, 1)
  BY DEF io300_readc, naive_readc, student_readc, stdio_readc, Implementations
<1>0. PICK n \in Nat : n = 1
  OBVIOUS
<1>2. /\ Gets(f, d, n, o) /\ Suits(o.f) /\ o.f.dir # "write"
      /\ \/ o.ret = Len(o.data) /\ (o.ret = 0 => o.failed = TRUE \/ AtEnd(f, d))
         \/ o.ret = -1 /\ o.data = <<>> /\ o.failed = TRUE
  <2>1. CASE run.impl # "stdio" /\ o \in sys_read(f, d, 1)
    <3>1. f.dir = "none"
      BY <2>1 DEF Suits
    <3>2. o \in sys_read(f, d, n)
      BY <1>0, <2>1
    <3>3. Reads(f, d, n, o) /\ o.f.dir = "none"
      BY <3>1, <3>2, SysReads
    <3> QED
      BY <1>0, <3>3 DEF Reads, Suits
  <2>2. CASE run.impl = "stdio" /\ o \in fread(f, d, 1)
    <3>1. o \in fread(f, d, n)
      BY <1>0, <2>2
    <3>2. Freads(f, d, n, o) /\ o.f.dir = "read"
      BY <3>1, StdioReads
    <3> QED
      BY <1>0, <2>2, <3>2 DEF Freads, Suits
  <2> QED
    BY <1>1, <2>1, <2>2
<1>3. /\ p.f = o.f /\ p.d = o.d /\ p.data = o.data /\ p.failed = o.failed /\ p.ret = x
  BY <1>1, Outcomes, OtherReturn
<1>4. Gets(f, d, 1, p)
  BY <1>0, <1>2, <1>3 DEF Gets
<1>5. /\ o.data \in Seq(Bytes) /\ Len(o.data) \in Nat /\ Len(o.data) <= 1
      /\ (o.data = <<>> <=> Len(o.data) = 0)
  BY <1>0, <1>2, LenProperties, EmptySeq DEF Gets
<1>6. CASE o.ret = 1
  <2>1. Len(o.data) = 1
    BY <1>2, <1>6
  <2>2. x = o.data[1] /\ o.data[1] \in Bytes
    BY <1>1, <1>5, <1>6, <2>1
  <2> QED
    BY <1>2, <1>3, <1>4, <2>1, <2>2 DEF Readcs, Suits
<1>7. CASE o.ret # 1
  <2>1. x = -1
    BY <1>1, <1>7
  <2>2. o.data = <<>> /\ (o.failed = TRUE \/ AtEnd(f, d))
    BY <1>2, <1>5, <1>7
  <2> QED
    BY <1>2, <1>3, <1>4, <2>1, <2>2 DEF Readcs, Suits
<1> QED
  BY <1>6, <1>7

\* io300_write.
LEMMA CallWrites ==
    ASSUME run.impl \in Implementations, run.limit \in Nat, NEW f, NEW d, Handle(f, d), Suits(f),
           f.dir # "read", NEW s \in Seq(Bytes), NEW p \in io300_write(f, d, s)
    PROVE  Writes(f, d, s, p) /\ Suits(p.f) /\ p.f.dir # "read"
<1>1. CASE run.impl # "stdio"
  <2>1. p \in sys_write(f, d, s, run.limit)
    BY <1>1 DEF io300_write, naive_write, student_write, Implementations
  <2>2. f.dir = "none"
    BY <1>1 DEF Suits
  <2>3. Writes(f, d, s, p) /\ p.f.dir = "none"
    BY <2>1, <2>2, SysWrites
  <2> QED
    BY <2>3 DEF Suits
<1>2. CASE run.impl = "stdio"
  <2>1. PICK o \in fwrite(f, d, s) :
           p = IF o.ret = 0 /\ s # <<>> /\ o.f.err THEN [o EXCEPT !.ret = -1] ELSE o
    BY <1>2 DEF io300_write, stdio_write
  <2>2. Writes(f, d, s, o) /\ o.f.dir = "write"
    BY <2>1, StdioWrites
  <2>3. CASE p = o
    BY <1>2, <2>2, <2>3 DEF Suits
  <2>4. CASE p = [o EXCEPT !.ret = -1] /\ o.ret = 0 /\ s # <<>>
    <3>1. /\ p.f = o.f /\ p.d = o.d /\ p.data = o.data /\ p.failed = o.failed /\ p.ret = -1
      <4>1. PICK x : x = -1
        OBVIOUS
      <4>2. p = [o EXCEPT !.ret = x]
        BY <2>4, <4>1
      <4>3. IsOutcome(o)
        BY <2>1, Outcomes
      <4> QED
        BY <4>1, <4>2, <4>3, OtherReturn
    <3>2. Len(s) \in Nat /\ Len(s) # 0
      BY <2>4, EmptySeq, LenProperties
    <3>3. PutsPart(f, d, s, o)
      BY <2>2, <2>4, <3>2 DEF Writes
    <3>4. PutsPart(f, d, s, p)
      BY <3>1, <3>3 DEF PutsPart
    <3>5. Written(f, d, s, p)
      BY <2>2, <3>1 DEF Writes, Written
    <3>6. p.ret \in Int /\ p.ret < Len(s)
      BY <3>1, <3>2
    <3> QED
      BY <1>2, <2>2, <3>1, <3>4, <3>5, <3>6 DEF Writes, Suits
  <2> QED
    BY <2>1, <2>3, <2>4
<1> QED
  BY <1>1, <1>2

\* A byte that was written, or was not.
Writecs(f, d, ch, o) ==
    /\ Written(f, d, <<ch>>, o)
    /\ \/ o.ret = ch /\ Puts(f, d, <<ch>>, o)
       \/ o.ret = -1 /\ PutsPart(f, d, <<ch>>, o)

LEMMA OneByte == \A ch \in Bytes : <<ch>> \in Seq(Bytes) /\ Len(<<ch>>) = 1
<1> TAKE ch \in Bytes
<1>1. <<ch>> \in [1 .. 1 -> Bytes]
  OBVIOUS
<1> QED
  BY <1>1, FunctionIsSeq

\* io300_writec.
LEMMA CallWritecs ==
    ASSUME run.impl \in Implementations, run.limit \in Nat, NEW f, NEW d, Handle(f, d), Suits(f),
           f.dir # "read", NEW ch \in Bytes, NEW p \in io300_writec(f, d, ch)
    PROVE  Writecs(f, d, ch, p) /\ Suits(p.f) /\ p.f.dir # "read"
<1>1. PICK s \in Seq(Bytes) : s = <<ch>> /\ Len(s) = 1
  BY OneByte
<1>2. PICK o, x : /\ p = [o EXCEPT !.ret = x] /\ x = (IF o.ret = 1 THEN ch ELSE -1)
                  /\ \/ run.impl # "stdio" /\ o \in sys_write(f, d, s, run.limit)
                     \/ run.impl = "stdio" /\ o \in fwrite(f, d, s)
  BY <1>1 DEF io300_writec, naive_writec, student_writec, stdio_writec, Implementations
<1>3. Writes(f, d, s, o) /\ Suits(o.f) /\ o.f.dir # "read"
  BY <1>2, SysWrites, StdioWrites DEF Suits
<1>4. /\ p.f = o.f /\ p.d = o.d /\ p.data = o.data /\ p.failed = o.failed /\ p.ret = x
  BY <1>2, Outcomes, OtherReturn
<1>5. Written(f, d, s, p)
  BY <1>3, <1>4 DEF Writes, Written
<1>6. CASE o.ret = 1
  <2>1. Puts(f, d, s, o)
    BY <1>1, <1>3, <1>6 DEF Writes
  <2>2. Puts(f, d, s, p)
    BY <1>4, <2>1 DEF Puts
  <2>3. p.ret = ch
    BY <1>2, <1>4, <1>6
  <2> QED
    BY <1>1, <1>3, <1>4, <1>5, <2>2, <2>3 DEF Writecs, Suits
<1>7. CASE o.ret # 1
  <2>1. PutsPart(f, d, s, o)
    BY <1>1, <1>3, <1>7 DEF Writes
  <2>2. PutsPart(f, d, s, p)
    BY <1>4, <2>1 DEF PutsPart
  <2>3. p.ret = -1
    BY <1>2, <1>4, <1>7
  <2> QED
    BY <1>1, <1>3, <1>4, <1>5, <2>2, <2>3 DEF Writecs, Suits
<1> QED
  BY <1>6, <1>7

\* io300_seek: after one that succeeded a transfer may go either way.
LEMMA CallSeeks ==
    ASSUME run.impl \in Implementations, NEW f, NEW d, Handle(f, d), Suits(f),
           NEW to \in Int, NEW p \in io300_seek(f, d, to)
    PROVE  Seeks(f, d, to, p) /\ Suits(p.f) /\ (p.f.dir = "none" \/ (p.ret = -1 /\ p.f.dir = f.dir))
<1>1. CASE run.impl # "stdio"
  <2>1. p \in sys_lseek(f, d, to)
    BY <1>1 DEF io300_seek, naive_seek, student_seek, Implementations
  <2> QED
    BY <1>1, <2>1, SysSeeks DEF Suits
<1>2. CASE run.impl = "stdio"
  <2>1. p \in fseek(f, d, to)
    BY <1>2 DEF io300_seek, stdio_seek
  <2> QED
    BY <1>2, <2>1, StdioSeeks DEF Suits
<1> QED
  BY <1>1, <1>2

\* io300_close: without a failure nothing is lost.
LEMMA CallCloses ==
    ASSUME run.impl \in Implementations, NEW f, NEW d, Handle(f, d), Suits(f),
           NEW p \in io300_close(f, d)
    PROVE  Closes(f, d, p)
<1>1. CASE run.impl # "stdio"
  <2>1. p = Done(NoFile, d, 0, <<>>)
    <3>1. CASE run.impl = "naive"
      BY <3>1 DEF io300_close, naive_close, naive_flush, Done
    <3>2. CASE run.impl = "student"
      BY <3>2 DEF io300_close, student_close
    <3> QED
      BY <1>1, <3>1, <3>2 DEF Implementations
  <2>2. d \in Seq(Bytes) /\ f.pending = <<>> /\ f.ahead = <<>>
    BY <1>1 DEF Handle, Suits
  <2>3. View(f, d) = d
    BY <2>2, Unbuffered
  <2>4. Torn(d, d, d)
    BY <2>2, TornNone
  <2>5. p.f = NoFile /\ p.d = d /\ p.failed = FALSE
    BY <2>1 DEF Done
  <2> QED
    BY <2>2, <2>3, <2>4, <2>5 DEF Closes
<1>2. CASE run.impl = "stdio"
  <2>1. p \in stdio_close(f, d)
    BY <1>2 DEF io300_close
  <2> QED
    BY <2>1, StdioCloses
<1> QED
  BY <1>1, <1>2

\* io300_open: a file of bytes at its first one, or none.
LEMMA CallOpens ==
    ASSUME run.impl \in Implementations, NEW d \in Seq(Bytes) \cup {Missing},
           NEW p \in io300_open(d)
    PROVE  /\ p.failed \in BOOLEAN
           /\ p.failed = FALSE => /\ p.f = Opened /\ p.d \in Seq(Bytes)
                                  /\ p.d = IF d = Missing THEN <<>> ELSE d
           /\ p.failed = TRUE => p.d = d
<1>1. PICK e : e = IF d = Missing THEN <<>> ELSE d
  OBVIOUS
<1>2. e \in Seq(Bytes)
  BY <1>1, EmptySeq
<1>3. p = Done(Opened, e, 0, <<>>) \/ p = Failed(NoFile, d, -1)
  BY <1>1 DEF io300_open, naive_open, student_open, stdio_open, Implementations
<1>4. CASE p = Done(Opened, e, 0, <<>>)
  <2>1. p.f = Opened /\ p.d = e /\ p.failed = FALSE
    BY <1>4 DEF Done
  <2> QED
    BY <1>1, <1>2, <2>1
<1>5. CASE p = Failed(NoFile, d, -1)
  <2>1. p.d = d /\ p.failed = TRUE
    BY <1>5 DEF Failed
  <2> QED
    BY <2>1
<1> QED
  BY <1>3, <1>4, <1>5

-----------------------------------------------------------------------------
(* A call of the program as a step of the abstract file.                   *)

Cs == [h \in Names |-> Contents(h)]
Ss == [h \in Names |-> OnDisk(h)]
Ps == [h \in Names |-> Tell(h)]
FileStep == [AFile!Next]_<<Cs, Ss, Ps, call, turn>>

Open(h) == Handle(file[h], disk[h]) /\ Suits(file[h])
AreFiles == file = [h \in Names |-> file[h]] /\ disk = [h \in Names |-> disk[h]]

\* Nothing happens to the handles other than h.
Only(h) == /\ AreFiles' /\ run' = run
           /\ \A g \in Names \ {h} : file'[g] = file[g] /\ disk'[g] = disk[g]

\* An open file is neither closed nor missing.
LEMMA OpenIs ==
    ASSUME NEW f, NEW d, Handle(f, d)
    PROVE  f # NoFile /\ d # Missing /\ View(f, d) \in Seq(Bytes) /\ At(f) \in Nat
<1>1. d \in Seq(Bytes) /\ f \in OpenFiles /\ Len(f.ahead) <= f.off
  BY DEF Handle
<1>2. f # NoFile
  <2>1. "closed" \notin DOMAIN f
    BY <1>1 DEF OpenFiles
  <2>2. "closed" \in DOMAIN NoFile
    BY DEF NoFile
  <2> QED
    BY <2>1, <2>2
<1>3. d # Missing
  <2>1. Len(Missing) = 1 /\ Missing[1] = -1 /\ -1 \notin Bytes
    BY DEF Missing, Bytes
  <2>2. ASSUME d = Missing PROVE Missing[1] \in Bytes
    <3>1. Missing \in Seq(Bytes) /\ 1 \in 1 .. Len(Missing)
      BY <1>1, <2>1, <2>2
    <3> QED
      BY ONLY <3>1, ElementOfSeq
  <2> QED
    BY <2>1, <2>2
<1>4. f.off \in Nat /\ f.pending \in Seq(Bytes) /\ f.ahead \in Seq(Bytes)
  BY <1>1 DEF OpenFiles
<1>5. View(f, d) \in Seq(Bytes)
  BY <1>1, <1>4, OverlaidBytes DEF View
<1>6. Len(f.pending) \in Nat /\ Len(f.ahead) \in Nat
  BY <1>4, LenProperties
<1>7. At(f) \in Nat
  <2>1. \A a, b, r \in Nat : b <= a => a - b + r \in Nat
    OBVIOUS
  <2>2. f.off - Len(f.ahead) + Len(f.pending) \in Nat
    BY ONLY <1>1, <1>4, <1>6, <2>1
  <2> QED
    BY <2>2 DEF At
<1> QED
  BY <1>2, <1>3, <1>5, <1>7

\* What the user of an open file sees.
LEMMA Sees ==
    ASSUME NEW h \in Names, Handle(file[h], disk[h])
    PROVE  /\ Contents(h) = View(file[h], disk[h]) /\ Tell(h) = At(file[h])
           /\ Contents(h) \in Seq(Bytes) /\ Tell(h) \in Nat /\ OnDisk(h) = disk[h]
<1>1. file[h] # NoFile /\ disk[h] # Missing
  BY OpenIs
<1>2. Contents(h) = View(file[h], disk[h])
  BY <1>1 DEF Contents, View
<1>3. Tell(h) = At(file[h])
  BY <1>1 DEF Tell, At
<1>4. OnDisk(h) = disk[h]
  BY <1>1 DEF OnDisk
<1> QED
  BY <1>2, <1>3, <1>4, OpenIs

\* The call on handle h has returned, and the file is open still.
LEMMA Returned ==
    ASSUME AreFiles, NEW h \in Names, NEW op, NEW n, NEW o, Handle(o.f, o.d), Suits(o.f),
           Returns(op, h, n, o)
    PROVE  /\ Only(h) /\ Open(h)' /\ file'[h] = o.f /\ disk'[h] = o.d
           /\ Contents(h)' = View(o.f, o.d) /\ Tell(h)' = At(o.f) /\ OnDisk(h)' = o.d
           /\ \A g \in Names \ {h} : /\ Contents(g)' = Contents(g) /\ Tell(g)' = Tell(g)
                                     /\ OnDisk(g)' = OnDisk(g)
           /\ call'.op = op /\ call'.h = h /\ call'.n = n /\ call'.to = n
           /\ call'.data = o.data /\ call'.failed = o.failed /\ call'.ret = o.ret
           /\ turn' = 1 - turn
<1>1. file' = [file EXCEPT ![h] = o.f] /\ disk' = [disk EXCEPT ![h] = o.d] /\ run' = run
  BY DEF Returns
<1>2. /\ file'[h] = o.f /\ disk'[h] = o.d
      /\ \A g \in Names \ {h} : file'[g] = file[g] /\ disk'[g] = disk[g]
  BY <1>1 DEF AreFiles
<1>3. AreFiles'
  BY <1>1 DEF AreFiles
<1>4. Open(h)'
  BY <1>1, <1>2 DEF Open, Suits
<1>5. Contents(h)' = View(o.f, o.d) /\ Tell(h)' = At(o.f) /\ OnDisk(h)' = o.d
  BY <1>2, OpenIs DEF Contents, Tell, View, At, OnDisk
<1>6. \A g \in Names \ {h} : /\ Contents(g)' = Contents(g) /\ Tell(g)' = Tell(g)
                             /\ OnDisk(g)' = OnDisk(g)
  BY <1>2 DEF Contents, Tell, OnDisk
<1>7. /\ call'.op = op /\ call'.h = h /\ call'.n = n /\ call'.to = n
      /\ call'.data = o.data /\ call'.failed = o.failed /\ call'.ret = o.ret
      /\ turn' = 1 - turn
  BY DEF Returns
<1> QED
  BY <1>1, <1>2, <1>3, <1>4, <1>5, <1>6, <1>7 DEF Only

\* What the abstract file shows of such a call.
Shown(op, h, n, o) ==
    /\ AFile!Concerns(h) /\ turn' = 1 - turn
    /\ Cs[h] = View(file[h], disk[h]) /\ Ps[h] = At(file[h]) /\ Ss[h] = disk[h]
    /\ Cs'[h] = View(o.f, o.d) /\ Ps'[h] = At(o.f)
    /\ call'.op = op /\ call'.n = n /\ call'.to = n
    /\ call'.data = o.data /\ call'.failed = o.failed /\ call'.ret = o.ret

LEMMA Mapped ==
    ASSUME AreFiles, NEW h \in Names, Open(h), NEW op, NEW n, NEW o,
           Handle(o.f, o.d), Suits(o.f), Torn(disk[h], View(o.f, o.d), o.d), Returns(op, h, n, o)
    PROVE  Shown(op, h, n, o)
<1>1. /\ Contents(h)' = View(o.f, o.d) /\ Tell(h)' = At(o.f) /\ OnDisk(h)' = o.d
      /\ \A g \in Names \ {h} : /\ Contents(g)' = Contents(g) /\ Tell(g)' = Tell(g)
                                /\ OnDisk(g)' = OnDisk(g)
      /\ call'.op = op /\ call'.h = h /\ call'.n = n /\ call'.to = n
      /\ call'.data = o.data /\ call'.failed = o.failed /\ call'.ret = o.ret
      /\ turn' = 1 - turn
  BY Returned
<1>2. Contents(h) = View(file[h], disk[h]) /\ Tell(h) = At(file[h]) /\ OnDisk(h) = disk[h]
  BY Sees DEF Open
<1>3. /\ Cs[h] = View(file[h], disk[h]) /\ Ps[h] = At(file[h]) /\ Ss[h] = disk[h]
      /\ Cs'[h] = View(o.f, o.d) /\ Ps'[h] = At(o.f) /\ Ss'[h] = o.d
      /\ \A g \in Names \ {h} : Cs'[g] = Cs[g] /\ Ps'[g] = Ps[g] /\ Ss'[g] = Ss[g]
  BY <1>1, <1>2 DEF Cs, Ps, Ss
<1>4. AFile!Torn(Ss[h], Cs'[h], Ss'[h])
  BY <1>3 DEF Torn, AFile!Torn
<1>5. AFile!Concerns(h)
  BY <1>1, <1>3, <1>4 DEF AFile!Concerns, Cs, Ps, Ss
<1> QED
  BY <1>1, <1>3, <1>5 DEF Shown

\* A seek is one of the abstract file.
LEMMA SeekSteps ==
    ASSUME AreFiles, NEW h \in Names, Open(h), NEW to, NEW o,
           Seeks(file[h], disk[h], to, o), Suits(o.f), Returns("seek", h, to, o)
    PROVE  FileStep
<1>1. Handle(o.f, o.d) /\ Torn(disk[h], View(o.f, o.d), o.d)
  BY DEF Seeks
<1>2. Shown("seek", h, to, o)
  BY <1>1, Mapped
<1>3. \/ o.ret # -1 /\ o.ret \in {to, 0} /\ Ps'[h] = to /\ Cs'[h] = Cs[h]
      \/ o.ret = -1 /\ o.failed = TRUE /\ AFile!Torn(Ss[h], Cs[h], Cs'[h])
  BY <1>2 DEF Seeks, Shown, Torn, AFile!Torn
<1>4. AFile!Seek(h)
  BY <1>2, <1>3 DEF AFile!Seek, Shown, Cs, Ps, Ss
<1> QED
  BY <1>2, <1>4 DEF FileStep, AFile!Next, Shown

\* A read is one of the abstract file.
LEMMA GetSteps ==
    ASSUME AreFiles, NEW h \in Names, Open(h), NEW op, NEW n, NEW o,
           Gets(file[h], disk[h], n, o), Suits(o.f), Returns(op, h, n, o)
    PROVE  Shown(op, h, n, o) /\ AFile!Gets(h) /\ (AtEnd(file[h], disk[h]) => Ps[h] >= Len(Cs[h]))
<1>1. Handle(o.f, o.d) /\ o.d = disk[h] /\ View(o.f, o.d) = View(file[h], disk[h])
  BY DEF Gets
<1>2. Torn(disk[h], View(o.f, o.d), o.d)
  BY <1>1, OpenIs, TornNone DEF Handle
<1>3. Shown(op, h, n, o)
  BY <1>1, <1>2, Mapped
<1>4. /\ Len(call'.data) <= call'.n
      /\ call'.data = SubSeq(Cs[h], Ps[h] + 1, Ps[h] + Len(call'.data))
      /\ Ps'[h] = Ps[h] + Len(call'.data)
      /\ Cs'[h] = Cs[h]
  BY <1>3 DEF Gets, Shown
<1>5. AFile!Concerns(h)
  BY <1>3 DEF Shown
<1>6. AFile!Gets(h)
  BY <1>4, <1>5 DEF AFile!Gets, Cs, Ps
<1>7. AtEnd(file[h], disk[h]) => Ps[h] >= Len(Cs[h])
  BY <1>3 DEF AtEnd, Shown
<1> QED
  BY <1>3, <1>6, <1>7

LEMMA ReadSteps ==
    ASSUME AreFiles, NEW h \in Names, Open(h), NEW n, NEW o,
           Reads(file[h], disk[h], n, o), Suits(o.f), Returns("read", h, n, o)
    PROVE  FileStep
<1>1. Gets(file[h], disk[h], n, o)
  BY DEF Reads
<1>2. /\ Shown("read", h, n, o) /\ AFile!Gets(h)
      /\ (AtEnd(file[h], disk[h]) => Ps[h] >= Len(Cs[h]))
  BY <1>1, GetSteps
<1>3. \/ call'.ret = Len(call'.data) /\ (call'.ret = 0 => call'.n = 0 \/ Ps[h] >= Len(Cs[h]))
      \/ call'.ret = -1 /\ call'.failed /\ call'.data = <<>>
  BY <1>2 DEF Reads, Shown
<1>4. AFile!Read(h)
  BY <1>2, <1>3 DEF AFile!Read, Shown, Cs, Ps
<1> QED
  BY <1>2, <1>4 DEF FileStep, AFile!Next, Shown

LEMMA ReadcSteps ==
    ASSUME AreFiles, NEW h \in Names, Open(h), NEW o,
           Readcs(file[h], disk[h], o), Suits(o.f), Returns("readc", h, 1, o)
    PROVE  FileStep
<1>1. Gets(file[h], disk[h], 1, o)
  BY DEF Readcs
<1>2. /\ Shown("readc", h, 1, o) /\ AFile!Gets(h)
      /\ (AtEnd(file[h], disk[h]) => Ps[h] >= Len(Cs[h]))
  BY <1>1, GetSteps
<1>3. Len(o.data) = 1 => o.data # <<>>
  BY EmptySeq
<1>4. \/ call'.data # <<>> /\ call'.ret = call'.data[1]
      \/ call'.data = <<>> /\ call'.ret = -1 /\ (call'.failed \/ Ps[h] >= Len(Cs[h]))
  BY <1>2, <1>3 DEF Readcs, Shown
<1>5. AFile!Readc(h)
  BY <1>2, <1>4 DEF AFile!Readc, Shown, Cs, Ps
<1> QED
  BY <1>2, <1>5 DEF FileStep, AFile!Next, Shown

\* What the abstract file says a write leaves is what one leaves on disk.
LEMMA WrittenOverlaid ==
    ASSUME NEW d \in Seq(Bytes), NEW off \in Nat, NEW s \in Seq(Bytes)
    PROVE  AFile!Written(d, off, s) = Overlaid(d, off, s)
<1>0. Len(d) \in Nat /\ Len(s) \in Nat
  BY LenProperties
<1>1. DOMAIN d = 1 .. Len(d)
  BY LenProperties
<1>2. (IF s = <<>> \/ off + Len(s) <= Len(d) THEN Len(d) ELSE off + Len(s))
        = (IF Len(d) >= off + Len(s) \/ s = <<>> THEN Len(d) ELSE off + Len(s))
  <2>1. off + Len(s) <= Len(d) <=> Len(d) >= off + Len(s)
    BY <1>0
  <2> QED
    BY ONLY <2>1
<1>3. PICK n \in Nat : n = IF Len(d) >= off + Len(s) \/ s = <<>> THEN Len(d) ELSE off + Len(s)
  BY <1>0
<1>4. \A k \in 1 .. n : k \in DOMAIN d <=> k <= Len(d)
  <2>1. PICK l \in Nat : l = Len(d)
    BY <1>0
  <2>2. \A k \in 1 .. n : k \in 1 .. l <=> k <= l
    OBVIOUS
  <2>3. DOMAIN d = 1 .. l
    BY ONLY <1>1, <2>1
  <2> QED
    BY ONLY <2>1, <2>2, <2>3, Zenon
<1>5. AFile!Written(d, off, s) =
        [k \in 1 .. n |-> IF k \in (off + 1)..(off + Len(s)) THEN s[k - off]
                          ELSE IF k \in DOMAIN d THEN d[k] ELSE 0]
  BY <1>2, <1>3 DEF AFile!Written
<1>6. Overlaid(d, off, s) =
        [k \in 1 .. n |-> IF k \in (off + 1)..(off + Len(s)) THEN s[k - off]
                          ELSE IF k <= Len(d) THEN d[k] ELSE 0]
  BY <1>3 DEF Overlaid
<1> QED
  BY <1>4, <1>5, <1>6

\* A write is one of the abstract file.
LEMMA PutSteps ==
    ASSUME AreFiles, NEW h \in Names, Open(h), NEW op, NEW n, NEW s \in Seq(Bytes), NEW o,
           Written(file[h], disk[h], s, o), Suits(o.f), Returns(op, h, n, o)
    PROVE  /\ Shown(op, h, n, o) /\ o.data = s
           /\ Puts(file[h], disk[h], s, o) => AFile!Puts(h)
           /\ PutsPart(file[h], disk[h], s, o) => AFile!PutsPart(h)
<1>1. Handle(o.f, o.d) /\ Torn(disk[h], View(o.f, o.d), o.d) /\ o.data = s
  BY DEF Written
<1>2. Shown(op, h, n, o)
  BY <1>1, Mapped
<1>3. Cs[h] \in Seq(Bytes) /\ Ps[h] \in Nat
  BY Sees DEF Open, Cs, Ps
<1>4. AFile!Written(Cs[h], Ps[h], s) = Overlaid(Cs[h], Ps[h], s)
  BY <1>3, WrittenOverlaid
<1>5. ASSUME Puts(file[h], disk[h], s, o) PROVE AFile!Puts(h)
  <2>1. Cs'[h] = AFile!Written(Cs[h], Ps[h], call'.data) /\ Ps'[h] = Ps[h] + Len(call'.data)
    BY <1>1, <1>2, <1>4, <1>5 DEF Puts, Shown
  <2> QED
    BY <2>1 DEF AFile!Puts, Cs, Ps
<1>6. ASSUME PutsPart(file[h], disk[h], s, o) PROVE AFile!PutsPart(h)
  <2>3. Torn(disk[h], Overlaid(View(file[h], disk[h]), At(file[h]), s), View(o.f, o.d))
    BY <1>6 DEF PutsPart
  <2>4. /\ Ss[h] = disk[h] /\ Cs'[h] = View(o.f, o.d) /\ call'.data = s
        /\ AFile!Written(Cs[h], Ps[h], s) = Overlaid(View(file[h], disk[h]), At(file[h]), s)
    BY <1>1, <1>2, <1>4 DEF Shown
  <2>5. Torn(Ss[h], AFile!Written(Cs[h], Ps[h], call'.data), Cs'[h])
    BY ONLY <2>3, <2>4
  <2>1. AFile!Torn(Ss[h], AFile!Written(Cs[h], Ps[h], call'.data), Cs'[h])
    BY ONLY <2>5 DEF Torn, AFile!Torn
  <2>2. call'.failed /\ Ps'[h] \in 0 .. Ps[h] + Len(call'.data)
    BY <1>1, <1>2, <1>6 DEF PutsPart, Shown
  <2> QED
    BY <2>1, <2>2 DEF AFile!PutsPart, Cs, Ps, Ss
<1> QED
  BY <1>1, <1>2, <1>5, <1>6

LEMMA WriteSteps ==
    ASSUME AreFiles, NEW h \in Names, Open(h), NEW s \in Seq(Bytes), NEW n, NEW o,
           Writes(file[h], disk[h], s, o), Suits(o.f), Returns("write", h, n, o)
    PROVE  FileStep
<1>1. Written(file[h], disk[h], s, o)
  BY DEF Writes
<1>2. /\ Shown("write", h, n, o) /\ o.data = s
      /\ Puts(file[h], disk[h], s, o) => AFile!Puts(h)
      /\ PutsPart(file[h], disk[h], s, o) => AFile!PutsPart(h)
  BY <1>1, PutSteps
<1>3. \/ call'.ret = Len(call'.data) /\ AFile!Puts(h)
      \/ call'.ret < Len(call'.data) /\ AFile!PutsPart(h)
  BY <1>2 DEF Writes, Shown
<1>4. AFile!Write(h)
  BY <1>2, <1>3 DEF AFile!Write, Shown
<1> QED
  BY <1>2, <1>4 DEF FileStep, AFile!Next, Shown

LEMMA WritecSteps ==
    ASSUME AreFiles, NEW h \in Names, Open(h), NEW ch \in Bytes, NEW o,
           Writecs(file[h], disk[h], ch, o), Suits(o.f), Returns("writec", h, 1, o)
    PROVE  FileStep
<1>1. PICK s \in Seq(Bytes) : s = <<ch>> /\ s[1] = ch
  BY OneByte
<1>2. Written(file[h], disk[h], s, o)
  BY <1>1 DEF Writecs
<1>3. /\ Shown("writec", h, 1, o) /\ o.data = s
      /\ Puts(file[h], disk[h], s, o) => AFile!Puts(h)
      /\ PutsPart(file[h], disk[h], s, o) => AFile!PutsPart(h)
  BY <1>2, PutSteps
<1>4. \/ call'.ret = call'.data[1] /\ AFile!Puts(h)
      \/ call'.ret = -1 /\ AFile!PutsPart(h)
  BY <1>1, <1>3 DEF Writecs, Shown
<1>5. AFile!Writec(h)
  BY <1>3, <1>4 DEF AFile!Writec, Shown
<1> QED
  BY <1>3, <1>5 DEF FileStep, AFile!Next, Shown

-----------------------------------------------------------------------------
(* The programs.                                                           *)

Setting ==
    /\ run.impl \in Implementations /\ run.prog \in Programs /\ run.input \in Seq(Bytes)
    /\ run.limit \in Nat /\ run.block \in Nat /\ run.stride \in Nat \ {0}

\* Between the opens and the closes of main.
Busy == pc \notin {"start", "done"}
NotOpen(h) == file[h] = NoFile /\ disk[h] \in Seq(Bytes) \cup {Missing}
Files ==
    /\ AreFiles
    /\ \A h \in Names : NotOpen(h) \/ Open(h)
    /\ pc = "start" => \A h \in Names : NotOpen(h)
    /\ Busy => Open("in")
    /\ Busy => IF run.prog = "rot13" THEN NotOpen("out") ELSE Open("out")

\* A program that copies reads one file and writes the other.  rot13 does both with one, and
\* has a seek behind it before either.
Directions ==
    /\ run.prog # "rot13" /\ file["in"] # NoFile => file["in"].dir # "write"
    /\ Busy => /\ run.prog # "rot13" => file["in"].dir # "write" /\ file["out"].dir # "read"
               /\ run.prog = "rot13" /\ pc \in {"read", "write"} => file["in"].dir = "none"

\* What the programs pass to their calls.
Locals ==
    /\ buf \in Seq(Bytes) /\ i \in Int
    /\ pc \in {"back", "write"} /\ run.prog \in ByteWise => Len(buf) = 1
    /\ run.prog \in {"rot13", "stride_cat"} => i \in Nat
    /\ run.prog = "stride_cat" => block \in Nat

Inv == Setting /\ Files /\ Directions /\ Locals

\* A seek of a program.
LEMMA SeekCall ==
    ASSUME Setting, AreFiles, NEW h \in Names, Open(h), NEW to \in Int, NEW next, Seek(h, to, next)
    PROVE  /\ FileStep /\ Only(h) /\ Open(h)' /\ file'[h].dir \in {"none", file[h].dir}
           /\ pc' = "close" \/ (pc' = next /\ file'[h].dir = "none")
<1>1. PICK o \in io300_seek(file[h], disk[h], to) :
        /\ Returns("seek", h, to, o)
        /\ IF o.ret = -1 THEN Exit(1) ELSE pc' = next /\ UNCHANGED status
  BY DEF Seek
<1>2. /\ Seeks(file[h], disk[h], to, o) /\ Suits(o.f)
      /\ o.f.dir = "none" \/ (o.ret = -1 /\ o.f.dir = file[h].dir)
  BY <1>1, CallSeeks DEF Setting, Open
<1>3. FileStep
  BY <1>1, <1>2, SeekSteps
<1>4. Only(h) /\ Open(h)' /\ file'[h] = o.f
  BY <1>1, <1>2, Returned DEF Seeks
<1> QED
  BY <1>1, <1>2, <1>3, <1>4 DEF Exit

\* A read of n bytes.
LEMMA ReadCall ==
    ASSUME Setting, AreFiles, NEW h \in Names, Open(h), file[h].dir # "write", NEW n \in Nat,
           NEW o \in io300_read(file[h], disk[h], n), Returns("read", h, n, o)
    PROVE  FileStep /\ Only(h) /\ Open(h)' /\ file'[h].dir # "write" /\ o.data \in Seq(Bytes)
<1>1. Reads(file[h], disk[h], n, o) /\ Suits(o.f) /\ o.f.dir # "write"
  BY CallReads DEF Setting, Open
<1>2. FileStep
  BY <1>1, ReadSteps
<1>3. Only(h) /\ Open(h)' /\ file'[h] = o.f
  BY <1>1, Returned DEF Reads, Gets
<1> QED
  BY <1>1, <1>2, <1>3 DEF Reads, Gets

\* A read of one byte.
LEMMA ReadcCall ==
    ASSUME Setting, AreFiles, NEW h \in Names, Open(h), file[h].dir # "write", buf \in Seq(Bytes),
           NEW next, Readc(h, next)
    PROVE  /\ FileStep /\ Only(h) /\ Open(h)' /\ file'[h].dir # "write" /\ buf' \in Seq(Bytes)
           /\ pc' = "close" \/ (pc' = next /\ Len(buf') = 1)
<1>1. PICK o \in io300_readc(file[h], disk[h]) :
        /\ Returns("readc", h, 1, o)
        /\ IF o.ret = -1 THEN Exit(1) /\ UNCHANGED buf
                         ELSE pc' = next /\ buf' = <<o.ret>> /\ UNCHANGED status
  BY DEF Readc
<1>2. /\ Readcs(file[h], disk[h], o) /\ Suits(o.f) /\ o.f.dir # "write"
      /\ o.ret = -1 \/ o.ret \in Bytes
  BY <1>1, CallReadcs DEF Setting, Open
<1>3. FileStep
  BY <1>1, <1>2, ReadcSteps
<1>4. Only(h) /\ Open(h)' /\ file'[h] = o.f
  BY <1>1, <1>2, Returned DEF Readcs, Gets
<1>5. CASE o.ret = -1
  BY <1>1, <1>2, <1>3, <1>4, <1>5 DEF Exit
<1>6. CASE o.ret # -1
  <2>1. <<o.ret>> \in [1 .. 1 -> Bytes]
    BY <1>2, <1>6
  <2>2. <<o.ret>> \in Seq(Bytes) /\ Len(<<o.ret>>) = 1
    BY <2>1, FunctionIsSeq
  <2> QED
    BY <1>1, <1>2, <1>3, <1>4, <1>6, <2>2
<1> QED
  BY <1>5, <1>6

\* A write.
LEMMA WriteCall ==
    ASSUME Setting, AreFiles, NEW h \in Names, Open(h), file[h].dir # "read", NEW s \in Seq(Bytes), NEW n,
           NEW o \in io300_write(file[h], disk[h], s), Returns("write", h, n, o)
    PROVE  FileStep /\ Only(h) /\ Open(h)' /\ file'[h].dir # "read"
<1>1. Writes(file[h], disk[h], s, o) /\ Suits(o.f) /\ o.f.dir # "read"
  BY CallWrites DEF Setting, Open
<1>2. FileStep
  BY <1>1, WriteSteps
<1>3. Only(h) /\ Open(h)' /\ file'[h] = o.f
  BY <1>1, Returned DEF Writes, Written
<1> QED
  BY <1>1, <1>2, <1>3

\* A write of one byte.
LEMMA WritecCall ==
    ASSUME Setting, AreFiles, NEW h \in Names, Open(h), file[h].dir # "read", NEW ch \in Bytes,
           NEW next, Writec(h, ch, next)
    PROVE  /\ FileStep /\ Only(h) /\ Open(h)' /\ file'[h].dir # "read"
           /\ pc' \in {"close", next}
<1>1. PICK o \in io300_writec(file[h], disk[h], ch) :
        /\ Returns("writec", h, 1, o)
        /\ IF o.ret = -1 THEN Exit(1) ELSE pc' = next /\ UNCHANGED status
  BY DEF Writec
<1>2. Writecs(file[h], disk[h], ch, o) /\ Suits(o.f) /\ o.f.dir # "read"
  BY <1>1, CallWritecs DEF Setting, Open
<1>5. FileStep
  BY <1>1, <1>2, WritecSteps
<1>6. Only(h) /\ Open(h)' /\ file'[h] = o.f
  BY <1>1, <1>2, Returned DEF Writecs, Written
<1> QED
  BY <1>1, <1>2, <1>5, <1>6 DEF Exit

\* The files after a call.
LEMMA FilesAfter ==
    ASSUME Inv, Busy, NEW h \in Names, Open(h), Only(h), Open(h)', pc' # "start"
    PROVE  Setting' /\ Files'
<1>1. Setting'
  BY DEF Inv, Setting, Only
<1>2. \A g \in Names \ {h} : (Open(g) => Open(g)') /\ (NotOpen(g) => NotOpen(g)')
  BY DEF Only, Open, NotOpen, Suits
<1>3. ~NotOpen(h)
  BY OpenIs DEF Open, NotOpen
<1>4. Open("in") /\ IF run.prog = "rot13" THEN NotOpen("out") ELSE Open("out")
  BY DEF Inv, Files
<1>5. "in" \in Names /\ "out" \in Names /\ run' = run /\ AreFiles'
  BY DEF Names, Only
<1>6. Open("in")' /\ IF run'.prog = "rot13" THEN NotOpen("out")' ELSE Open("out")'
  BY <1>2, <1>3, <1>4, <1>5
<1>7. \A g \in Names : NotOpen(g)' \/ Open(g)'
  BY <1>2 DEF Inv, Files
<1> QED
  BY <1>1, <1>5, <1>6, <1>7 DEF Files

\* A program starts with its files as they are on disk.
LEMMA InitInv ==
    ASSUME Init
    PROVE  Inv /\ AFile!Init
<1>1. /\ run.impl \in Impls /\ run.prog \in Programs
      /\ run.input \in {SubSeq(Sample, 1, n) : n \in 0..Len(Sample)}
      /\ run.block \in 0..MAX_BLOCK_SIZE /\ run.stride \in 1..MaxStride
      /\ run.limit \in 0..(Len(Sample) + 1)
  BY DEF Init
<1>2. /\ file = [h \in Names |-> NoFile] /\ pc = "start" /\ i = 0 /\ block = run.block
      /\ buf = <<>> /\ call = [op |-> "none"] /\ turn = 0
  BY DEF Init
<1>3. PICK o \in {Missing, <<>>} : disk = [in |-> run.input, out |-> o]
  BY DEF Init
<1>4. Sample \in Seq(Bytes) /\ Impls \subseteq Implementations /\ MAX_BLOCK_SIZE \in Nat /\ MaxStride \in Nat
  BY ProgramsAssumption DEF Bytes, Implementations
<1>5. run.input \in Seq(Bytes)
  <2>1. PICK n \in 0..Len(Sample) : run.input = SubSeq(Sample, 1, n)
    BY <1>1
  <2>2. Len(Sample) \in Nat /\ \A j \in 1 .. n : Sample[j] \in Bytes
    BY <1>4
  <2>3. n \in Int /\ 1 \in Int
    BY <2>2
  <2> QED
    BY <2>1, <2>2, <2>3, SubSeqProperties
<1>6. Setting
  <2>1. Len(Sample) \in Nat
    BY <1>4
  <2> QED
    BY <1>1, <1>4, <1>5, <2>1 DEF Setting
<1>7. /\ disk["in"] = run.input /\ disk["out"] = o /\ o \in Seq(Bytes) \cup {Missing}
      /\ AreFiles
  <2>1. o \in Seq(Bytes) \cup {Missing}
    BY <1>3, EmptySeq
  <2>2. disk["in"] = run.input /\ disk["out"] = o
    BY <1>3
  <2>3. disk = [h \in Names |-> disk[h]]
    BY <1>3 DEF Names
  <2>4. file = [h \in Names |-> file[h]]
    BY <1>2
  <2> QED
    BY <2>1, <2>2, <2>3, <2>4 DEF AreFiles
<1>8. \A h \in Names : NotOpen(h)
  BY <1>2, <1>5, <1>7 DEF NotOpen, Names
<1>9. Files /\ Directions
  <2>1. file["in"] = NoFile
    BY <1>2 DEF Names
  <2> QED
    BY <1>2, <1>7, <1>8, <2>1 DEF Files, Directions, Busy
<1>10. Locals
  <2>1. buf \in Seq(Bytes)
    BY <1>2, EmptySeq
  <2>2. block \in Nat
    BY <1>2, <1>6 DEF Setting
  <2> QED
    BY <1>2, <2>1, <2>2 DEF Locals
<1>11. AFile!Init
  <2>1. \A h \in Names : /\ Contents(h) \in Seq(0 .. 255) /\ Tell(h) = 0
                         /\ OnDisk(h) = Contents(h)
    <3>1. <<>> \in Seq(0 .. 255)
      BY EmptySeq
    <3> QED
      BY <1>2, <1>8, <3>1 DEF Contents, Tell, OnDisk, NotOpen, Bytes
  <2> QED
    BY <1>2, <2>1 DEF AFile!Init
<1> QED
  BY <1>6, <1>9, <1>10, <1>11 DEF Inv

\* A file just opened.
LEMMA JustOpened ==
    ASSUME NEW d \in Seq(Bytes)
    PROVE  Handle(Opened, d) /\ View(Opened, d) = d /\ At(Opened) = 0 /\ Opened.dir = "none"
<1>1. PICK z \in Seq(Bytes) : z = <<>>
  BY EmptySeq
<1>2. Opened = [off |-> 0, ahead |-> z, pending |-> z, dir |-> "none",
                 err |-> FALSE, misused |-> FALSE]
  BY <1>1 DEF Opened
<1>3. /\ Opened \in OpenFiles /\ Opened.off = 0 /\ Opened.ahead = <<>> /\ Opened.pending = <<>>
      /\ Opened.dir = "none" /\ Opened.misused = FALSE
  BY <1>1, <1>2 DEF OpenFiles
<1>4. Handle(Opened, d)
  BY <1>3 DEF Handle
<1> QED
  BY <1>3, <1>4, Unbuffered

\* Nobody can tell the files from what they were.
Unseen ==
    /\ \A h \in Names : /\ Contents(h)' = Contents(h) /\ Tell(h)' = Tell(h)
                        /\ OnDisk(h)' = OnDisk(h)
    /\ call' = call /\ turn' = turn
LEMMA SameView ==
    ASSUME Unseen
    PROVE  FileStep
BY DEF FileStep, Unseen, Cs, Ss, Ps

\* An open that failed leaves the file alone, one that did not may have made it.
LEMMA AfterOpen ==
    ASSUME NEW h \in Names, NotOpen(h), NEW d, disk'[h] = d,
           \/ d = disk[h] /\ file'[h] = NoFile
           \/ /\ d \in Seq(Bytes) /\ d = IF disk[h] = Missing THEN <<>> ELSE disk[h]
              /\ file'[h] = NoFile \/ file'[h] = Opened
    PROVE  /\ Contents(h)' = Contents(h) /\ Tell(h)' = Tell(h) /\ OnDisk(h)' = OnDisk(h)
           /\ file'[h] = NoFile => NotOpen(h)'
           /\ file'[h] = Opened => Open(h)'
<1>1. file[h] = NoFile /\ disk[h] \in Seq(Bytes) \cup {Missing}
  BY DEF NotOpen
<1>2. Contents(h) = (IF disk[h] = Missing THEN <<>> ELSE disk[h]) /\ Tell(h) = 0
  BY <1>1 DEF Contents, Tell
<1>5. OnDisk(h)' = OnDisk(h)
  BY <1>1 DEF OnDisk
<1>3. CASE file'[h] = NoFile
  <2>1. Opened # NoFile
    <3>1. \E d0 : d0 \in Seq(Bytes)
      BY EmptySeq
    <3> QED
      BY <3>1, JustOpened, OpenIs
  <2>2. Tell(h)' = 0 /\ Contents(h)' = (IF d = Missing THEN <<>> ELSE d)
    BY <1>3 DEF Contents, Tell
  <2>3. NotOpen(h)'
    BY <1>1, <1>3 DEF NotOpen
  <2>4. (IF d = Missing THEN <<>> ELSE d) = (IF disk[h] = Missing THEN <<>> ELSE disk[h])
    BY <1>1
  <2> QED
    BY <1>2, <1>3, <1>5, <2>1, <2>2, <2>3, <2>4
<1>4. CASE file'[h] # NoFile
  <2>1. file'[h] = Opened /\ d \in Seq(Bytes) /\ d = IF disk[h] = Missing THEN <<>> ELSE disk[h]
    BY <1>4
  <2>2. Handle(Opened, d) /\ View(Opened, d) = d /\ At(Opened) = 0 /\ Opened.dir = "none"
    BY <2>1, JustOpened
  <2>3. Opened # NoFile /\ d # Missing
    BY <2>2, OpenIs
  <2>4. Contents(h)' = View(Opened, d) /\ Tell(h)' = At(Opened)
    BY <2>1, <2>3 DEF Contents, Tell, View, At
  <2>5. Open(h)'
    BY <2>1, <2>2 DEF Open, Suits
  <2> QED
    BY <1>2, <1>4, <1>5, <2>1, <2>2, <2>4, <2>5
<1> QED
  BY <1>3, <1>4

\* main up to its loop: nothing that a reader of the files could see.
LEMMA SetupStep ==
    ASSUME Inv, NEW early, NEW opensOut, NEW refused, NEW allocates, NEW first \in Int, NEW onNull,
           Setup(early, opensOut, refused, allocates, first, onNull),
           opensOut = (run.prog # "rot13"), run.prog \in {"rot13", "stride_cat"} => first = 0
    PROVE  Inv' /\ FileStep /\ Unseen
<1>1. /\ Setting /\ AreFiles /\ pc = "start" /\ \A h \in Names : NotOpen(h)
      /\ run' = run /\ i' = first /\ block' = block /\ buf' = buf
      /\ call' = call /\ turn' = turn
  BY DEF Inv, Files, Setup
<1>2. Setting'
  BY <1>1 DEF Setting
<1>3. pc' \in {"done", "top"} => Locals'
  BY <1>1 DEF Inv, Locals
<1>4. CASE pc' = "done" /\ disk' = disk /\ file' = file
  <2>1. Files' /\ Directions'
    BY <1>1, <1>4 DEF Inv, Files, Directions, Busy, AreFiles, NotOpen
  <2>2. FileStep /\ Unseen
    BY <1>1, <1>4, SameView DEF Contents, Tell, OnDisk, Unseen
  <2> QED
    BY <1>2, <1>3, <1>4, <2>1, <2>2 DEF Inv
<1>5. ASSUME NEW oi \in io300_open(disk["in"]),
             NEW oo \in IF opensOut /\ ~oi.failed THEN io300_open(disk["out"])
                        ELSE {Done(NoFile, disk["out"], 0, <<>>)},
             disk' = [in |-> oi.d, out |-> oo.d],
             \/ file' = file /\ pc' = "done"
             \/ /\ ~oi.failed /\ ~oo.failed
                /\ file' = [in |-> oi.f, out |-> oo.f] /\ pc' = "top"
      PROVE  Inv' /\ FileStep /\ Unseen
  <2>1. "in" \in Names /\ "out" \in Names /\ run.impl \in Implementations
    BY <1>1 DEF Names, Setting
  <2>2. /\ disk["in"] \in Seq(Bytes) \cup {Missing} /\ disk["out"] \in Seq(Bytes) \cup {Missing}
        /\ file["in"] = NoFile /\ file["out"] = NoFile
    BY <1>1, <2>1 DEF NotOpen
  <2>3. /\ oi.failed \in BOOLEAN
        /\ oi.failed = FALSE => /\ oi.f = Opened /\ oi.d \in Seq(Bytes)
                                /\ oi.d = IF disk["in"] = Missing THEN <<>> ELSE disk["in"]
        /\ oi.failed = TRUE => oi.d = disk["in"]
    BY <1>5, <2>1, <2>2, CallOpens
  <2>4. disk'["in"] = oi.d /\ disk'["out"] = oo.d
    BY <1>5
  <2>5. CASE oo \in io300_open(disk["out"]) /\ opensOut
    <3>1. /\ oo.failed \in BOOLEAN
          /\ oo.failed = FALSE => /\ oo.f = Opened /\ oo.d \in Seq(Bytes)
                                  /\ oo.d = IF disk["out"] = Missing THEN <<>> ELSE disk["out"]
          /\ oo.failed = TRUE => oo.d = disk["out"]
      BY <2>1, <2>2, <2>5, CallOpens
    <3>2. \/ file'["in"] = NoFile /\ file'["out"] = NoFile /\ pc' = "done"
          \/ /\ oi.failed = FALSE /\ oo.failed = FALSE /\ pc' = "top"
             /\ file'["in"] = Opened /\ file'["out"] = Opened
      BY <1>5, <2>2, <2>3, <3>1
    <3>3. \/ oi.d = disk["in"] /\ file'["in"] = NoFile
          \/ /\ oi.d \in Seq(Bytes) /\ oi.d = IF disk["in"] = Missing THEN <<>> ELSE disk["in"]
             /\ file'["in"] = NoFile \/ file'["in"] = Opened
      BY <2>3, <3>2
    <3>4. \/ oo.d = disk["out"] /\ file'["out"] = NoFile
          \/ /\ oo.d \in Seq(Bytes) /\ oo.d = IF disk["out"] = Missing THEN <<>> ELSE disk["out"]
             /\ file'["out"] = NoFile \/ file'["out"] = Opened
      BY <3>1, <3>2
    <3>5. /\ Contents("in")' = Contents("in") /\ Tell("in")' = Tell("in")
          /\ OnDisk("in")' = OnDisk("in")
          /\ file'["in"] = NoFile => NotOpen("in")'
          /\ file'["in"] = Opened => Open("in")'
      BY <1>1, <2>1, <2>4, <3>3, AfterOpen
    <3>6. /\ Contents("out")' = Contents("out") /\ Tell("out")' = Tell("out")
          /\ OnDisk("out")' = OnDisk("out")
          /\ file'["out"] = NoFile => NotOpen("out")'
          /\ file'["out"] = Opened => Open("out")'
      BY <1>1, <2>1, <2>4, <3>4, AfterOpen
    <3>7. FileStep /\ Unseen
      BY <1>1, <3>5, <3>6, SameView DEF Names, Unseen
    <3>8. AreFiles'
      <4>1. disk' = [h \in Names |-> disk'[h]]
        BY <1>5 DEF Names
      <4>2. file' = [h \in Names |-> file'[h]]
        BY <1>1, <1>5 DEF Names, AreFiles
      <4> QED
        BY <4>1, <4>2 DEF AreFiles
    <3>9. run'.prog # "rot13"
      BY <1>1, <2>5
    <3>10. Files'
      BY <3>2, <3>5, <3>6, <3>8, <3>9 DEF Files, Busy, Names
    <3>11. Directions'
      <4>1. Opened.dir = "none"
        BY DEF Opened
      <4> QED
        BY <3>2, <3>9, <4>1 DEF Directions, Busy
    <3> QED
      BY <1>2, <1>3, <3>2, <3>7, <3>10, <3>11 DEF Inv
  <2>6. CASE oo = Done(NoFile, disk["out"], 0, <<>>) /\ (~opensOut \/ oi.failed)
    <3>1. oo.f = NoFile /\ oo.d = disk["out"]
      BY <2>6 DEF Done
    <3>2. \/ file'["in"] = NoFile /\ file'["out"] = NoFile /\ pc' = "done"
          \/ /\ oi.failed = FALSE /\ pc' = "top" /\ run.prog = "rot13"
             /\ file'["in"] = Opened /\ file'["out"] = NoFile
      <4>1. ~opensOut => run.prog = "rot13"
        OBVIOUS
      <4>2. CASE file' = file /\ pc' = "done"
        BY <2>2, <4>2
      <4>3. CASE ~oi.failed /\ file' = [in |-> oi.f, out |-> oo.f] /\ pc' = "top"
        <5>1. oi.failed = FALSE
          BY <2>3, <4>3
        <5>2. run.prog = "rot13"
          BY <2>6, <4>1, <4>3
        <5>3. file'["in"] = oi.f /\ file'["out"] = oo.f
          BY <4>3
        <5> QED
          BY <2>3, <3>1, <4>3, <5>1, <5>2, <5>3
      <4> QED
        BY <1>5, <4>2, <4>3
    <3>3. \/ oi.d = disk["in"] /\ file'["in"] = NoFile
          \/ /\ oi.d \in Seq(Bytes) /\ oi.d = IF disk["in"] = Missing THEN <<>> ELSE disk["in"]
             /\ file'["in"] = NoFile \/ file'["in"] = Opened
      BY <2>3, <3>2
    <3>5. /\ Contents("in")' = Contents("in") /\ Tell("in")' = Tell("in")
          /\ OnDisk("in")' = OnDisk("in")
          /\ file'["in"] = NoFile => NotOpen("in")'
          /\ file'["in"] = Opened => Open("in")'
      BY <1>1, <2>1, <2>4, <3>3, AfterOpen
    <3>6. /\ Contents("out")' = Contents("out") /\ Tell("out")' = Tell("out") /\ NotOpen("out")'
          /\ OnDisk("out")' = OnDisk("out")
      BY <1>1, <2>1, <2>4, <3>1, <3>2, AfterOpen
    <3>7. FileStep /\ Unseen
      BY <1>1, <3>5, <3>6, SameView DEF Names, Unseen
    <3>8. AreFiles'
      <4>1. disk' = [h \in Names |-> disk'[h]]
        BY <1>5 DEF Names
      <4>2. file' = [h \in Names |-> file'[h]]
        BY <1>1, <1>5 DEF Names, AreFiles
      <4> QED
        BY <4>1, <4>2 DEF AreFiles
    <3>9. pc' = "top" => run'.prog = "rot13"
      BY <1>1, <3>2
    <3>10. Files'
      BY <3>2, <3>5, <3>6, <3>8, <3>9 DEF Files, Busy, Names
    <3>11. Directions'
      BY <3>2, <3>9 DEF Directions, Busy
    <3> QED
      BY <1>2, <1>3, <3>2, <3>7, <3>10, <3>11 DEF Inv
  <2> QED
    BY <1>5, <2>5, <2>6
<1> QED
  <2>1. CASE early /\ status' = 1 /\ pc' = "done" /\ UNCHANGED <<disk, file, hurt>>
    BY <1>4, <2>1
  <2>2. ASSUME NEW oi \in io300_open(disk["in"]),
               NEW oo \in IF opensOut /\ ~oi.failed THEN io300_open(disk["out"])
                          ELSE {Done(NoFile, disk["out"], 0, <<>>)},
               NEW nomem \in {FALSE, MayFail /\ allocates},
               LET null == oi.failed \/ oo.failed
                   stop == null \/ refused \/ nomem
               IN  /\ disk' = [in |-> oi.d, out |-> oo.d]
                   /\ file' = IF stop THEN file ELSE [in |-> oi.f, out |-> oo.f]
                   /\ pc' = IF stop THEN "done" ELSE "top"
        PROVE  Inv' /\ FileStep /\ Unseen
    <3>1. CASE oi.failed \/ oo.failed \/ refused \/ nomem
      <4>1. disk' = [in |-> oi.d, out |-> oo.d] /\ file' = file /\ pc' = "done"
        BY <2>2, <3>1
      <4> QED
        BY <1>5, <2>2, <4>1
    <3>2. CASE ~(oi.failed \/ oo.failed \/ refused \/ nomem)
      <4>1. disk' = [in |-> oi.d, out |-> oo.d] /\ file' = [in |-> oi.f, out |-> oo.f] /\ pc' = "top"
        BY <2>2, <3>2
      <4> QED
        BY <1>5, <2>2, <3>2, <4>1
    <3> QED
      BY <3>1, <3>2
  <2> QED
    BY <2>1, <2>2 DEF Setup

\* The closes at the end of main lose nothing, or fail.
LEMMA CloseStep ==
    ASSUME Inv, Close
    PROVE  Inv' /\ FileStep
<1>1. /\ Setting /\ AreFiles /\ pc = "close" /\ Open("in")
      /\ IF run.prog = "rot13" THEN NotOpen("out") ELSE Open("out")
      /\ run' = run /\ i' = i /\ block' = block /\ buf' = buf /\ pc' = "done" /\ turn' = 1 - turn
  BY DEF Inv, Files, Busy, Close
<1>2. PICK oi \in io300_close(file["in"], disk["in"]),
           oo \in IF file["out"] = NoFile THEN {Done(NoFile, disk["out"], 0, <<>>)}
                  ELSE io300_close(file["out"], disk["out"]) :
        /\ file' = [in |-> oi.f, out |-> oo.f] /\ disk' = [in |-> oi.d, out |-> oo.d]
        /\ call' = [op |-> "close", ret |-> [in |-> oi.ret, out |-> oo.ret],
                    failed |-> oi.failed \/ oo.failed]
  BY DEF Close
<1>3. "in" \in Names /\ "out" \in Names /\ run.impl \in Implementations
  BY <1>1 DEF Names, Setting
<1>4. Closes(file["in"], disk["in"], oi)
  BY <1>1, <1>2, <1>3, CallCloses DEF Open
<1>5. /\ oi.f = NoFile /\ oi.d \in Seq(Bytes) /\ oi.d # Missing /\ oi.failed \in BOOLEAN
      /\ oi.failed = FALSE => oi.d = Contents("in")
      /\ Torn(OnDisk("in"), Contents("in"), oi.d)
  <2>1. Contents("in") = View(file["in"], disk["in"]) /\ OnDisk("in") = disk["in"]
    BY <1>1, <1>3, Sees DEF Open
  <2>2. oi.d \in Seq(Bytes)
    BY <1>4 DEF Closes
  <2>3. oi.d # Missing
    BY <2>2, JustOpened, OpenIs
  <2> QED
    BY <1>4, <2>1, <2>3 DEF Closes
<1>6. /\ oo.f = NoFile /\ oo.d \in Seq(Bytes) \cup {Missing} /\ oo.failed \in BOOLEAN
      /\ oo.failed = FALSE => (IF oo.d = Missing THEN <<>> ELSE oo.d) = Contents("out")
      /\ Torn(OnDisk("out"), Contents("out"), IF oo.d = Missing THEN <<>> ELSE oo.d)
  <2>1. CASE NotOpen("out")
    <3>1. oo.f = NoFile /\ oo.d = disk["out"] /\ oo.failed = FALSE
      BY <1>2, <2>1 DEF NotOpen, Done
    <3>2. disk["out"] \in Seq(Bytes) \cup {Missing} /\ file["out"] = NoFile
      BY <2>1 DEF NotOpen
    <3>3. PICK c \in Seq(Bytes) : c = IF oo.d = Missing THEN <<>> ELSE oo.d
      BY <3>1, <3>2, EmptySeq
    <3>4. Contents("out") = c /\ OnDisk("out") = c
      BY <3>1, <3>2, <3>3 DEF Contents, OnDisk
    <3>5. Torn(c, c, c)
      BY TornNone
    <3> QED
      BY <3>1, <3>2, <3>3, <3>4, <3>5
  <2>2. CASE Open("out")
    <3>1. file["out"] # NoFile
      BY <2>2, OpenIs DEF Open
    <3>2. Closes(file["out"], disk["out"], oo)
      BY <1>2, <1>3, <2>2, <3>1, CallCloses DEF Open
    <3>3. Contents("out") = View(file["out"], disk["out"]) /\ OnDisk("out") = disk["out"]
      BY <1>3, <2>2, Sees DEF Open
    <3>4. oo.d \in Seq(Bytes)
      BY <3>2 DEF Closes
    <3>5. oo.d # Missing
      BY <3>4, JustOpened, OpenIs
    <3> QED
      BY <3>2, <3>3, <3>4, <3>5 DEF Closes
  <2> QED
    BY <1>1, <2>1, <2>2
<1>7. /\ file'["in"] = NoFile /\ file'["out"] = NoFile /\ disk'["in"] = oi.d /\ disk'["out"] = oo.d
      /\ AreFiles'
  <2>1. /\ file'["in"] = NoFile /\ file'["out"] = NoFile /\ disk'["in"] = oi.d /\ disk'["out"] = oo.d
    BY <1>2, <1>5, <1>6
  <2>2. disk' = [h \in Names |-> disk'[h]]
    BY <1>2 DEF Names
  <2>3. file' = [h \in Names |-> file'[h]]
    BY <1>2 DEF Names
  <2> QED
    BY <2>1, <2>2, <2>3 DEF AreFiles
<1>8. /\ Contents("in")' = oi.d /\ OnDisk("in")' = oi.d /\ Tell("in")' = 0
      /\ Contents("out")' = (IF oo.d = Missing THEN <<>> ELSE oo.d)
      /\ OnDisk("out")' = (IF oo.d = Missing THEN <<>> ELSE oo.d) /\ Tell("out")' = 0
  BY <1>5, <1>7 DEF Contents, OnDisk, Tell
<1>9. call'.op = "close" /\ call'.failed = (oi.failed \/ oo.failed)
  BY <1>2
<1>10. \A h \in Names : /\ Ps'[h] = 0 /\ Ss'[h] = Cs'[h] /\ AFile!Torn(Ss[h], Cs[h], Cs'[h])
                        /\ ~call'.failed => Cs'[h] = Cs[h]
  <2>1. /\ Ps'["in"] = 0 /\ Ss'["in"] = Cs'["in"] /\ AFile!Torn(Ss["in"], Cs["in"], Cs'["in"])
        /\ ~call'.failed => Cs'["in"] = Cs["in"]
    <3>1. ~call'.failed => oi.failed = FALSE
      BY <1>5, <1>6, <1>9
    <3>2. /\ Ps'["in"] = 0 /\ Ss'["in"] = oi.d /\ Cs'["in"] = oi.d
          /\ Ss["in"] = OnDisk("in") /\ Cs["in"] = Contents("in")
      BY <1>3, <1>8 DEF Ps, Ss, Cs
    <3>3. Torn(Ss["in"], Cs["in"], Cs'["in"])
      BY <1>5, <3>2
    <3> QED
      BY <1>5, <3>1, <3>2, <3>3 DEF Torn, AFile!Torn
  <2>2. /\ Ps'["out"] = 0 /\ Ss'["out"] = Cs'["out"] /\ AFile!Torn(Ss["out"], Cs["out"], Cs'["out"])
        /\ ~call'.failed => Cs'["out"] = Cs["out"]
    <3>1. ~call'.failed => oo.failed = FALSE
      BY <1>5, <1>6, <1>9
    <3>0. PICK c : c = IF oo.d = Missing THEN <<>> ELSE oo.d
      OBVIOUS
    <3>2. /\ Ps'["out"] = 0 /\ Ss'["out"] = c /\ Cs'["out"] = c
          /\ Ss["out"] = OnDisk("out") /\ Cs["out"] = Contents("out")
      BY <1>3, <1>8, <3>0 DEF Ps, Ss, Cs
    <3>3. Torn(Ss["out"], Cs["out"], Cs'["out"])
      BY <1>6, <3>0, <3>2
    <3> QED
      BY <1>6, <3>0, <3>1, <3>2, <3>3 DEF Torn, AFile!Torn
  <2> QED
    BY <2>1, <2>2 DEF Names
<1>11. AFile!Close
  <2>1. \A h \in Names : Tell(h)' = 0 /\ OnDisk(h)' = Contents(h)'
    BY <1>8 DEF Names
  <2>2. Ps' = [h \in Names |-> 0]
    BY <2>1 DEF Ps
  <2>3. Ss' = Cs'
    BY <2>1 DEF Ss, Cs
  <2>4. \A h \in Names : IF call'.failed THEN AFile!Torn(Ss[h], Cs[h], Cs'[h])
                         ELSE Cs'[h] = Cs[h]
    BY <1>10, Zenon
  <2> QED
    BY <1>9, <2>2, <2>3, <2>4 DEF AFile!Close, Cs, Ss, Ps
<1>12. Setting'
  BY <1>1 DEF Setting
<1>13. \A h \in Names : NotOpen(h)'
  BY <1>5, <1>6, <1>7 DEF NotOpen, Names
<1>14. Files' /\ Directions' /\ Locals'
  BY <1>1, <1>7, <1>13 DEF Inv, Files, Directions, Locals, Busy
<1> QED
  BY <1>1, <1>11, <1>12, <1>14 DEF Inv, FileStep, AFile!Next

\* The size the programs ask for.
LEMMA Size ==
    ASSUME Setting
    PROVE  filesize = Len(run.input) /\ filesize \in Nat
<1>1. filesize = Len(run.input)
  BY DEF Setting, Implementations, filesize, io300_filesize, naive_filesize, student_filesize, stdio_filesize
<1> QED
  BY <1>1, LenProperties DEF Setting

\* The end of the loop.
LEMMA LeaveStep ==
    ASSUME Inv, Busy, Leave
    PROVE  Inv' /\ FileStep
<1>1. /\ pc' = "close" /\ run' = run /\ disk' = disk /\ file' = file /\ i' = i /\ block' = block
      /\ buf' = buf /\ call' = call /\ turn' = turn
  BY DEF Leave, history
<1>2. FileStep
  BY <1>1, SameView DEF Unseen, Contents, Tell, OnDisk
<1>3. Setting' /\ Files'
  BY <1>1 DEF Inv, Setting, Files, Busy, AreFiles, NotOpen, Open, Suits
<1>4. Directions' /\ Locals'
  BY <1>1 DEF Inv, Directions, Locals, Busy
<1> QED
  BY <1>2, <1>3, <1>4 DEF Inv

\* A program that copies has read, or moved to where it reads.
LEMMA CopyReads ==
    ASSUME Inv, Busy, run.prog # "rot13", Only("in"), Open("in")', file'["in"].dir # "write",
           pc' # "start"
    PROVE  Setting' /\ Files' /\ Directions'
<1>1. "in" \in Names /\ "out" \in Names \ {"in"} /\ Open("in")
  BY DEF Names, Inv, Files
<1>2. Setting' /\ Files'
  BY <1>1, FilesAfter
<1>3. file'["out"] = file["out"] /\ run' = run
  BY <1>1 DEF Only
<1> QED
  BY <1>2, <1>3 DEF Inv, Directions

\* A program that copies has written.
LEMMA CopyWrites ==
    ASSUME Inv, Busy, run.prog # "rot13", Only("out"), Open("out")', file'["out"].dir # "read",
           pc' # "start"
    PROVE  Setting' /\ Files' /\ Directions'
<1>1. "out" \in Names /\ "in" \in Names \ {"out"} /\ Open("out")
  BY DEF Names, Inv, Files
<1>2. Setting' /\ Files'
  BY <1>1, FilesAfter
<1>3. file'["in"] = file["in"] /\ run' = run
  BY <1>1 DEF Only
<1> QED
  BY <1>2, <1>3 DEF Inv, Directions

\* What the calls need of a program that copies.
LEMMA Copying ==
    ASSUME Inv, Busy, run.prog # "rot13"
    PROVE  /\ Setting /\ AreFiles /\ "in" \in Names /\ "out" \in Names /\ Open("in") /\ Open("out")
           /\ file["in"].dir # "write" /\ file["out"].dir # "read"
           /\ buf \in Seq(Bytes) /\ i \in Int
BY DEF Inv, Files, Directions, Locals, Names

\* byte_cat.c
LEMMA ByteCatStep ==
    ASSUME Inv, byte_cat
    PROVE  Inv' /\ FileStep
<1>1. run.prog = "byte_cat" /\ Setting
  BY DEF byte_cat, Inv
<1>2. CASE Setup(FALSE, TRUE, filesize <= 0, FALSE, 0, 1)
  <2>1. PICK z \in Int : z = 0
    OBVIOUS
  <2>2. Setup(FALSE, TRUE, filesize <= 0, FALSE, z, 1)
    BY <1>2, <2>1
  <2> QED
    BY <1>1, <2>2, SetupStep
<1>3. CASE pc = "top" /\ i < filesize /\ Readc("in", "write") /\ UNCHANGED <<i, block, written>>
  <2>1. Busy /\ i' = i /\ block' = block
    BY <1>3 DEF Busy
  <2>2. /\ FileStep /\ Only("in") /\ Open("in")' /\ file'["in"].dir # "write" /\ buf' \in Seq(Bytes)
        /\ pc' = "close" \/ (pc' = "write" /\ Len(buf') = 1)
    BY <1>1, <1>3, <2>1, Copying, ReadcCall
  <2>3. Setting' /\ Files' /\ Directions'
    BY <1>1, <2>1, <2>2, CopyReads
  <2>4. Locals'
    BY <1>1, <2>1, <2>2 DEF Inv, Locals, Only
  <2> QED
    BY <2>2, <2>3, <2>4 DEF Inv
<1>4. CASE /\ pc = "write" /\ Writec("out", buf[1], "top")
           /\ i' = i + 1 /\ UNCHANGED <<block, written, buf>>
  <2>1. Busy /\ i' \in Int /\ block' = block /\ buf' = buf
    BY <1>4 DEF Busy, Inv, Locals
  <2>2. buf[1] \in Bytes
    <3>1. buf \in Seq(Bytes) /\ Len(buf) = 1
      BY <1>1, <1>4 DEF Inv, Locals, ByteWise
    <3> QED
      BY <3>1
  <2>3. /\ FileStep /\ Only("out") /\ Open("out")' /\ file'["out"].dir # "read"
        /\ pc' \in {"close", "top"}
    BY <1>1, <1>4, <2>1, <2>2, Copying, WritecCall
  <2>4. Setting' /\ Files' /\ Directions'
    BY <1>1, <2>1, <2>3, CopyWrites
  <2>5. Locals'
    BY <1>1, <2>1, <2>3 DEF Inv, Locals, Only
  <2> QED
    BY <2>3, <2>4, <2>5 DEF Inv
<1>5. CASE pc = "top" /\ i >= filesize /\ Leave
  BY <1>5, LeaveStep DEF Busy
<1> QED
  BY <1>2, <1>3, <1>4, <1>5 DEF byte_cat

\* reverse_byte_cat.c
LEMMA ReverseByteCatStep ==
    ASSUME Inv, reverse_byte_cat
    PROVE  Inv' /\ FileStep
<1>1. run.prog = "reverse_byte_cat" /\ Setting
  BY DEF reverse_byte_cat, Inv
<1>2. CASE Setup(FALSE, TRUE, filesize <= 0, FALSE, filesize - 1, 1)
  <2>1. filesize - 1 \in Int
    BY <1>1, Size
  <2> QED
    BY <1>1, <1>2, <2>1, SetupStep
<1>3. CASE pc = "top" /\ i >= 0 /\ Seek("in", i, "read") /\ UNCHANGED <<i, block, written, buf>>
  <2>1. Busy /\ i' = i /\ block' = block /\ buf' = buf
    BY <1>3 DEF Busy
  <2>2. i \in Nat
    BY <1>3 DEF Inv, Locals
  <2>3. /\ FileStep /\ Only("in") /\ Open("in")' /\ file'["in"].dir \in {"none", file["in"].dir}
        /\ pc' = "close" \/ (pc' = "read" /\ file'["in"].dir = "none")
    BY <1>1, <1>3, <2>1, <2>2, Copying, SeekCall
  <2>4. file'["in"].dir # "write"
    BY <1>1, <2>1, <2>3, Copying
  <2>5. Setting' /\ Files' /\ Directions'
    BY <1>1, <2>1, <2>3, <2>4, CopyReads
  <2>6. Locals'
    BY <1>1, <2>1, <2>3 DEF Inv, Locals, Only
  <2> QED
    BY <2>3, <2>5, <2>6 DEF Inv
<1>4. CASE pc = "read" /\ Readc("in", "write") /\ UNCHANGED <<i, block, written>>
  <2>1. Busy /\ i' = i /\ block' = block
    BY <1>4 DEF Busy
  <2>2. /\ FileStep /\ Only("in") /\ Open("in")' /\ file'["in"].dir # "write" /\ buf' \in Seq(Bytes)
        /\ pc' = "close" \/ (pc' = "write" /\ Len(buf') = 1)
    BY <1>1, <1>4, <2>1, Copying, ReadcCall
  <2>3. Setting' /\ Files' /\ Directions'
    BY <1>1, <2>1, <2>2, CopyReads
  <2>4. Locals'
    BY <1>1, <2>1, <2>2 DEF Inv, Locals, Only
  <2> QED
    BY <2>2, <2>3, <2>4 DEF Inv
<1>5. CASE /\ pc = "write" /\ Writec("out", buf[1], "top")
           /\ i' = i - 1 /\ UNCHANGED <<block, written, buf>>
  <2>1. Busy /\ i' \in Int /\ block' = block /\ buf' = buf
    BY <1>5 DEF Busy, Inv, Locals
  <2>2. buf[1] \in Bytes
    <3>1. buf \in Seq(Bytes) /\ Len(buf) = 1
      BY <1>1, <1>5 DEF Inv, Locals, ByteWise
    <3> QED
      BY <3>1
  <2>3. /\ FileStep /\ Only("out") /\ Open("out")' /\ file'["out"].dir # "read"
        /\ pc' \in {"close", "top"}
    BY <1>1, <1>5, <2>1, <2>2, Copying, WritecCall
  <2>4. Setting' /\ Files' /\ Directions'
    BY <1>1, <2>1, <2>3, CopyWrites
  <2>5. Locals'
    BY <1>1, <2>1, <2>3 DEF Inv, Locals, Only
  <2> QED
    BY <2>3, <2>4, <2>5 DEF Inv
<1>6. CASE pc = "top" /\ i < 0 /\ Leave
  BY <1>6, LeaveStep DEF Busy
<1> QED
  BY <1>2, <1>3, <1>4, <1>5, <1>6 DEF reverse_byte_cat

\* Half the alphabet away is a byte still.
LEMMA Rot13Byte ==
    ASSUME NEW ch \in Bytes
    PROVE  rot13(ch) \in Bytes
<1>1. PICK a \in 0 .. 25 : a = ((ch - 65) + 13) % 26
  BY ModRange DEF Bytes
<1>2. PICK b \in 0 .. 25 : b = ((ch - 97) + 13) % 26
  BY ModRange DEF Bytes
<1> QED
  BY <1>1, <1>2 DEF rot13, Bytes

\* rot13.c
LEMMA Rot13Step ==
    ASSUME Inv, rot13_main
    PROVE  Inv' /\ FileStep
<1>1. run.prog = "rot13" /\ Setting /\ AreFiles /\ "in" \in Names /\ i \in Nat /\ buf \in Seq(Bytes)
  BY DEF rot13_main, Inv, Files, Locals, Names
<1>2. Busy => Open("in")
  BY DEF Inv, Files
<1>3. CASE Setup(FALSE, FALSE, FALSE, FALSE, 0, 1)
  <2>1. PICK z \in Int : z = 0
    OBVIOUS
  <2>2. Setup(FALSE, FALSE, FALSE, FALSE, z, 1)
    BY <1>3, <2>1
  <2> QED
    BY <1>1, <2>1, <2>2, SetupStep
<1>4. ASSUME NEW next \in {"read", "write"}, (pc = "top" /\ next = "read") \/ (pc = "back" /\ next = "write"),
             Seek("in", i, next), UNCHANGED <<i, block, written, buf>>
      PROVE  Inv' /\ FileStep
  <2>1. Busy /\ i' = i /\ block' = block /\ buf' = buf
    BY <1>4 DEF Busy
  <2>2. /\ FileStep /\ Only("in") /\ Open("in")'
        /\ pc' = "close" \/ (pc' = next /\ file'["in"].dir = "none")
    BY <1>1, <1>2, <1>4, <2>1, SeekCall
  <2>3. Setting' /\ Files'
    BY <1>1, <1>2, <2>1, <2>2, FilesAfter
  <2>4. run' = run
    BY <2>2 DEF Only
  <2>5. Directions'
    BY <1>1, <2>2, <2>4 DEF Directions
  <2>6. Locals'
    BY <1>1, <1>4, <2>1, <2>2, <2>4 DEF Inv, Locals
  <2> QED
    BY <2>2, <2>3, <2>5, <2>6 DEF Inv
<1>5. CASE pc = "read" /\ Readc("in", "back") /\ UNCHANGED <<i, block, written>>
  <2>1. Busy /\ i' = i /\ block' = block
    BY <1>5 DEF Busy
  <2>2. file["in"].dir # "write"
    BY <1>1, <1>5, <2>1 DEF Inv, Directions
  <2>3. /\ FileStep /\ Only("in") /\ Open("in")' /\ buf' \in Seq(Bytes)
        /\ pc' = "close" \/ (pc' = "back" /\ Len(buf') = 1)
    BY <1>1, <1>2, <1>5, <2>1, <2>2, ReadcCall
  <2>4. Setting' /\ Files'
    BY <1>1, <1>2, <2>1, <2>3, FilesAfter
  <2>5. run' = run
    BY <2>3 DEF Only
  <2>6. Directions' /\ Locals'
    BY <1>1, <2>1, <2>3, <2>5 DEF Directions, Locals
  <2> QED
    BY <2>3, <2>4, <2>6 DEF Inv
<1>6. CASE /\ pc = "write" /\ Writec("in", rot13(buf[1]), "top")
           /\ i' = i + 1 /\ UNCHANGED <<block, written, buf>>
  <2>1. Busy /\ i' \in Nat /\ block' = block /\ buf' = buf
    BY <1>1, <1>6 DEF Busy
  <2>2. file["in"].dir # "read"
    BY <1>1, <1>6, <2>1 DEF Inv, Directions
  <2>3. rot13(buf[1]) \in Bytes
    <3>1. Len(buf) = 1
      BY <1>1, <1>6 DEF Inv, Locals, ByteWise
    <3>2. buf[1] \in Bytes
      BY <1>1, <3>1
    <3> QED
      BY <3>2, Rot13Byte
  <2>4. FileStep /\ Only("in") /\ Open("in")' /\ pc' \in {"close", "top"}
    BY <1>1, <1>2, <1>6, <2>1, <2>2, <2>3, WritecCall
  <2>5. Setting' /\ Files'
    BY <1>1, <1>2, <2>1, <2>4, FilesAfter
  <2>6. run' = run
    BY <2>4 DEF Only
  <2>7. Directions' /\ Locals'
    BY <1>1, <2>1, <2>4, <2>6 DEF Directions, Locals
  <2> QED
    BY <2>4, <2>5, <2>7 DEF Inv
<1>7. CASE pc = "top" /\ i >= filesize /\ Leave
  BY <1>7, LeaveStep DEF Busy
<1>8. CASE pc = "top" /\ i < filesize /\ Seek("in", i, "read") /\ UNCHANGED <<i, block, written, buf>>
  <2>1. pc = "top" /\ Seek("in", i, "read") /\ UNCHANGED <<i, block, written, buf>>
    BY <1>8
  <2> QED
    BY ONLY <1>4, <2>1
<1>9. CASE pc = "back" /\ Seek("in", i, "write") /\ UNCHANGED <<i, block, written, buf>>
  BY <1>4, <1>9
<1> QED
  BY <1>3, <1>5, <1>6, <1>7, <1>8, <1>9 DEF rot13_main

\* A read of the programs that copy in blocks; the buffer is what was read, perhaps reversed.
LEMMA BlockRead ==
    ASSUME Inv, Busy, run.prog \notin ByteWise, NEW n \in Nat,
           NEW o \in io300_read(file["in"], disk["in"], n), Returns("read", "in", n, o),
           o.data \in Seq(Bytes) => buf' \in Seq(Bytes), pc' # "start", UNCHANGED <<i, block>>
    PROVE  Inv' /\ FileStep
<1>1. run.prog # "rot13"
  BY DEF ByteWise
<1>2. FileStep /\ Only("in") /\ Open("in")' /\ file'["in"].dir # "write" /\ o.data \in Seq(Bytes)
  BY <1>1, Copying, ReadCall
<1>3. Setting' /\ Files' /\ Directions'
  BY <1>1, <1>2, CopyReads
<1>4. Locals'
  BY <1>2 DEF Inv, Locals, Only
<1> QED
  BY <1>2, <1>3, <1>4 DEF Inv

\* Their write; Locals is up to the program.
LEMMA BlockWrite ==
    ASSUME Inv, Busy, run.prog # "rot13", NEW n,
           NEW o \in io300_write(file["out"], disk["out"], buf), Returns("write", "out", n, o),
           pc' # "start", Locals'
    PROVE  Inv' /\ FileStep
<1>1. FileStep /\ Only("out") /\ Open("out")' /\ file'["out"].dir # "read"
  BY Copying, WriteCall
<1>2. Setting' /\ Files' /\ Directions'
  BY <1>1, CopyWrites
<1> QED
  BY <1>1, <1>2 DEF Inv

\* block_cat.c and random_block_cat.c
LEMMA BlockCatStep ==
    ASSUME Inv, block_cat \/ random_block_cat
    PROVE  Inv' /\ FileStep
<1>1. /\ Setting /\ run.prog \in {"block_cat", "random_block_cat"} /\ run.block \in Nat
      /\ MAX_BLOCK_SIZE \in Nat
  BY ProgramsAssumption DEF block_cat, random_block_cat, Inv, Setting
<1>2. run.prog \notin ByteWise /\ run.prog \notin {"rot13", "stride_cat"}
  BY <1>1 DEF ByteWise
<1>3. ASSUME NEW refused, NEW z, z = 0, Setup(FALSE, TRUE, refused, TRUE, z, 1)
      PROVE  Inv' /\ FileStep
  <2>1. z \in Int
    BY <1>3
  <2> QED
    BY <1>2, <1>3, <2>1, SetupStep
<1>4. ASSUME NEW n \in Nat, pc = "top", ReadBlock(n)
      PROVE  Inv' /\ FileStep
  <2>1. PICK o \in io300_read(file["in"], disk["in"], n) :
          /\ Returns("read", "in", n, o)
          /\ buf' = o.data
          /\ pc' = IF o.ret \in {0, -1} THEN "close" ELSE "write"
          /\ UNCHANGED <<i, block, written, status>>
    BY <1>4 DEF ReadBlock
  <2>2. pc' # "start" /\ UNCHANGED <<i, block>>
    BY <2>1
  <2> QED
    BY <1>2, <1>4, <2>1, <2>2, BlockRead DEF Busy
<1>5. ASSUME pc = "write", WriteBlock
      PROVE  Inv' /\ FileStep
  <2>1. PICK o \in io300_write(file["out"], disk["out"], buf) :
          /\ Returns("write", "out", Len(buf), o)
          /\ pc' = "top"
          /\ UNCHANGED <<i, block, written, buf>>
    BY <1>5 DEF WriteBlock
  <2>2. run' = run
    BY <2>1 DEF Returns
  <2>3. Locals'
    BY <2>1, <2>2 DEF Inv, Locals
  <2> QED
    BY <1>2, <1>5, <2>1, <2>3, BlockWrite DEF Busy
<1>6. CASE block_cat
  BY <1>1, <1>3, <1>4, <1>5, <1>6 DEF block_cat
<1>7. CASE random_block_cat
  <2>1. CASE Setup(FALSE, TRUE, filesize <= 0, TRUE, 0, 1)
    BY <1>3, <2>1
  <2>2. CASE pc = "top" /\ \E n \in 1..MAX_BLOCK_SIZE : ReadBlock(n)
    <3>1. PICK n \in Nat : ReadBlock(n)
      BY <1>1, <2>2
    <3> QED
      BY <1>4, <2>2, <3>1
  <2> QED
    BY <1>5, <1>7, <2>1, <2>2 DEF random_block_cat
<1> QED
  BY <1>6, <1>7

\* reverse_block_cat.c
LEMMA ReverseBlockCatStep ==
    ASSUME Inv, reverse_block_cat
    PROVE  Inv' /\ FileStep
<1>1. Setting /\ run.prog = "reverse_block_cat" /\ run.block \in Nat /\ i \in Int
  BY DEF reverse_block_cat, Inv, Setting, Locals
<1>2. run.prog \notin ByteWise /\ run.prog # "rot13"
  BY <1>1 DEF ByteWise
<1>3. CASE Setup(run.block = 0, TRUE, filesize <= 0, TRUE,
                 IF run.block = 0 THEN 0 ELSE filesize - (filesize % run.block), 1)
  <2>1. PICK z : z = IF run.block = 0 THEN 0 ELSE filesize - (filesize % run.block)
    OBVIOUS
  <2>2. z \in Int
    <3>1. filesize \in Nat
      BY <1>1, Size
    <3> QED
      BY <1>1, <2>1, <3>1
  <2>3. PICK e : e = (run.block = 0)
    OBVIOUS
  <2>4. Setup(e, TRUE, filesize <= 0, TRUE, z, 1)
    BY <1>3, <2>1, <2>3
  <2> QED
    BY <1>1, <2>2, <2>4, SetupStep
<1>4. CASE pc = "top" /\ i >= 0 /\ Seek("in", i, "read") /\ UNCHANGED <<i, block, written, buf>>
  <2>1. Busy /\ i' = i /\ block' = block /\ buf' = buf
    BY <1>4 DEF Busy
  <2>2. i \in Nat
    BY <1>1, <1>4
  <2>3. /\ FileStep /\ Only("in") /\ Open("in")' /\ file'["in"].dir \in {"none", file["in"].dir}
        /\ pc' = "close" \/ (pc' = "read" /\ file'["in"].dir = "none")
    BY <1>2, <1>4, <2>1, <2>2, Copying, SeekCall
  <2>4. file'["in"].dir # "write"
    BY <1>2, <2>1, <2>3, Copying
  <2>5. Setting' /\ Files' /\ Directions'
    BY <1>2, <2>1, <2>3, <2>4, CopyReads
  <2>6. Locals'
    BY <2>1, <2>3 DEF Inv, Locals, Only
  <2> QED
    BY <2>3, <2>5, <2>6 DEF Inv
<1>5. CASE /\ pc = "read"
           /\ \E o \in io300_read(file["in"], disk["in"], run.block) :
                 /\ Returns("read", "in", run.block, o)
                 /\ buf' = Reverse(o.data)
                 /\ pc' = IF o.ret = -1 THEN "close" ELSE "write"
                 /\ UNCHANGED <<i, block, written, status>>
  <2>1. PICK o \in io300_read(file["in"], disk["in"], run.block) :
                 /\ Returns("read", "in", run.block, o)
                 /\ buf' = Reverse(o.data)
                 /\ pc' = IF o.ret = -1 THEN "close" ELSE "write"
                 /\ UNCHANGED <<i, block, written, status>>
    BY <1>5
  <2>2. ASSUME o.data \in Seq(Bytes) PROVE buf' \in Seq(Bytes)
    <3>1. PICK s \in Seq(Bytes) : s = o.data
      BY <2>2
    <3>2. PICK m \in Nat : m = Len(s)
      BY LenProperties
    <3>3. Reverse(s) = [k \in 1 .. m |-> s[(m - k) + 1]]
      BY <3>2 DEF Reverse
    <3>4. ASSUME NEW k \in 1 .. m PROVE s[(m - k) + 1] \in Bytes
      BY <3>2, (m - k) + 1 \in 1 .. Len(s)
    <3>5. Reverse(s) \in [1 .. m -> Bytes]
      BY <3>3, <3>4
    <3> QED
      BY <2>1, <3>1, <3>5, FunctionIsSeq
  <2>3. pc' # "start" /\ UNCHANGED <<i, block>> /\ Busy
    BY <1>5, <2>1 DEF Busy
  <2> QED
    BY <1>1, <1>2, <2>1, <2>2, <2>3, BlockRead
<1>6. CASE /\ pc = "write"
           /\ \E o \in io300_write(file["out"], disk["out"], buf) :
                 /\ Returns("write", "out", Len(buf), o)
                 /\ IF o.ret = -1 THEN Exit(1) ELSE pc' = "top" /\ UNCHANGED status
           /\ i' = i - run.block /\ UNCHANGED <<block, written, buf>>
  <2>1. PICK o \in io300_write(file["out"], disk["out"], buf) :
                 /\ Returns("write", "out", Len(buf), o)
                 /\ pc' \in {"close", "top"}
    BY <1>6 DEF Exit
  <2>2. run' = run /\ i' \in Int /\ block' = block /\ buf' = buf
    BY <1>1, <1>6, <2>1 DEF Returns
  <2>3. Locals'
    BY <1>1, <2>1, <2>2 DEF Inv, Locals
  <2>4. Busy /\ pc' # "start"
    BY <1>6, <2>1 DEF Busy
  <2> QED
    BY <1>2, <2>1, <2>3, <2>4, BlockWrite
<1>7. CASE pc = "top" /\ i < 0 /\ Leave
  BY <1>7, LeaveStep DEF Busy
<1> QED
  BY <1>3, <1>4, <1>5, <1>6, <1>7 DEF reverse_block_cat

\* A remainder of size_t.
LEMMA SizeT == \A x \in Int : x % SIZE_T \in Nat
<1> TAKE x \in Int
<1>1. SIZE_T \in Nat \ {0}
  BY ProgramsAssumption
<1>2. x % SIZE_T \in 0 .. SIZE_T - 1
  BY <1>1, ModRange
<1> QED
  BY <1>1, <1>2

\* stride_cat's next offset and block size are numbers of size_t.
LEMMA NextColumn ==
    ASSUME Setting, NEW p \in Nat, NEW b \in Nat
    PROVE  next_column(p, b)[1] \in Nat /\ next_column(p, b)[2] \in Nat
<1>1. PICK m \in Nat \ {0} : m = run.stride
  BY DEF Setting
<1>2. PICK q \in Nat : q = (p + m) % SIZE_T
  BY SizeT
<1>3. PICK r \in Nat : r = q % m
  <2>1. q % m \in 0 .. m - 1
    BY ModRange
  <2> QED
    BY <2>1
<1>4. PICK start \in Nat : start = (r + b) % SIZE_T
  BY SizeT
<1>5. PICK c \in Nat : c = IF (start + b) % SIZE_T > m THEN (m - start) % SIZE_T ELSE b
  <2>1. m - start \in Int
    OBVIOUS
  <2>2. (m - start) % SIZE_T \in Nat
    BY <2>1, SizeT
  <2> QED
    BY <2>2
<1>6. next_column(p, b) = IF q < filesize THEN <<q, b>> ELSE <<start, c>>
  BY <1>1, <1>2, <1>3, <1>4, <1>5 DEF next_column
<1>7. CASE q < filesize
  <2>1. next_column(p, b)[1] = q /\ next_column(p, b)[2] = b
    BY <1>6, <1>7
  <2> QED
    BY <2>1
<1>8. CASE ~(q < filesize)
  <2>1. next_column(p, b)[1] = start /\ next_column(p, b)[2] = c
    BY <1>6, <1>8
  <2> QED
    BY <2>1
<1> QED
  BY <1>7, <1>8

\* stride_cat.c
LEMMA StrideCatStep ==
    ASSUME Inv, stride_cat
    PROVE  Inv' /\ FileStep
<1>1. /\ Setting /\ run.prog = "stride_cat" /\ i \in Nat /\ i \in Int /\ block \in Nat
      /\ off_t(i) \in Int
  <2>1. Setting /\ run.prog = "stride_cat" /\ i \in Nat /\ block \in Nat
    BY DEF stride_cat, Inv, Locals
  <2>2. SIZE_T \in Nat
    BY ProgramsAssumption
  <2> QED
    BY <2>1, <2>2 DEF off_t
<1>2. run.prog \notin ByteWise /\ run.prog # "rot13"
  BY <1>1 DEF ByteWise
<1>3. CASE Setup(FALSE, TRUE, FALSE, FALSE, 0, Crash)
  <2>1. PICK z \in Int : z = 0
    OBVIOUS
  <2>2. Setup(FALSE, TRUE, FALSE, FALSE, z, Crash)
    BY <1>3, <2>1
  <2> QED
    BY <1>1, <2>1, <2>2, SetupStep
<1>4. CASE NotSeekable
  <2>1. PICK oi \in io300_open(disk["in"]) : ~oi.failed /\ disk' = [disk EXCEPT !["in"] = oi.d]
    BY <1>4 DEF NotSeekable
  <2>2. /\ pc = "start" /\ pc' = "done" /\ run' = run /\ file' = file /\ i' = i /\ block' = block
        /\ buf' = buf /\ call' = call /\ turn' = turn
    BY <1>4 DEF NotSeekable
  <2>3. /\ AreFiles /\ (\A h \in Names : NotOpen(h)) /\ "in" \in Names /\ "out" \in Names
        /\ run.impl \in Implementations
    BY <2>2 DEF Inv, Files, Setting, Names
  <2>4. /\ disk["in"] \in Seq(Bytes) \cup {Missing}
        /\ file["in"] = NoFile /\ file["out"] = NoFile
    BY <2>3 DEF NotOpen
  <2>5. /\ oi.d \in Seq(Bytes)
        /\ oi.d = IF disk["in"] = Missing THEN <<>> ELSE disk["in"]
    BY <2>1, <2>3, <2>4, CallOpens
  <2>6. disk'["in"] = oi.d /\ disk'["out"] = disk["out"] /\ AreFiles'
    BY <2>1, <2>2, <2>3 DEF AreFiles, Names
  <2>7. /\ Contents("in")' = Contents("in") /\ Tell("in")' = Tell("in") /\ NotOpen("in")'
        /\ OnDisk("in")' = OnDisk("in")
    BY <2>2, <2>3, <2>4, <2>5, <2>6, AfterOpen
  <2>8. /\ Contents("out")' = Contents("out") /\ Tell("out")' = Tell("out") /\ NotOpen("out")'
        /\ OnDisk("out")' = OnDisk("out")
    BY <2>2, <2>3, <2>4, <2>6, AfterOpen
  <2>9. FileStep
    BY <2>2, <2>7, <2>8, SameView DEF Names, Unseen
  <2>10. Setting'
    BY <1>1, <2>2 DEF Setting
  <2>11. Files' /\ Directions'
    <3>1. file'["in"] = NoFile
      BY <2>2, <2>4
    <3> QED
      BY <2>2, <2>6, <2>7, <2>8, <3>1 DEF Files, Directions, Busy, Names
  <2>12. Locals'
    BY <2>2 DEF Inv, Locals
  <2> QED
    BY <2>9, <2>10, <2>11, <2>12 DEF Inv
<1>5. CASE /\ pc = "top" /\ written < filesize
           /\ \E o \in io300_read(file["in"], disk["in"], block) :
                 /\ Returns("read", "in", block, o)
                 /\ buf' = o.data
                 /\ \/ pc' = (IF o.ret <= 0 THEN "close" ELSE "write") /\ UNCHANGED status
                    \/ Len(o.data) > run.block /\ pc' = "done" /\ status' = Crash
           /\ UNCHANGED <<i, block, written>>
  <2>1. PICK o \in io300_read(file["in"], disk["in"], block) :
                 /\ Returns("read", "in", block, o)
                 /\ buf' = o.data
                 /\ pc' \in {"close", "write", "done"}
    BY <1>5
  <2>2. pc' # "start" /\ UNCHANGED <<i, block>> /\ Busy
    BY <1>5, <2>1 DEF Busy
  <2> QED
    BY <1>1, <1>2, <2>1, <2>2, BlockRead
<1>6. CASE /\ pc = "write"
           /\ \E o \in io300_write(file["out"], disk["out"], buf) : Returns("write", "out", Len(buf), o)
           /\ written' = written + Len(buf)
           /\ i' = next_column(i, block)[1] /\ block' = next_column(i, block)[2]
           /\ pc' = "seek" /\ UNCHANGED <<buf, status>>
  <2>1. PICK o \in io300_write(file["out"], disk["out"], buf) : Returns("write", "out", Len(buf), o)
    BY <1>6
  <2>2. run' = run /\ buf' = buf /\ pc' = "seek" /\ Busy
    BY <1>6, <2>1 DEF Returns, Busy
  <2>3. i' \in Nat /\ block' \in Nat
    BY <1>1, <1>6, NextColumn
  <2>4. Locals'
    <3>1. i' \in Int
      BY <2>3
    <3> QED
      BY <1>1, <2>2, <2>3, <3>1 DEF Inv, Locals
  <2> QED
    BY <1>2, <2>1, <2>2, <2>4, BlockWrite
<1>7. CASE /\ pc = "seek"
           /\ \E o \in io300_seek(file["in"], disk["in"], off_t(i)) :
                 /\ Returns("seek", "in", off_t(i), o)
                 /\ IF o.ret = -1 THEN pc' = "done" /\ status' = Crash
                                  ELSE pc' = "top" /\ UNCHANGED status
           /\ UNCHANGED <<i, block, written, buf>>
  <2>1. PICK o \in io300_seek(file["in"], disk["in"], off_t(i)) :
                 Returns("seek", "in", off_t(i), o) /\ pc' \in {"done", "top"}
    BY <1>7
  <2>2. Busy /\ i' = i /\ block' = block /\ buf' = buf /\ run' = run
    BY <1>7, <2>1 DEF Busy, Returns
  <2>3. /\ "in" \in Names /\ Open("in") /\ AreFiles /\ run.impl \in Implementations
        /\ file["in"].dir # "write"
    BY <1>2, <2>2, Copying DEF Setting
  <2>4. /\ Seeks(file["in"], disk["in"], off_t(i), o) /\ Suits(o.f)
        /\ o.f.dir = "none" \/ o.f.dir = file["in"].dir
    BY <1>1, <2>1, <2>3, CallSeeks DEF Open
  <2>5. FileStep
    BY <2>1, <2>3, <2>4, SeekSteps
  <2>6. Only("in") /\ Open("in")' /\ file'["in"] = o.f
    BY <2>1, <2>3, <2>4, Returned DEF Seeks
  <2>7. Setting' /\ Files' /\ Directions'
    BY <1>2, <2>1, <2>2, <2>3, <2>4, <2>6, CopyReads
  <2>8. Locals'
    BY <1>1, <2>1, <2>2 DEF Inv, Locals
  <2> QED
    BY <2>5, <2>7, <2>8 DEF Inv
<1>8. CASE pc = "top" /\ written >= filesize /\ Leave
  BY <1>8, LeaveStep DEF Busy
<1> QED
  BY <1>3, <1>4, <1>5, <1>6, <1>7, <1>8 DEF stride_cat

-----------------------------------------------------------------------------
(* The theorems.                                                           *)

\* Every step of every program keeps the invariant and is a step of the abstract files.
LEMMA StepInv ==
    ASSUME Inv, [Next]_vars
    PROVE  Inv' /\ FileStep
<1>1. CASE UNCHANGED vars
  <2>1. /\ run' = run /\ disk' = disk /\ file' = file /\ pc' = pc /\ i' = i /\ block' = block
        /\ buf' = buf /\ call' = call /\ turn' = turn
    BY <1>1 DEF vars, history
  <2>2. FileStep
    BY <2>1, SameView DEF Unseen, Contents, Tell, OnDisk
  <2>3. Setting' /\ Files'
    BY <2>1 DEF Inv, Setting, Files, Busy, AreFiles, NotOpen, Open, Suits
  <2>4. Directions' /\ Locals'
    BY <2>1 DEF Inv, Directions, Locals, Busy
  <2> QED
    BY <2>2, <2>3, <2>4 DEF Inv
<1>2. CASE Next
  BY <1>2, ByteCatStep, ReverseByteCatStep, Rot13Step, BlockCatStep, ReverseBlockCatStep,
     StrideCatStep, CloseStep DEF Next
<1> QED
  BY <1>1, <1>2

\* naive.c, student.c and stdio.c, with any size of buffer, any program, any input and any
\* calls that fail or are cut short, are the files io300.h describes.
THEOREM FileRefinement == Spec => ImplementsFile
<1>1. Init => Inv /\ AFile!Init
  BY InitInv
<1>2. Inv /\ [Next]_vars => Inv' /\ FileStep
  BY StepInv
<1>3. FileStep => [AFile!Next]_(AFile!file)
  BY DEF FileStep, Cs, Ss, Ps, AFile!file
<1> QED
  BY <1>1, <1>2, <1>3, PTL DEF Spec, ImplementsFile, AFile!Spec

\* No program makes stdio write after a read, or read after a write, with no seek between.
THEOREM NoMisuse == Spec => []NoUndefinedSwitch
<1>1. Init => Inv
  BY InitInv
<1>2. Inv /\ [Next]_vars => Inv'
  BY StepInv
<1>3. Inv => NoUndefinedSwitch
  <2>1. SUFFICES ASSUME Inv, NEW h \in Names PROVE file[h] = NoFile \/ ~file[h].misused
    BY DEF NoUndefinedSwitch
  <2>2. NotOpen(h) \/ Open(h)
    BY <2>1 DEF Inv, Files
  <2> QED
    BY <2>2 DEF NotOpen, Open, Handle
<1> QED
  BY <1>1, <1>2, <1>3, PTL DEF Spec

=============================================================================
