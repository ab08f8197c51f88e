------------------------------- MODULE Shards -------------------------------
(***************************************************************************)
(* The distributed store's arithmetic on shards (common/common.cc), for    *)
(* every pair of bounds an unsigned int can hold and every width of it,    *)
(* against the sets of keys the shards stand for.  The shardmaster that is *)
(* to use it is a stub.                                                    *)
(***************************************************************************)
EXTENDS Integers, Sequences, TLAPS

CONSTANT UIntRange       \* of an unsigned int, 2^32
UInt == 0..(UIntRange - 1)

\* What is assumed of the width: 0 to 2 can be told apart.
Wide == UIntRange \in Nat /\ UIntRange > 2

\* "lower should be always be <= higher"
Shards == {s \in [lower : UInt, upper : UInt] : s.lower <= s.upper}
keys(s) == s.lower..s.upper

\* Computed in unsigned int, then widened.
size(s) == (s.upper - s.lower + 1) % UIntRange

\* Asserted by split_shard.
Splittable(s) == s.lower < s.upper

midpoint(s) == (s.lower + (s.upper - s.lower) \div 2) % UIntRange

split_shard(s) ==
    << [lower |-> s.lower, upper |-> midpoint(s)],
       [lower |-> (midpoint(s) + 1) % UIntRange, upper |-> s.upper] >>

get_overlap(a, b) ==
    IF a.upper < b.lower \/ b.upper < a.lower THEN "NO_OVERLAP"
    ELSE IF b.lower <= a.lower /\ a.upper <= b.upper THEN "COMPLETELY_CONTAINED"
    ELSE IF a.lower < b.lower /\ a.upper > b.upper THEN "COMPLETELY_CONTAINS"
    ELSE IF a.lower >= b.lower /\ a.upper > b.upper THEN "OVERLAP_START"
    ELSE IF a.lower < b.lower /\ a.upper <= b.upper THEN "OVERLAP_END"
    ELSE "bad case in get_overlap"

\* out is what std::sort may make of the shards in vec, by a key that orders them: the same
\* shards, in an order in which no later one has a smaller key.
Sorts(vec, out, key(_)) ==
    /\ Len(out) = Len(vec)
    /\ \E p \in [1..Len(vec) -> 1..Len(vec)] :
         /\ \A i, j \in 1..Len(vec) : p[i] = p[j] => i = j
         /\ \A i \in 1..Len(vec) : out[i] = vec[p[i]]
    /\ \A i, j \in 1..Len(out) : i < j => key(out[i]) <= key(out[j])

sortAscendingInterval(vec, out) == LET key(s) == s.lower IN Sorts(vec, out, key)
sortAscendingSize(vec, out) == LET key(s) == size(s) IN Sorts(vec, out, key)
sortDescendingSize(vec, out) == LET key(s) == -size(s) IN Sorts(vec, out, key)

\* size(vec) is std::size: the number of shards is added once for each shard.
shardRangeSize(vec) == Len(vec) * Len(vec)

-----------------------------------------------------------------------------

LEMMA ModFacts ==
    ASSUME Wide
    PROVE  UIntRange % UIntRange = 0 /\ \A n \in UInt : n % UIntRange = n
BY DEF Wide, UInt

\* size() is the number of keys of a shard, save that the shard of all keys has size 0.
THEOREM SizeExact ==
    ASSUME Wide, NEW s \in Shards
    PROVE  /\ size(s) = s.upper - s.lower + 1 \/ (size(s) = 0 /\ keys(s) = UInt)
           /\ keys(s) # UInt => size(s) # 0
<1>1. s.lower \in UInt /\ s.upper \in UInt /\ s.lower <= s.upper
  BY DEF Shards
<1>2. CASE s.upper - s.lower + 1 < UIntRange
  <2>1. s.upper - s.lower + 1 \in UInt
    BY <1>1, <1>2 DEF UInt, Wide
  <2>2. size(s) = s.upper - s.lower + 1
    BY <2>1, ModFacts DEF size
  <2>3. size(s) # 0
    BY <2>2, <1>1 DEF UInt, Wide
  <2> QED
    BY <2>2, <2>3
<1>3. CASE s.upper - s.lower + 1 = UIntRange
  <2>1. s.lower = 0 /\ s.upper = UIntRange - 1
    BY <1>1, <1>3 DEF UInt, Wide
  <2>2. size(s) = 0
    BY <1>3, ModFacts DEF size
  <2> QED
    BY <2>1, <2>2 DEF keys, UInt
<1> QED
  BY <1>1, <1>2, <1>3 DEF UInt, Wide

\* split_shard: the halves are shards, no key is lost, none is in both, and the first half
\* has the extra key if there is one ("the first shard in the pair will get the extra key"),
\* up to the largest bounds: nothing wraps.
THEOREM SplitExact ==
    ASSUME Wide, NEW s \in Shards, Splittable(s), NEW p, p = split_shard(s)
    PROVE  /\ p[1] \in Shards /\ p[2] \in Shards
           /\ keys(p[1]) \cup keys(p[2]) = keys(s)
           /\ keys(p[1]) \cap keys(p[2]) = {}
           /\ size(p[1]) - size(p[2]) \in {0, 1}
<1>1. s.lower \in UInt /\ s.upper \in UInt /\ s.lower < s.upper
  BY DEF Shards, Splittable
<1>2. PICK m : m = s.lower + (s.upper - s.lower) \div 2
  OBVIOUS
<1>3. /\ m \in Int /\ s.lower <= m /\ m < s.upper
      /\ 2 * (m - s.lower) <= s.upper - s.lower
      /\ s.upper - s.lower <= 2 * (m - s.lower) + 1
  BY <1>1, <1>2 DEF UInt, Wide
<1>4. midpoint(s) = m /\ (midpoint(s) + 1) % UIntRange = m + 1
  <2>1. m \in UInt /\ m + 1 \in UInt
    BY <1>1, <1>3 DEF UInt, Wide
  <2> QED
    BY <1>2, <2>1, ModFacts DEF midpoint
<1>5. /\ p[1] = [lower |-> s.lower, upper |-> m]
      /\ p[2] = [lower |-> m + 1, upper |-> s.upper]
  BY <1>4 DEF split_shard
<1>6. p[1] \in Shards /\ p[2] \in Shards
  BY <1>1, <1>3, <1>5 DEF Shards, UInt, Wide
<1>7. /\ keys(p[1]) \cup keys(p[2]) = keys(s)
      /\ keys(p[1]) \cap keys(p[2]) = {}
  BY <1>1, <1>3, <1>5 DEF keys, UInt, Wide
<1>8. size(p[1]) = m - s.lower + 1 /\ size(p[2]) = s.upper - m
  <2>1. m - s.lower + 1 \in UInt /\ s.upper - (m + 1) + 1 \in UInt
    BY <1>1, <1>3 DEF UInt, Wide
  <2>2. s.upper - (m + 1) + 1 = s.upper - m
    BY <1>1, <1>3 DEF UInt, Wide
  <2> QED
    BY <2>1, <2>2, <1>5, ModFacts DEF size
<1>9. size(p[1]) - size(p[2]) \in {0, 1}
  BY <1>1, <1>3, <1>8 DEF UInt, Wide
<1> QED
  BY <1>6, <1>7, <1>9

\* get_overlap never reaches its bad case, and its answer says exactly how the keys of a
\* lie to those of b: apart, all inside, around b on both sides, only a's start in b, or
\* only a's end in b.
THEOREM OverlapExact ==
    ASSUME Wide, NEW a \in Shards, NEW b \in Shards
    PROVE  /\ get_overlap(a, b) = "NO_OVERLAP" <=> keys(a) \cap keys(b) = {}
           /\ get_overlap(a, b) = "COMPLETELY_CONTAINED" <=> keys(a) \subseteq keys(b)
           /\ get_overlap(a, b) = "COMPLETELY_CONTAINS" <=>
                /\ keys(b) \subseteq keys(a)
                /\ a.lower \notin keys(b) /\ a.upper \notin keys(b)
           /\ get_overlap(a, b) = "OVERLAP_START" <=>
                a.lower \in keys(b) /\ a.upper \notin keys(b)
           /\ get_overlap(a, b) = "OVERLAP_END" <=>
                a.lower \notin keys(b) /\ a.upper \in keys(b)
           /\ get_overlap(a, b) # "bad case in get_overlap"
<1>1. /\ a.lower \in Int /\ a.upper \in Int /\ a.lower <= a.upper
      /\ b.lower \in Int /\ b.upper \in Int /\ b.lower <= b.upper
  BY DEF Shards, UInt, Wide
<1>2. keys(a) \cap keys(b) = {} <=> (a.upper < b.lower \/ b.upper < a.lower)
  <2>1. ASSUME ~(a.upper < b.lower \/ b.upper < a.lower)
        PROVE  keys(a) \cap keys(b) # {}
    <3>1. CASE a.lower <= b.lower
      <4>1. b.lower \in keys(a) \cap keys(b)
        BY <1>1, <2>1, <3>1 DEF keys
      <4> QED
        BY <4>1
    <3>2. CASE b.lower < a.lower
      <4>1. a.lower \in keys(a) \cap keys(b)
        BY <1>1, <2>1, <3>2 DEF keys
      <4> QED
        BY <4>1
    <3> QED
      BY <1>1, <3>1, <3>2
  <2>2. ASSUME a.upper < b.lower \/ b.upper < a.lower
        PROVE  keys(a) \cap keys(b) = {}
    BY <1>1, <2>2 DEF keys
  <2> QED
    BY <2>1, <2>2
<1>3. keys(a) \subseteq keys(b) <=> (b.lower <= a.lower /\ a.upper <= b.upper)
  <2>1. a.lower \in keys(a) /\ a.upper \in keys(a)
    BY <1>1 DEF keys
  <2> QED
    BY <1>1, <2>1 DEF keys
<1>4. keys(b) \subseteq keys(a) <=> (a.lower <= b.lower /\ b.upper <= a.upper)
  <2>1. b.lower \in keys(b) /\ b.upper \in keys(b)
    BY <1>1 DEF keys
  <2> QED
    BY <1>1, <2>1 DEF keys
<1>5. /\ a.lower \in keys(b) <=> (b.lower <= a.lower /\ a.lower <= b.upper)
      /\ a.upper \in keys(b) <=> (b.lower <= a.upper /\ a.upper <= b.upper)
  BY <1>1 DEF keys
<1> QED
  BY <1>1, <1>2, <1>3, <1>4, <1>5 DEF get_overlap

\* Shards without a common key, sorted by sortAscendingInterval, follow each other: every
\* key of an earlier one is below every key of a later one, whatever order std::sort gives
\* to equal bounds.
THEOREM SortedShardsFollow ==
    ASSUME Wide, NEW vec \in Seq(Shards), NEW out, sortAscendingInterval(vec, out),
           \A i, j \in 1..Len(vec) : i # j => keys(vec[i]) \cap keys(vec[j]) = {}
    PROVE  \A i, j \in 1..Len(out) : i < j => out[i].upper < out[j].lower
<1>1. Len(out) = Len(vec) /\ Len(vec) \in Nat
  BY DEF sortAscendingInterval, Sorts
<1>2. PICK p \in [1..Len(vec) -> 1..Len(vec)] :
        /\ \A i, j \in 1..Len(vec) : p[i] = p[j] => i = j
        /\ \A i \in 1..Len(vec) : out[i] = vec[p[i]]
  BY DEF sortAscendingInterval, Sorts
<1> SUFFICES ASSUME NEW i \in 1..Len(out), NEW j \in 1..Len(out), i < j
             PROVE  out[i].upper < out[j].lower
  OBVIOUS
<1>3. out[i].lower <= out[j].lower
  BY DEF sortAscendingInterval, Sorts
<1>4. p[i] \in 1..Len(vec) /\ p[j] \in 1..Len(vec) /\ p[i] # p[j]
  BY <1>1, <1>2
<1>5. out[i] = vec[p[i]] /\ out[j] = vec[p[j]]
  BY <1>1, <1>2
<1>6. out[i] \in Shards /\ out[j] \in Shards /\ keys(out[i]) \cap keys(out[j]) = {}
  <2>1. vec[p[i]] \in Shards /\ vec[p[j]] \in Shards
    BY <1>4
  <2>2. keys(vec[p[i]]) \cap keys(vec[p[j]]) = {}
    BY <1>4, Zenon
  <2> QED
    BY <1>5, <2>1, <2>2, Zenon
<1>7. /\ out[i].upper \in Int /\ out[j].lower \in Int /\ out[i].lower \in Int
      /\ out[j].upper \in Int /\ out[j].lower <= out[j].upper
  BY <1>6 DEF Shards, UInt, Wide
<1>8. out[j].lower \in keys(out[j])
  BY <1>7 DEF keys
<1>9. out[j].lower \notin keys(out[i])
  BY <1>6, <1>8
<1> QED
  BY <1>3, <1>7, <1>9 DEF keys

\* shardRangeSize is not "the total size of a vector of shards" (common.h): of the one shard
\* of keys 0 and 1 it says 1.
THEOREM RangeSizeIsNotTotal ==
    ASSUME Wide PROVE \E s \in Shards : shardRangeSize(<<s>>) # size(s)
<1>1. PICK s : s = [lower |-> 0, upper |-> 1]
  OBVIOUS
<1>2. s \in Shards /\ size(s) = 2
  <2>1. 0 \in UInt /\ 1 \in UInt /\ 2 \in UInt
    BY DEF UInt, Wide
  <2>2. s \in Shards
    BY <1>1, <2>1 DEF Shards
  <2>3. s.upper - s.lower + 1 = 2
    BY <1>1
  <2> QED
    BY <2>1, <2>2, <2>3, ModFacts DEF size
<1>3. shardRangeSize(<<s>>) = 1
  <2>1. Len(<<s>>) = 1
    OBVIOUS
  <2> QED
    BY <2>1 DEF shardRangeSize
<1> QED
  BY <1>2, <1>3
=============================================================================
