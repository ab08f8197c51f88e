--------------------------- MODULE BaseAllocProofs ---------------------------
(***************************************************************************)
(* The base allocator is sound for any addresses, sizes and sequence of    *)
(* calls.  The inductive invariant adds to BlocksSound the agreement of    *)
(* the two tables with what the program holds and with the C library's     *)
(* heap: a freed block is reused by its recorded size, so the proof needs  *)
(* that no recorded size exceeds the block's.                              *)
(***************************************************************************)
EXTENDS BaseAlloc, TLAPS

Inv == TypeOK /\ BlocksSound /\ TablesSound

\* Without drops one address.
LEMMA WithoutFacts ==
    ASSUME NEW f, NEW a
    PROVE  /\ DOMAIN Without(f, a) = DOMAIN f \ {a}
           /\ \A x \in DOMAIN f : x # a => Without(f, a)[x] = f[x]
BY DEF Without

\* Taking the i-th freed block leaves all the others, each once.
LEMMA TakenFacts ==
    ASSUME TypeOK, TablesSound, state = "running", NEW i \in 1..Len(frees)
    PROVE  /\ Taken(i) \in Seq(Addresses \X Sizes)
           /\ \A k \in DOMAIN Taken(i) :
                /\ Taken(i)[k][1] # frees[i][1]
                /\ \E j \in DOMAIN frees : j # i /\ Taken(i)[k] = frees[j]
           /\ \A k, l \in DOMAIN Taken(i) : Taken(i)[k][1] = Taken(i)[l][1] => k = l
<1> DEFINE n == Len(frees)
           src(k) == IF k = i THEN n ELSE k
<1>1. frees \in Seq(Addresses \X Sizes) /\ n \in Nat /\ DOMAIN frees = 1..n
  BY DEF TypeOK
<1>2. DOMAIN Taken(i) = 1..(n - 1) /\ \A k \in 1..(n - 1) : Taken(i)[k] = frees[src(k)]
  BY DEF Taken
<1>3. \A k \in 1..(n - 1) : src(k) \in 1..n /\ src(k) # i
  <2>1. i \in 1..n
    OBVIOUS
  <2> SUFFICES ASSUME NEW k \in 1..(n - 1) PROVE src(k) \in 1..n /\ src(k) # i
    OBVIOUS
  <2>2. n \in Nat
    BY <1>1
  <2>3. CASE k = i
    <3>1. src(k) = n
      BY <2>3
    <3> HIDE DEF src, n
    <3> QED
      BY <2>1, <2>2, <2>3, <3>1
  <2>4. CASE k # i
    BY <1>1, <2>4
  <2> QED
    BY <2>3, <2>4
<1>4. \A k, l \in 1..(n - 1) : src(k) = src(l) => k = l
  BY <1>1
<1>5. \A k, l \in DOMAIN frees : frees[k][1] = frees[l][1] => k = l
  BY DEF TablesSound
<1>6. \A k \in 1..n : frees[k] \in Addresses \X Sizes
  BY <1>1
<1>7. Taken(i) \in Seq(Addresses \X Sizes)
  <2>1. Taken(i) \in [1..(n - 1) -> Addresses \X Sizes]
    BY <1>2, <1>3, <1>6 DEF Taken
  <2>2. n - 1 \in Nat
    BY <1>1
  <2> QED
    BY <2>1, <2>2
<1>8. ASSUME NEW k \in DOMAIN Taken(i)
      PROVE  /\ Taken(i)[k][1] # frees[i][1]
             /\ \E j \in DOMAIN frees : j # i /\ Taken(i)[k] = frees[j]
  <2>1. Taken(i)[k] = frees[src(k)] /\ src(k) \in 1..n /\ src(k) # i
    BY <1>2, <1>3
  <2> HIDE DEF src
  <2> QED
    BY <2>1, <1>1, <1>5
<1>9. ASSUME NEW k \in DOMAIN Taken(i), NEW l \in DOMAIN Taken(i),
             Taken(i)[k][1] = Taken(i)[l][1]
      PROVE  k = l
  <2>1. /\ Taken(i)[k] = frees[src(k)] /\ src(k) \in 1..n
        /\ Taken(i)[l] = frees[src(l)] /\ src(l) \in 1..n
    BY <1>2, <1>3
  <2>2. src(k) = src(l)
    <3> HIDE DEF src
    <3> QED
      BY <2>1, <1>1, <1>5, <1>9
  <2> QED
    BY <2>2, <1>2, <1>4
<1> QED
  BY <1>7, <1>8, <1>9

-----------------------------------------------------------------------------

LEMMA InitInv == Init => Inv
<1> SUFFICES ASSUME Init PROVE Inv
  OBVIOUS
<1>1. DOMAIN allocs = {} /\ DOMAIN heap = {} /\ DOMAIN held = {} /\ DOMAIN frees = {}
  BY DEF Init, Empty
<1>2. frees = <<>> /\ disabled = FALSE /\ state = "running"
  BY DEF Init
<1>3. TypeOK
  <2>1. frees \in Seq(Addresses \X Sizes)
    BY <1>2
  <2> QED
    BY <1>1, <1>2, <2>1, Zenon DEF TypeOK
<1>4. BlocksSound
  BY <1>1, <1>2 DEF BlocksSound
<1>5. TablesSound
  BY <1>1, <1>2 DEF TablesSound
<1> QED
  BY <1>3, <1>4, <1>5 DEF Inv

\* A block fresh from the C library, recorded or not.
LEMMA FreshInv ==
    ASSUME Inv, state = "running", UNCHANGED <<disabled, state, frees>>,
           NEW p, NEW sz \in Sizes, NEW bytes \in Nat, NEW need \in Sizes, need >= sz,
           bytes < SizeModulus => sz = bytes, malloc(need, p), Receive(p, sz, bytes),
           allocs' = IF p = NULL \/ disabled THEN allocs ELSE With(allocs, p, sz)
    PROVE  Inv'
<1>1. CASE p = NULL
  <2>1. UNCHANGED <<heap, held, allocs>>
    BY <1>1, AllocAssumption DEF malloc, Receive
  <2> QED
    BY <2>1 DEF Inv, TypeOK, BlocksSound, TablesSound, FreedAddresses
<1>2. CASE p # NULL
  <2>1. p \in Addresses \ DOMAIN heap /\ heap' = With(heap, p, need)
    BY <1>2 DEF malloc
  <2>2. held' = With(held, p, [size |-> sz, bytes |-> bytes, listed |-> ~disabled])
    BY <1>2 DEF Receive
  <2>3. /\ DOMAIN heap' = DOMAIN heap \cup {p} /\ heap'[p] = need
        /\ \A x \in DOMAIN heap : heap'[x] = heap[x]
    BY <2>1 DEF With
  <2>4. /\ DOMAIN held' = DOMAIN held \cup {p}
        /\ held'[p].size = sz /\ held'[p].bytes = bytes /\ held'[p].listed = ~disabled
        /\ \A x \in DOMAIN held : x # p => held'[x] = held[x]
    BY <2>2 DEF With
  <2>5. p \notin DOMAIN held /\ p \notin DOMAIN allocs /\ p \notin FreedAddresses
    BY <2>1 DEF Inv, BlocksSound, TablesSound, FreedAddresses
  <2>6. /\ DOMAIN allocs' = DOMAIN allocs \cup (IF disabled THEN {} ELSE {p})
        /\ ~disabled => allocs'[p] = sz
        /\ \A x \in DOMAIN allocs : x # p => allocs'[x] = allocs[x]
    BY <1>2 DEF With
  <2>7. disabled \in BOOLEAN
    BY DEF Inv, TypeOK
  <2>8. TypeOK'
    <3>1. \A a \in DOMAIN allocs' : a \in Addresses /\ allocs'[a] \in Sizes
      BY <2>1, <2>5, <2>6 DEF Inv, TypeOK
    <3>2. \A a \in DOMAIN heap' : a \in Addresses /\ heap'[a] \in Sizes
      BY <2>1, <2>3 DEF Inv, TypeOK
    <3>3. \A a \in DOMAIN held' : a \in Addresses /\ held'[a].size \in Sizes
                                  /\ held'[a].bytes \in Nat /\ held'[a].listed \in BOOLEAN
      BY <2>1, <2>4, <2>5, <2>7 DEF Inv, TypeOK
    <3> QED
      BY <3>1, <3>2, <3>3 DEF Inv, TypeOK
  <2>9. BlocksSound'
    BY <2>3, <2>4, <2>5 DEF Inv, BlocksSound, FreedAddresses
  <2>10. TablesSound'
    <3>1. \A a \in DOMAIN held' : held'[a].listed <=> a \in DOMAIN allocs'
      BY <2>4, <2>5, <2>6, <2>7 DEF Inv, TablesSound
    <3>2. \A a \in DOMAIN allocs' : a \in DOMAIN held' /\ allocs'[a] = held'[a].size
      BY <2>4, <2>5, <2>6 DEF Inv, TablesSound
    <3>3. \A i \in DOMAIN frees : /\ frees[i][1] \in DOMAIN heap' \ DOMAIN held'
                                  /\ frees[i][2] <= heap'[frees[i][1]]
      BY <2>3, <2>4, <2>5 DEF Inv, TablesSound, FreedAddresses
    <3> QED
      BY <3>1, <3>2, <3>3 DEF Inv, TablesSound
  <2> QED
    BY <2>8, <2>9, <2>10 DEF Inv
<1> QED
  BY <1>1, <1>2

\* A freed block is given out again.
LEMMA ReuseInv ==
    ASSUME Inv, state = "running", ~disabled, UNCHANGED <<disabled, state, heap>>,
           NEW sz \in Sizes, NEW bytes \in Nat, NEW i \in 1..Len(frees), fits(frees[i], sz),
           bytes < SizeModulus => sz = bytes,
           frees' = Taken(i), Receive(frees[i][1], sz, bytes),
           allocs' = With(allocs, frees[i][1], sz)
    PROVE  Inv'
<1> DEFINE p == frees[i][1]
<1>1. /\ Taken(i) \in Seq(Addresses \X Sizes)
      /\ \A k \in DOMAIN Taken(i) :
           /\ Taken(i)[k][1] # p
           /\ \E j \in DOMAIN frees : j # i /\ Taken(i)[k] = frees[j]
      /\ \A k, l \in DOMAIN Taken(i) : Taken(i)[k][1] = Taken(i)[l][1] => k = l
  BY TakenFacts DEF Inv
<1>2. /\ i \in DOMAIN frees /\ p \in Addresses /\ frees[i][2] \in Sizes
  BY DEF Inv, TypeOK
<1>3. /\ p \in DOMAIN heap /\ p \notin DOMAIN held /\ frees[i][2] <= heap[p]
  BY <1>2 DEF Inv, TablesSound
<1>4. p # NULL /\ p \notin DOMAIN allocs /\ heap[p] \in Sizes
  BY <1>2, <1>3, AllocAssumption DEF Inv, TablesSound, TypeOK
<1>5. heap[p] >= sz
  BY <1>2, <1>3, <1>4 DEF fits, Sizes
<1>6. /\ DOMAIN held' = DOMAIN held \cup {p}
      /\ held'[p].size = sz /\ held'[p].bytes = bytes /\ held'[p].listed = TRUE
      /\ \A x \in DOMAIN held : x # p => held'[x] = held[x]
  <2>1. held' = With(held, p, [size |-> sz, bytes |-> bytes, listed |-> ~disabled])
    BY <1>4 DEF Receive
  <2> QED
    BY <2>1 DEF With
<1>7. /\ DOMAIN allocs' = DOMAIN allocs \cup {p} /\ allocs'[p] = sz
      /\ \A x \in DOMAIN allocs : x # p => allocs'[x] = allocs[x]
  BY DEF With
<1> HIDE DEF p
<1>8. TypeOK'
  BY <1>1, <1>2, <1>3, <1>4, <1>6, <1>7 DEF Inv, TypeOK
<1>9. BlocksSound'
  <2>1. \A a \in DOMAIN held' :
          /\ a \in DOMAIN heap /\ heap[a] >= held'[a].size
          /\ held'[a].bytes < SizeModulus => heap[a] >= held'[a].bytes
    BY <1>3, <1>5, <1>6 DEF Inv, BlocksSound
  <2>2. \A k \in DOMAIN frees' : frees'[k][1] \notin DOMAIN held'
    BY <1>1, <1>6 DEF Inv, TablesSound
  <2> QED
    BY <2>1, <2>2 DEF BlocksSound, FreedAddresses
<1>10. TablesSound'
  <2>1. \A a \in DOMAIN held' : held'[a].listed <=> a \in DOMAIN allocs'
    BY <1>3, <1>6, <1>7 DEF Inv, TablesSound
  <2>2. \A a \in DOMAIN allocs' : a \in DOMAIN held' /\ allocs'[a] = held'[a].size
    BY <1>3, <1>4, <1>6, <1>7 DEF Inv, TablesSound
  <2>3. \A k \in DOMAIN frees' : /\ frees'[k][1] \in DOMAIN heap \ DOMAIN held'
                                 /\ frees'[k][2] <= heap[frees'[k][1]]
    BY <1>1, <1>6 DEF Inv, TablesSound
  <2> QED
    BY <1>1, <2>1, <2>2, <2>3 DEF TablesSound
<1> QED
  BY <1>8, <1>9, <1>10 DEF Inv

LEMMA MallocInv ==
    ASSUME Inv, NEW sz \in Sizes, NEW bytes \in Nat, bytes < SizeModulus => sz = bytes,
           dmalloc_for(sz, bytes)
    PROVE  Inv'
<1>1. PICK p \in Addresses \cup {NULL} : base_malloc(sz, p) /\ Receive(p, sz, bytes)
  BY DEF dmalloc_for
<1>2. state = "running" /\ UNCHANGED <<disabled, state>> /\ disabled \in BOOLEAN
  BY DEF dmalloc_for, Inv, TypeOK
<1>3. CASE disabled
  <2>1. malloc(sz, p) /\ UNCHANGED <<allocs, frees>>
    BY <1>1, <1>3 DEF base_malloc
  <2>2. sz >= sz
    BY DEF Sizes
  <2> QED
    BY <1>1, <1>2, <1>3, <2>1, <2>2, FreshInv
<1>4. CASE ~disabled
  <2>1. allocs' = IF p = NULL THEN allocs ELSE With(allocs, p, sz)
    BY <1>1, <1>4 DEF base_malloc
  <2>2. CASE malloc(IF sz = 0 THEN 1 ELSE sz, p) /\ UNCHANGED frees
    <3>1. PICK need : need = IF sz = 0 THEN 1 ELSE sz
      OBVIOUS
    <3>2. need \in Sizes /\ need >= sz
      BY <3>1, AllocAssumption DEF Sizes
    <3>3. malloc(need, p) /\ UNCHANGED <<disabled, state, frees>>
      BY <1>2, <2>2, <3>1
    <3>4. allocs' = IF p = NULL \/ disabled THEN allocs ELSE With(allocs, p, sz)
      BY <1>4, <2>1
    <3> QED
      BY <1>1, <1>2, <3>2, <3>3, <3>4, FreshInv
  <2>3. CASE \E i \in 1..Len(frees) : /\ fits(frees[i], sz) /\ p = frees[i][1]
                                      /\ frees' = Taken(i) /\ UNCHANGED heap
    <3>1. PICK i \in 1..Len(frees) : /\ fits(frees[i], sz) /\ p = frees[i][1]
                                     /\ frees' = Taken(i) /\ UNCHANGED heap
      BY <2>3
    <3>2. frees[i] \in Addresses \X Sizes
      BY DEF Inv, TypeOK
    <3>3. p # NULL
      BY <3>1, <3>2, AllocAssumption
    <3> QED
      BY <1>1, <1>2, <1>4, <2>1, <3>1, <3>3, ReuseInv
  <2> QED
    BY <1>1, <1>4, <2>2, <2>3 DEF base_malloc
<1> QED
  BY <1>2, <1>3, <1>4

LEMMA FreeInv ==
    ASSUME Inv, NEW p \in Addresses \cup {NULL}, dfree(p)
    PROVE  Inv'
<1>1. /\ state = "running" /\ UNCHANGED disabled /\ base_free(p)
      /\ p = NULL \/ ~disabled \/ (p \in DOMAIN held /\ ~held[p].listed)
      /\ held' = Without(held, p)
  BY DEF dfree
<1>2. /\ DOMAIN held' = DOMAIN held \ {p}
      /\ \A x \in DOMAIN held : x # p => held'[x] = held[x]
  BY <1>1, WithoutFacts
<1>3. NULL \notin DOMAIN held /\ NULL \notin DOMAIN heap /\ NULL \notin DOMAIN allocs
  BY AllocAssumption DEF Inv, TypeOK
<1>4. CASE disabled \/ p = NULL
  <2>1. free(p) /\ UNCHANGED <<allocs, frees>>
    BY <1>1, <1>4 DEF base_free
  <2>2. p \in DOMAIN heap \cup {NULL} /\ p \notin DOMAIN allocs /\ p \notin FreedAddresses
    <3>1. CASE p = NULL
      BY <3>1, <1>1, <1>3 DEF Inv, TablesSound, FreedAddresses
    <3>2. CASE p # NULL
      <4>1. p \in DOMAIN held /\ ~held[p].listed
        BY <1>1, <1>4, <3>2
      <4> QED
        BY <4>1, <1>1 DEF Inv, BlocksSound, TablesSound
    <3> QED
      BY <3>1, <3>2
  <2>3. heap' = Without(heap, p) /\ UNCHANGED state
    BY <2>1, <2>2 DEF free
  <2>4. /\ DOMAIN heap' = DOMAIN heap \ {p}
        /\ \A x \in DOMAIN heap : x # p => heap'[x] = heap[x]
    BY <2>3, WithoutFacts
  <2>5. TypeOK'
    BY <1>1, <1>2, <2>1, <2>3, <2>4 DEF Inv, TypeOK
  <2>6. BlocksSound'
    BY <1>1, <1>2, <2>1, <2>3, <2>4 DEF Inv, BlocksSound, FreedAddresses
  <2>7. TablesSound'
    BY <1>1, <1>2, <2>1, <2>2, <2>3, <2>4 DEF Inv, TablesSound, FreedAddresses
  <2> QED
    BY <2>5, <2>6, <2>7 DEF Inv
<1>5. CASE ~disabled /\ p # NULL /\ p \notin DOMAIN allocs
  <2>1. UNCHANGED <<allocs, frees, heap, state>>
    BY <1>1, <1>5 DEF base_free
  <2>2. TypeOK'
    BY <1>1, <1>2, <2>1 DEF Inv, TypeOK
  <2>3. BlocksSound'
    BY <1>1, <1>2, <2>1 DEF Inv, BlocksSound, FreedAddresses
  <2>4. TablesSound'
    BY <1>1, <1>2, <1>5, <2>1 DEF Inv, TablesSound
  <2> QED
    BY <2>2, <2>3, <2>4 DEF Inv
<1>6. CASE ~disabled /\ p # NULL /\ p \in DOMAIN allocs
  <2>1. /\ frees' = Append(frees, <<p, allocs[p]>>) /\ allocs' = Without(allocs, p)
        /\ UNCHANGED <<heap, state>>
    BY <1>1, <1>6 DEF base_free
  <2>2. /\ DOMAIN allocs' = DOMAIN allocs \ {p}
        /\ \A x \in DOMAIN allocs : x # p => allocs'[x] = allocs[x]
    BY <2>1, WithoutFacts
  <2>3. /\ p \in Addresses /\ allocs[p] \in Sizes
        /\ p \in DOMAIN held /\ allocs[p] = held[p].size
    BY <1>1, <1>6 DEF Inv, TypeOK, TablesSound
  <2>4. p \in DOMAIN heap /\ heap[p] \in Sizes /\ heap[p] >= allocs[p] /\ p \notin FreedAddresses
    BY <1>1, <2>3 DEF Inv, BlocksSound, TypeOK
  <2>5. /\ frees \in Seq(Addresses \X Sizes) /\ frees' \in Seq(Addresses \X Sizes)
        /\ DOMAIN frees' = DOMAIN frees \cup {Len(frees) + 1}
        /\ Len(frees) + 1 \notin DOMAIN frees
        /\ frees'[Len(frees) + 1] = <<p, allocs[p]>>
        /\ \A i \in DOMAIN frees : frees'[i] = frees[i]
    BY <2>1, <2>3 DEF Inv, TypeOK
  <2>6. TypeOK'
    BY <1>1, <1>2, <2>1, <2>2, <2>5 DEF Inv, TypeOK
  <2>7. \A i \in DOMAIN frees' : frees'[i][1] = p \/ \E j \in DOMAIN frees : frees'[i] = frees[j]
    BY <2>5
  <2>8. BlocksSound'
    BY <1>1, <1>2, <2>1, <2>7 DEF Inv, BlocksSound, FreedAddresses
  <2>9. TablesSound'
    <3>1. \A i \in DOMAIN frees' : /\ frees'[i][1] \in DOMAIN heap \ DOMAIN held'
                                   /\ frees'[i][2] <= heap[frees'[i][1]]
      <4> TAKE i \in DOMAIN frees'
      <4>1. CASE i = Len(frees) + 1
        <5>1. frees'[i][1] = p /\ frees'[i][2] = allocs[p]
          BY <4>1, <2>5
        <5> QED
          BY <5>1, <1>2, <2>3, <2>4 DEF Sizes
      <4>2. CASE i \in DOMAIN frees
        BY <4>2, <1>1, <1>2, <2>5 DEF Inv, TablesSound
      <4> QED
        BY <4>1, <4>2, <2>5
    <3>2. \A i, j \in DOMAIN frees' : frees'[i][1] = frees'[j][1] => i = j
      <4>1. \A i \in DOMAIN frees : frees'[i][1] # p /\ frees'[i] = frees[i]
        BY <2>4, <2>5 DEF FreedAddresses
      <4>2. frees'[Len(frees) + 1][1] = p
        BY <2>5
      <4>3. \A i, j \in DOMAIN frees : frees[i][1] = frees[j][1] => i = j
        BY <1>1 DEF Inv, TablesSound
      <4> QED
        BY <4>1, <4>2, <4>3, <2>5
    <3>3. \A a \in DOMAIN held' : held'[a].listed <=> a \in DOMAIN allocs'
      BY <1>1, <1>2, <2>2 DEF Inv, TablesSound
    <3>4. \A a \in DOMAIN allocs' : a \in DOMAIN held' /\ allocs'[a] = held'[a].size
      BY <1>1, <1>2, <2>2 DEF Inv, TablesSound
    <3> QED
      BY <2>1, <3>1, <3>2, <3>3, <3>4 DEF TablesSound
  <2> QED
    BY <2>6, <2>8, <2>9 DEF Inv
<1> QED
  BY <1>4, <1>5, <1>6 DEF Inv, TypeOK

LEMMA ExitInv ==
    ASSUME Inv, base_allocator_atexit
    PROVE  Inv'
<1>1. /\ FreedAddresses \subseteq DOMAIN heap
      /\ \A i, j \in DOMAIN frees : frees[i][1] = frees[j][1] => i = j
  BY DEF base_allocator_atexit, Inv, TablesSound, FreedAddresses
<1>2. state' = "exited" /\ UNCHANGED <<allocs, frees, disabled, held>>
  BY <1>1 DEF base_allocator_atexit, tables
<1>3. /\ DOMAIN heap' = DOMAIN heap \ FreedAddresses
      /\ \A a \in DOMAIN heap' : heap'[a] = heap[a]
  BY DEF base_allocator_atexit
<1>4. \A a \in DOMAIN held : a \in DOMAIN heap /\ a \notin FreedAddresses
  BY DEF base_allocator_atexit, Inv, BlocksSound
<1> QED
  BY <1>2, <1>3, <1>4 DEF Inv, TypeOK, BlocksSound, TablesSound

LEMMA NextInv ==
    ASSUME Inv, [Next]_vars
    PROVE  Inv'
<1> DEFINE Fits(k, sz) == sz \in Sizes /\ k \in Nat /\ (k < SizeModulus => sz = k)
<1>1. /\ \A n \in Counts : Fits(n, n)
      /\ \A n, sz \in Counts : Fits(n * sz, (n * sz) % SizeModulus)
  <2>1. \A k \in Nat : Fits(k, k % SizeModulus)
    BY AllocAssumption DEF Sizes
  <2>2. \A n, sz \in Counts : n \in Nat /\ n * sz \in Nat
    BY AllocAssumption
  <2>3. \A n \in Counts : Fits(n, n)
    BY AllocAssumption DEF Sizes
  <2> QED
    BY <2>1, <2>2, <2>3
<1>2. ASSUME NEW sz \in Counts, dmalloc(sz) PROVE Inv'
  BY <1>1, <1>2, MallocInv DEF dmalloc
<1>3. ASSUME NEW n \in Counts, NEW sz \in Counts, dcalloc(n, sz) \/ allocate(n, sz) PROVE Inv'
  BY <1>1, <1>3, MallocInv DEF dcalloc, allocate
<1>4. ASSUME NEW p \in Addresses \cup {NULL}, dfree(p) \/ deallocate(p) PROVE Inv'
  BY <1>4, FreeInv DEF deallocate
<1>5. ASSUME NEW d \in BOOLEAN, base_allocator_disable(d) PROVE Inv'
  BY <1>5 DEF base_allocator_disable, Inv, TypeOK, BlocksSound, TablesSound, FreedAddresses
<1>6. CASE base_allocator_atexit
  BY <1>6, ExitInv
<1>7. CASE UNCHANGED vars
  BY <1>7 DEF vars, tables, Inv, TypeOK, BlocksSound, TablesSound, FreedAddresses
<1> QED
  BY <1>2, <1>3, <1>4, <1>5, <1>6, <1>7 DEF Next

-----------------------------------------------------------------------------

\* Blocks are sound whatever the program asks for, frees and frees wrongly, for any set of
\* addresses and sizes: base_malloc and base_free never hand out a block that is dead, too
\* small or free, nor give free() a dead one.
THEOREM AllocatorSound == Spec => []BlocksSound
<1>1. Inv => BlocksSound
  BY DEF Inv
<1> QED
  BY <1>1, InitInv, NextInv, PTL DEF Spec

\* allocs lists what the program holds, and no recorded size exceeds the block's, although
\* base_malloc records a reused block with the size asked for.
THEOREM TablesAgree == Spec => []TablesSound
<1>1. Inv => TablesSound
  BY DEF Inv
<1> QED
  BY <1>1, InitInv, NextInv, PTL DEF Spec

\* What FreedKept says of one step and one block.
StaysListed(a) == /\ a \in Listed' /\ a \in DOMAIN heap /\ a \in DOMAIN heap'
                  /\ heap'[a] = heap[a]

\* A listed block is alive in the C library's heap.
LEMMA ListedAlive ==
    ASSUME Inv, state = "running", NEW a \in Listed
    PROVE  a \in DOMAIN heap
BY DEF Listed, FreedAddresses, Inv, BlocksSound, TablesSound

\* base_malloc loses no listed block: the place of the one it takes is filled with the last
\* one, and malloc returns an address nobody has.
LEMMA MallocKeeps ==
    ASSUME Inv, state = "running", NEW sz, NEW p, base_malloc(sz, p), NEW a \in Listed
    PROVE  StaysListed(a)
<1>1. a \in DOMAIN heap
  BY ListedAlive
<1>2. ASSUME NEW n, malloc(n, p) PROVE a \in DOMAIN heap' /\ heap'[a] = heap[a]
  BY <1>1, <1>2 DEF malloc, With
<1>3. a \in DOMAIN heap' /\ heap'[a] = heap[a]
  BY <1>1, <1>2 DEF base_malloc
<1>4. a \in DOMAIN allocs \/ \E k \in DOMAIN frees : frees[k][1] = a
  BY DEF Listed, FreedAddresses
<1>5. DOMAIN allocs \subseteq DOMAIN allocs'
  BY DEF base_malloc, With
<1>6. ASSUME NEW k \in DOMAIN frees, frees[k][1] = a PROVE a \in Listed'
  <2>1. CASE UNCHANGED frees
    BY <1>6, <2>1 DEF Listed, FreedAddresses
  <2>2. ASSUME NEW i \in 1..Len(frees), p = frees[i][1], frees' = Taken(i), ~disabled
        PROVE  a \in Listed'
    <3>1. /\ frees \in Seq(Addresses \X Sizes) /\ Len(frees) \in Nat
          /\ k \in 1..Len(frees) /\ i \in 1..Len(frees)
      BY <2>2 DEF Inv, TypeOK
    <3>2. CASE k = i
      <4>1. a = p /\ a # NULL
        BY <1>1, <1>6, <2>2, <3>2, AllocAssumption DEF Inv, TypeOK
      <4>2. allocs' = With(allocs, p, sz)
        BY <2>2, <4>1 DEF base_malloc
      <4> QED
        BY <4>1, <4>2 DEF With, Listed
    <3>3. CASE k # i
      <4>1. PICK l \in 1..(Len(frees) - 1) : Taken(i)[l] = frees[k]
        <5>1. CASE k = Len(frees)
          <6>1. i \in 1..(Len(frees) - 1) /\ Taken(i)[i] = frees[k]
            BY <3>1, <3>3, <5>1 DEF Taken
          <6> QED
            BY <6>1
        <5>2. CASE k # Len(frees)
          <6>1. k \in 1..(Len(frees) - 1) /\ Taken(i)[k] = frees[k]
            BY <3>1, <3>3, <5>2 DEF Taken
          <6> QED
            BY <6>1
        <5> QED
          BY <5>1, <5>2
      <4>2. l \in DOMAIN frees' /\ frees'[l][1] = a
        BY <1>6, <2>2, <4>1 DEF Taken
      <4> QED
        BY <4>2 DEF Listed, FreedAddresses
    <3> QED
      BY <3>2, <3>3
  <2> QED
    BY <2>1, <2>2 DEF base_malloc
<1> QED
  BY <1>1, <1>3, <1>4, <1>5, <1>6 DEF StaysListed, Listed

\* base_free moves a block of the tables to the free list, and free() gets none of them.
LEMMA FreeKeeps ==
    ASSUME Inv, NEW p \in Addresses \cup {NULL}, dfree(p), NEW a \in Listed
    PROVE  StaysListed(a)
<1>1. state = "running" /\ base_free(p) /\ (p = NULL \/ ~disabled \/ (p \in DOMAIN held /\ ~held[p].listed))
  BY DEF dfree
<1>2. a \in DOMAIN heap
  BY <1>1, ListedAlive
<1>3. CASE disabled \/ p = NULL
  <2>1. UNCHANGED <<allocs, frees>> /\ free(p)
    BY <1>1, <1>3 DEF base_free
  <2>2. p # a
    <3>1. CASE p = NULL
      BY <1>2, <3>1, AllocAssumption DEF Inv, TypeOK
    <3>2. CASE p # NULL
      <4>1. p \in DOMAIN held /\ ~held[p].listed
        BY <1>1, <1>3, <3>2
      <4>2. p \notin DOMAIN allocs /\ p \notin FreedAddresses
        BY <1>1, <4>1 DEF Inv, BlocksSound, TablesSound
      <4> QED
        BY <4>2 DEF Listed
    <3> QED
      BY <3>1, <3>2
  <2>3. a \in DOMAIN heap' /\ heap'[a] = heap[a]
    <3>1. CASE p \in DOMAIN heap \cup {NULL}
      <4>1. heap' = Without(heap, p)
        BY <2>1, <3>1 DEF free
      <4>2. DOMAIN heap' = DOMAIN heap \ {p} /\ \A x \in DOMAIN heap : x # p => heap'[x] = heap[x]
        BY <4>1, WithoutFacts
      <4> QED
        BY <1>2, <2>2, <4>2
    <3>2. CASE p \notin DOMAIN heap \cup {NULL}
      BY <1>2, <2>1, <3>2 DEF free
    <3> QED
      BY <3>1, <3>2
  <2> QED
    BY <1>2, <2>1, <2>3 DEF StaysListed, Listed, FreedAddresses
<1>4. CASE ~(disabled \/ p = NULL)
  <2>1. UNCHANGED heap
    BY <1>1, <1>4 DEF base_free
  <2>2. CASE p \in DOMAIN allocs
    <3>1. frees' = Append(frees, <<p, allocs[p]>>) /\ allocs' = Without(allocs, p)
      BY <1>1, <1>4, <2>2 DEF base_free
    <3>2. /\ Len(frees) + 1 \in DOMAIN frees' /\ frees'[Len(frees) + 1] = <<p, allocs[p]>>
          /\ \A i \in DOMAIN frees : i \in DOMAIN frees' /\ frees'[i] = frees[i]
      BY <3>1 DEF Inv, TypeOK
    <3>3. frees'[Len(frees) + 1][1] = p
      BY <3>2
    <3>4. p \in FreedAddresses' /\ FreedAddresses \subseteq FreedAddresses'
      BY <3>2, <3>3 DEF FreedAddresses
    <3>5. DOMAIN allocs \ {p} \subseteq DOMAIN allocs'
      BY <3>1, WithoutFacts
    <3> QED
      BY <1>2, <2>1, <3>4, <3>5 DEF StaysListed, Listed
  <2>3. CASE p \notin DOMAIN allocs
    <3>1. UNCHANGED <<allocs, frees>>
      BY <1>1, <1>4, <2>3 DEF base_free
    <3> QED
      BY <1>2, <2>1, <3>1 DEF StaysListed, Listed, FreedAddresses
  <2> QED
    BY <2>2, <2>3
<1> QED
  BY <1>3, <1>4

LEMMA StepKeeps ==
    ASSUME Inv, Next, ~base_allocator_atexit, NEW a \in Listed
    PROVE  StaysListed(a)
<1>1. ASSUME NEW sz, NEW bytes, dmalloc_for(sz, bytes) PROVE StaysListed(a)
  <2>1. state = "running" /\ \E p : base_malloc(sz, p)
    BY <1>1 DEF dmalloc_for
  <2> QED
    BY <2>1, MallocKeeps
<1>2. ASSUME NEW p \in Addresses \cup {NULL}, dfree(p) PROVE StaysListed(a)
  BY <1>2, FreeKeeps
<1>3. ASSUME NEW d, base_allocator_disable(d) PROVE StaysListed(a)
  BY <1>3, ListedAlive DEF base_allocator_disable, StaysListed, Listed, FreedAddresses
<1> QED
  BY <1>1, <1>2, <1>3 DEF Next, dmalloc, dcalloc, allocate, deallocate

\* basealloc.cc's "guaranteed not to overwrite freed allocations", for any addresses, sizes
\* and sequence of calls: a block in one of the tables stays in one of them, and alive in the
\* C library's heap, through every step but the exit handler.
THEOREM FreedBlocksKept == Spec => FreedKept
<1>1. Inv /\ [Next]_vars =>
        [~base_allocator_atexit =>
           \A a \in Listed : /\ a \in Listed' /\ a \in DOMAIN heap /\ a \in DOMAIN heap'
                             /\ heap'[a] = heap[a]]_vars
  BY StepKeeps DEF StaysListed
<1> QED
  BY <1>1, InitInv, NextInv, PTL DEF Spec, FreedKept
=============================================================================
