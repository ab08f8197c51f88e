----------------------------- MODULE BaseAlloc -----------------------------
(***************************************************************************)
(* dmalloc: the base allocator of basealloc.cc, which keeps freed blocks   *)
(* for reuse instead of giving them back, under the wrappers of dmalloc.cc *)
(* and dbg_allocator.  The C library's heap below it and the program above *)
(* it are external.  alloc_random is any choice.                           *)
(***************************************************************************)
EXTENDS Integers, Sequences

CONSTANTS
    Addresses,     \* addresses the C library may return; NULL is not one
    NULL,
    Counts,        \* what a program asks for: elements and element sizes
    SizeModulus    \* of a size_t

ASSUME AllocAssumption ==
    NULL \notin Addresses /\ SizeModulus \in Nat \ {0, 1} /\ Counts \subseteq 0..(SizeModulus - 1)

VARIABLES
    allocs,      \* sizes of active blocks, by address
    frees,       \* blocks freed by the program: <<address, size>>
    disabled,
    heap,        \* sizes of the blocks the C library has handed out
    held,        \* what the program holds: size its wrapper asked base_malloc for, bytes the
                 \* program itself asked for, and whether it is from the tables
    state        \* "running", "exited", or "corrupt" after a free() of a dead block

tables == <<allocs, frees, disabled>>
vars == <<tables, heap, held, state>>

Sizes == 0..(SizeModulus - 1)
Without(f, a) == [x \in DOMAIN f \ {a} |-> f[x]]
With(f, a, v) == [x \in DOMAIN f \cup {a} |-> IF x = a THEN v ELSE f[x]]

-----------------------------------------------------------------------------
(* The C library.                                                          *)

\* malloc(sz) returned p: a block nobody has, or nothing.
malloc(sz, p) ==
    \/ p = NULL /\ UNCHANGED heap
    \/ p \in Addresses \ DOMAIN heap /\ heap' = With(heap, p, sz)

free(p) ==
    IF p \in DOMAIN heap \cup {NULL} THEN heap' = Without(heap, p) /\ UNCHANGED state
    ELSE state' = "corrupt" /\ UNCHANGED heap

-----------------------------------------------------------------------------
(* basealloc.cc                                                            *)

\* The i-th freed block is taken; the last one moves into its place.
Taken_popped(i) == [k \in 1..(Len(frees) - 1) |-> frees[k]]
Taken(i) == [k \in 1..(Len(frees) - 1) |-> IF k = i THEN frees[Len(frees)] ELSE frees[k]]

fits_nearly(f, sz) == f[2] + 1 >= sz
fits(f, sz) == f[2] >= sz

\* base_malloc(sz) returned p.  A block that is reused is recorded with the size asked for.
base_malloc(sz, p) ==
    IF disabled THEN malloc(sz, p) /\ UNCHANGED <<allocs, frees>>
    ELSE /\ \/ \E i \in 1..Len(frees) :
                 /\ fits(frees[i], sz) /\ p = frees[i][1]
                 /\ frees' = Taken(i) /\ UNCHANGED heap
            \/ malloc(IF sz = 0 THEN 1 ELSE sz, p) /\ UNCHANGED frees
         /\ allocs' = IF p = NULL THEN allocs ELSE With(allocs, p, sz)

\* An address that is not in allocs is ignored.
base_free(p) ==
    IF disabled \/ p = NULL THEN free(p) /\ UNCHANGED <<allocs, frees>>
    ELSE /\ IF p \in DOMAIN allocs
            THEN frees' = Append(frees, <<p, allocs[p]>>) /\ allocs' = Without(allocs, p)
            ELSE UNCHANGED <<allocs, frees>>
         /\ UNCHANGED <<heap, state>>

base_allocator_disable(d) ==
    /\ state = "running" /\ disabled' = d
    /\ UNCHANGED <<allocs, frees, heap, held, state>>

FreedAddresses == {frees[i][1] : i \in DOMAIN frees}

\* The program exits: every freed block goes back to the C library, one after the other.
base_allocator_atexit ==
    /\ state = "running"
    /\ LET sound == /\ FreedAddresses \subseteq DOMAIN heap
                    /\ \A i, j \in DOMAIN frees : frees[i][1] = frees[j][1] => i = j
       IN  state' = IF sound THEN "exited" ELSE "corrupt"
    /\ heap' = [a \in DOMAIN heap \ FreedAddresses |-> heap[a]]
    /\ UNCHANGED <<tables, held>>

-----------------------------------------------------------------------------
(* dmalloc.cc and dmalloc.hh, called by the program.                       *)

Receive(p, sz, bytes) ==
    held' = IF p = NULL THEN held
            ELSE With(held, p, [size |-> sz, bytes |-> bytes, listed |-> ~disabled])

\* What dmalloc is asked for on behalf of a program that wants this many bytes.
dmalloc_for(sz, bytes) ==
    /\ state = "running"
    /\ \E p \in Addresses \cup {NULL} : base_malloc(sz, p) /\ Receive(p, sz, bytes)
    /\ UNCHANGED <<disabled, state>>

dmalloc(sz) == dmalloc_for(sz, sz)

\* The product wraps; the block is zeroed up to it.
dcalloc(nmemb, sz) == dmalloc_for((nmemb * sz) % SizeModulus, nmemb * sz)

\* dbg_allocator: n objects of this size.
allocate(n, sizeof) == dmalloc_for((n * sizeof) % SizeModulus, n * sizeof)

\* The program frees what it holds, or nothing, or, with the tables on, something it does
\* not hold, as the tests of invalid and double frees do.  A block from the tables is not
\* freed while they are off.
dfree(p) ==
    /\ state = "running"
    /\ \/ p = NULL \/ ~disabled
       \/ p \in DOMAIN held /\ ~held[p].listed
    /\ base_free(p)
    /\ held' = Without(held, p)
    /\ UNCHANGED disabled

deallocate(p) == dfree(p)

-----------------------------------------------------------------------------

Empty == [a \in {} |-> 0]

Init == /\ allocs = Empty /\ frees = <<>> /\ disabled = FALSE
        /\ heap = Empty /\ held = Empty /\ state = "running"

Next == \/ \E sz \in Counts : dmalloc(sz)
        \/ \E n, sz \in Counts : dcalloc(n, sz) \/ allocate(n, sz)
        \/ \E p \in Addresses \cup {NULL} : dfree(p) \/ deallocate(p)
        \/ \E d \in BOOLEAN : base_allocator_disable(d)
        \/ base_allocator_atexit

Spec == Init /\ [][Next]_vars

-----------------------------------------------------------------------------
(* Properties.                                                             *)

TypeOK ==
    /\ DOMAIN allocs \subseteq Addresses /\ \A a \in DOMAIN allocs : allocs[a] \in Sizes
    /\ frees \in Seq(Addresses \X Sizes) /\ disabled \in BOOLEAN
    /\ DOMAIN heap \subseteq Addresses /\ \A a \in DOMAIN heap : heap[a] \in Sizes
    /\ DOMAIN held \subseteq Addresses
    /\ \A a \in DOMAIN held :
         held[a].size \in Sizes /\ held[a].bytes \in Nat /\ held[a].listed \in BOOLEAN
    /\ state \in {"running", "exited", "corrupt"}

\* However often blocks are freed and reused for smaller requests, and whatever invalid
\* frees come between: a block the program holds is alive, has room for what the program
\* asked for, and is not on the free list, and free() never gets a dead block.  For dcalloc
\* and dbg_allocator the room is promised only of a product that fits a size_t: one that
\* wraps comes back as the smaller block base_malloc was asked for, where test014 asserts
\* that there is none.
BlocksSound ==
    /\ state # "corrupt"
    /\ \A a \in DOMAIN held :
         /\ a \in DOMAIN heap /\ heap[a] >= held[a].size
         /\ held[a].bytes < SizeModulus => heap[a] >= held[a].bytes
         /\ state = "running" => a \notin FreedAddresses

\* The blocks base_malloc has taken from the C library and not lost sight of.
Listed == DOMAIN allocs \cup FreedAddresses

\* basealloc.cc's promise "guaranteed not to overwrite freed allocations": from the call that
\* gave it out on, a block of the tables stays in one of them, and stays the block it is in
\* the C library's heap: whatever the program frees, reuses, frees wrongly or switches off in
\* between, a freed block does not go back to the C library, which would write its own links
\* into it, nor is it lost to the exit handler, which is the only step that gives it back.
FreedKept ==
    [][~base_allocator_atexit =>
         \A a \in Listed : /\ a \in Listed' /\ a \in DOMAIN heap /\ a \in DOMAIN heap'
                           /\ heap'[a] = heap[a]]_vars

\* The tables: what is listed is what the program holds of it, recorded with the size it
\* asked for, never more than the block has; a freed block is listed once.
TablesSound ==
    state = "running" =>
      /\ \A a \in DOMAIN held : held[a].listed <=> a \in DOMAIN allocs
      /\ \A a \in DOMAIN allocs : a \in DOMAIN held /\ allocs[a] = held[a].size
      /\ \A i \in DOMAIN frees : /\ frees[i][1] \in DOMAIN heap \ DOMAIN held
                                 /\ frees[i][2] <= heap[frees[i][1]]
      /\ \A i, j \in DOMAIN frees : frees[i][1] = frees[j][1] => i = j
=============================================================================
