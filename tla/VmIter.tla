------------------------------- MODULE VmIter -------------------------------
(***************************************************************************)
(* The page table iterators of WeensyOS (weensyos/k-vmiter.cc, .hh):       *)
(* vmiter, which looks addresses up and maps them, and ptiter, which       *)
(* visits the pages of a page table in the order in which they can be      *)
(* freed.  Addresses are page numbers.  A page table page has FANOUT       *)
(* entries (512 on x86-64) and there are TOP + 1 levels (TOP is 3).        *)
(*                                                                         *)
(* One vmiter is kept from operation to operation, as in the loop          *)
(* `it += PAGESIZE', while other code maps through vmiters of its own.     *)
(* Then the page table is freed with the loop of k-vmiter.hh:76-79.        *)
(***************************************************************************)
EXTENDS Integers, FiniteSets

CONSTANTS
    FANOUT,     \* entries of a page table page
    TOP,        \* the level of the root
    NVA,        \* number of virtual pages, canonical or not
    NPAGES,     \* number of physical pages
    DataPages,  \* physical pages that get mapped
    Perms       \* permissions they are mapped with

\* Pages that an entry of level l stands for: FANOUT ^ l.
Span[l \in 0 .. TOP + 1] == IF l = 0 THEN 1 ELSE FANOUT * Span[l - 1]

ASSUME VmAssumption ==
    /\ FANOUT \in Nat /\ FANOUT % 2 = 0 /\ FANOUT > 0
    /\ TOP \in Nat /\ TOP >= 2
    /\ NVA \in Nat /\ NVA % Span[TOP + 1] = 0 /\ NVA > Span[TOP + 1]
    /\ NPAGES \in Nat /\ NPAGES > 3
    /\ DataPages \subseteq 0 .. NPAGES - 1
    /\ Perms \subseteq SUBSET {"P", "W", "U"}

VARIABLES
    mem,        \* the entries of each physical page, read as a page table
    free,       \* pages kalloc can return
    tables,     \* page table pages in use, the root aside
    it,         \* the vmiter: level_, pep_, perm_, va_
    overtaken,  \* others have mapped since `it' was last positioned
    pti,        \* the ptiter, and where its loop is
    phase       \* "map", "free", "done"

vars == <<mem, free, tables, it, overtaken, pti, phase>>

-----------------------------------------------------------------------------
Pages == 0 .. NPAGES - 1
Levels == 0 .. TOP
VAs == 0 .. NVA - 1
PWU == {"P", "W", "U"}
Bits == PWU \cup {"PS"}

\* The static tables of the kernel: kernel_pagetable[0], [1] and [2].
Root == 1
Second == 2
Third == 3

NoEntry == [pa |-> 0, perm |-> {}]
Entries == [pa : Pages, perm : SUBSET Bits]

pageindex(va, l) == (va \div Span[l]) % FANOUT

\* (va | pageoffmask(l)) + 1
After(va, l) == ((va \div Span[l] + 1) * Span[l]) % NVA

\* The two addresses are in one region of level l.
SameRegion(va, wa, l) == va \div Span[l] = wa \div Span[l]

LowEnd == Span[TOP + 1] \div 2
va_is_canonical(va) == va < LowEnd \/ va >= NVA - LowEnd
NoncanonEnd == Span[TOP + 1]

\* An entry is named by its page and index; zero_pe by ZeroSlot.
ZeroSlot == <<NPAGES, 0>>
Entry(m, slot) == IF slot = ZeroSlot THEN NoEntry ELSE m[slot[1]][slot[2]]

\* An entry that leads to a page table page: present and not PS.
IsLink(e) == "P" \in e.perm /\ "PS" \notin e.perm

-----------------------------------------------------------------------------
(* vmiter.                                                                 *)

\* Descend while the entry leads to a page table page.
down(m, i) ==
    LET W[l \in 0 .. i.level] ==
          IF l = i.level THEN i
          ELSE LET up == W[l + 1]
                   e == Entry(m, up.slot)
               IN IF up.level = l + 1 /\ IsLink(e)
                    THEN [level |-> l, perm |-> up.perm \cap e.perm, va |-> up.va,
                          slot |-> <<e.pa, pageindex(up.va, l)>>]
                    ELSE up
    IN W[0]

\* Mutant: the table is kept when only the upper region is the same.
Restarts_high(i, va) == i.level = TOP \/ ~SameRegion(i.va, va, i.level + 2)

\* real_find starts over from the root unless va has its entry in the page
\* table page that pep_ points into.
Restarts(i, va) == i.level = TOP \/ ~SameRegion(i.va, va, i.level + 1)

real_find(m, i, va) ==
    down(m, IF ~Restarts(i, va)
              THEN [i EXCEPT !.va = va, !.slot = <<i.slot[1], pageindex(va, i.level)>>]
            ELSE IF va_is_canonical(va)
              THEN [level |-> TOP, perm |-> Bits, va |-> va,
                    slot |-> <<Root, pageindex(va, TOP)>>]
            ELSE [level |-> TOP, perm |-> {}, va |-> va, slot |-> ZeroSlot])

vmiter(m, va) ==
    real_find(m, [level |-> TOP, perm |-> Bits, va |-> 0, slot |-> <<Root, 0>>], va)

\* Mutant: the range is taken to be one level larger.
last_va_wide(i) == After(i.va, i.level + 1)

last_va(i) == After(i.va, i.level)

\* perm(): nothing unless the entry is present.
perm_of(m, i) == IF "P" \in Entry(m, i.slot).perm
                   THEN Entry(m, i.slot).perm \cap i.perm ELSE {}

\* pa(), or -1.
pa_of(m, i) == IF "P" \in Entry(m, i.slot).perm
                 THEN Entry(m, i.slot).pa + (i.va % Span[i.level]) ELSE -1

\* Mutant: present regions of a higher level are skipped as well.
next_va_all(m, i) == After(i.va, i.level)

next_va(m, i) == After(i.va, IF i.level > 0 /\ perm_of(m, i) = {} THEN i.level ELSE 0)

\* try_map's assertions, which its callers see to.
MapAllowed(m, i, pa, p) ==
    /\ p \cap PWU \subseteq i.perm
    /\ i.level > 0 /\ p # {} => "P" \notin Entry(m, i.slot).perm

\* Mutant: a new page table page is linked without being cleared.
NewTable_dirty(m, slot, page) ==
    [m EXCEPT ![slot[1]][slot[2]] = [pa |-> page, perm |-> PWU]]

\* The entry at slot leads to a new page table page, which is cleared.
NewTable(m, slot, page) ==
    [m EXCEPT ![page] = [x \in 0 .. FANOUT - 1 |-> NoEntry],
              ![slot[1]][slot[2]] = [pa |-> page, perm |-> PWU]]

\* The loop of try_map: a page from kalloc for every level that is missing
\* (the first free one: which it is makes no difference to the iterators).
\* A page that was linked before kalloc failed stays linked.
Grow(s, p) ==
    LET G[l \in 0 .. s.it.level] ==
          IF l = s.it.level THEN s
          ELSE LET up == G[l + 1] IN
               IF up.it.level = 0 \/ p = {} \/ up.free = {} THEN up
               ELSE LET page == CHOOSE x \in up.free : \A y \in up.free : x <= y
                        m == NewTable(up.mem, up.it.slot, page)
                    IN [mem |-> m, free |-> up.free \ {page},
                        tables |-> up.tables \cup {page}, it |-> down(m, up.it)]
    IN G[0]

\* Mutant: an entry is cleared at whatever level the walk ended.
try_map_large(i, pa, p) ==
    LET s == Grow([mem |-> mem, free |-> free, tables |-> tables, it |-> i], p)
    IN IF s.it.level = 0 \/ (p = {} /\ s.it.slot # ZeroSlot)
         THEN [s EXCEPT !.mem[s.it.slot[1]][s.it.slot[2]] = [pa |-> pa, perm |-> p]]
         ELSE s

\* try_map: the state after the call.  The entry is written at level 0 only;
\* with no permissions to set a missing level is left missing.
try_map(i, pa, p) ==
    LET s == Grow([mem |-> mem, free |-> free, tables |-> tables, it |-> i], p)
    IN IF s.it.level = 0
         THEN [s EXCEPT !.mem[s.it.slot[1]][s.it.slot[2]] = [pa |-> pa, perm |-> p]]
         ELSE s

\* low_perm, perm(last_va, p): every range from first up to last allows p.
low_perm(m, first, last, p) ==
    LET I[n \in 0 .. LowEnd] == IF n = 0 THEN vmiter(m, first)
                                ELSE real_find(m, I[n - 1], last_va(I[n - 1]))
    IN /\ first <= last /\ last <= LowEnd
       /\ \A n \in 0 .. LowEnd : (\A k \in 0 .. n : I[k].va < last)
                                   => p \subseteq Entry(m, I[n].slot).perm \cap I[n].perm

-----------------------------------------------------------------------------
NoPtiter == [pc |-> "off", level |-> TOP, slot |-> ZeroSlot, va |-> 0,
             skip |-> FALSE, stop |-> 1]

\* init_kernel_memory: two linked tables and a large page beside the second;
\* any of the other pages may be free.
Init ==
    /\ mem = [x \in Pages |-> [n \in 0 .. FANOUT - 1 |->
                CASE x = Root /\ n = 0 -> [pa |-> Second, perm |-> PWU]
                  [] x = Second /\ n = 0 -> [pa |-> Third, perm |-> PWU]
                  [] x = Second /\ n = 1 -> [pa |-> 0, perm |-> {"P", "W", "PS"}]
                  [] x \notin {Root, Second, Third} -> [pa |-> 0, perm |-> {"P"}]
                  [] OTHER -> NoEntry]]
    /\ free \in SUBSET (Pages \ ({0, Root, Second, Third} \cup DataPages))
    /\ tables = {Second, Third}
    /\ it = vmiter(mem, 0)
    /\ overtaken = FALSE /\ pti = NoPtiter /\ phase = "map"

Find(va) ==
    /\ phase = "map"
    /\ it' = real_find(mem, it, va)
    /\ overtaken' = (overtaken /\ ~Restarts(it, va))
    /\ UNCHANGED <<mem, free, tables, pti, phase>>

next ==
    /\ phase = "map"
    /\ it' = real_find(mem, it, next_va(mem, it))
    /\ overtaken' = (overtaken /\ ~Restarts(it, next_va(mem, it)))
    /\ UNCHANGED <<mem, free, tables, pti, phase>>

next_range ==
    /\ phase = "map"
    /\ it' = real_find(mem, it, last_va(it))
    /\ overtaken' = (overtaken /\ ~Restarts(it, last_va(it)))
    /\ UNCHANGED <<mem, free, tables, pti, phase>>

TryMap(pa, p) ==
    LET s == try_map(it, pa, p) IN
    /\ phase = "map" /\ MapAllowed(mem, it, pa, p)
    /\ mem' = s.mem /\ free' = s.free /\ tables' = s.tables /\ it' = s.it
    /\ UNCHANGED <<overtaken, pti, phase>>

\* vmiter(pt, va).try_map(pa, perm) elsewhere.
TryMapElsewhere(va, pa, p) ==
    LET i == vmiter(mem, va)
        s == try_map(i, pa, p)
    IN
    /\ phase = "map" /\ MapAllowed(mem, i, pa, p)
    /\ mem' = s.mem /\ free' = s.free /\ tables' = s.tables
    /\ overtaken' = TRUE
    /\ UNCHANGED <<it, pti, phase>>

-----------------------------------------------------------------------------
(* ptiter, and the loop that frees a page table with it.                   *)

\* ptiter(pt): go(0) up to its loop.
go ==
    /\ phase = "map" /\ phase' = "free"
    /\ pti' = [NoPtiter EXCEPT !.pc = "down", !.slot = <<Root, 0>>]
    /\ UNCHANGED <<mem, free, tables, it, overtaken>>

\* Mutant: `skip' is still set, so that the table is passed over.
PtUp_skipping == [pti EXCEPT !.stop = pti.level + 1, !.level = TOP,
                             !.slot = <<Root, pageindex(pti.va, TOP)>>]

\* ptiter::down at the end of a table: start over from the root, towards the
\* entry that leads to that table.
PtUp == [pti EXCEPT !.stop = pti.level + 1, !.level = TOP, !.skip = FALSE,
                    !.slot = <<Root, pageindex(pti.va, TOP)>>]

\* Mutant: the end of a table is looked for one level too high.
PtStays_above(va) == SameRegion(va, pti.va, IF pti.level < TOP THEN pti.level + 2 ELSE TOP + 1)

\* The entry for va is in the page table page that pep_ points into.
PtStays(va) == SameRegion(va, pti.va, pti.level + 1)

\* One turn of the loop of ptiter::down.
PtDown ==
    LET e == Entry(mem, pti.slot)
        va == After(pti.va, pti.level)
    IN
    /\ phase = "free" /\ pti.pc = "down"
    /\ pti' = IF IsLink(e) /\ ~pti.skip
                THEN IF pti.level = pti.stop THEN [pti EXCEPT !.pc = "at"]
                     ELSE [pti EXCEPT !.level = @ - 1, !.slot =
                             <<e.pa, pageindex(pti.va, pti.level - 1)>>]
              ELSE IF PtStays(va)
                THEN [pti EXCEPT !.slot = <<@[1], @[2] + 1>>, !.va = va, !.skip = FALSE]
              ELSE IF pti.level = TOP
                THEN [NoPtiter EXCEPT !.va = NoncanonEnd]
              ELSE PtUp
    /\ UNCHANGED <<mem, free, tables, it, overtaken, phase>>

\* Mutant: the level to stop at is kept from the visit before.
FreeTable_stop ==
    LET page == Entry(mem, pti.slot).pa IN
    /\ phase = "free" /\ pti.pc = "at"
    /\ mem' = [mem EXCEPT ![page] = [n \in 0 .. FANOUT - 1 |-> [pa |-> 0, perm |-> {"P"}]]]
    /\ free' = free \cup {page} /\ tables' = tables \ {page}
    /\ pti' = [pti EXCEPT !.pc = "down", !.skip = TRUE]
    /\ UNCHANGED <<it, overtaken, phase>>

\* kfree(it.kptr()); it.next().  What is freed is overwritten.
FreeTable ==
    LET page == Entry(mem, pti.slot).pa IN
    /\ phase = "free" /\ pti.pc = "at"
    /\ mem' = [mem EXCEPT ![page] = [n \in 0 .. FANOUT - 1 |-> [pa |-> 0, perm |-> {"P"}]]]
    /\ free' = free \cup {page} /\ tables' = tables \ {page}
    /\ pti' = [pti EXCEPT !.pc = "down", !.skip = TRUE, !.stop = 1]
    /\ UNCHANGED <<it, overtaken, phase>>

\* active() is false: the loop is over.
FreeEnd ==
    /\ phase = "free" /\ pti.va = NoncanonEnd
    /\ phase' = "done" /\ pti' = NoPtiter
    /\ UNCHANGED <<mem, free, tables, it, overtaken>>

Next ==
    \/ \E va \in VAs : Find(va)
    \/ next \/ next_range
    \/ \E pa \in DataPages, p \in Perms : TryMap(pa, p)
    \/ \E va \in VAs, pa \in DataPages, p \in Perms : TryMapElsewhere(va, pa, p)
    \/ go \/ PtDown \/ FreeTable \/ FreeEnd

Spec == Init /\ [][Next]_vars /\ WF_vars(PtDown \/ FreeTable \/ FreeEnd)

-----------------------------------------------------------------------------
(* The reference: what the hardware makes of the page table.               *)

\* The pages that translate va, from the root down to the level where the
\* walk ends: path[l] is the page of level l.
Path(m, va) ==
    LET T[l \in Levels] ==
          IF l = TOP THEN [x \in {TOP} |-> Root]
          ELSE LET up == T[l + 1]
                   e == IF l + 1 \in DOMAIN up THEN m[up[l + 1]][pageindex(va, l + 1)]
                                              ELSE NoEntry
               IN IF IsLink(e)
                    THEN [x \in {l} \cup DOMAIN up |-> IF x = l THEN e.pa ELSE up[x]]
                    ELSE up
    IN T[0]

\* The translation of va: a physical page and its permissions, those that
\* every entry on the way grants; none if the last one is not present.
NoTranslation == [pa |-> -1, perm |-> {}]
Translate(m, va) ==
    LET path == Path(m, va)
        leaf == CHOOSE l \in DOMAIN path : \A k \in DOMAIN path : l <= k
        e == m[path[leaf]][pageindex(va, leaf)]
    IN IF va_is_canonical(va) /\ "P" \in e.perm
         THEN [pa |-> e.pa + (va % Span[leaf]),
               perm |-> {b \in PWU : \A l \in DOMAIN path :
                                       b \in m[path[l]][pageindex(va, l)].perm}]
         ELSE NoTranslation

-----------------------------------------------------------------------------
Slots == (Pages \X (0 .. FANOUT - 1)) \cup {ZeroSlot}

\* Types of memory, of the two iterators and of the phase.
TypeOK ==
    /\ mem \in [Pages -> [0 .. FANOUT - 1 -> Entries]]
    /\ free \subseteq Pages /\ tables \subseteq Pages
    /\ it \in [level : Levels, slot : Slots, perm : SUBSET Bits, va : VAs]
    /\ pti.level \in Levels /\ pti.slot \in Slots /\ pti.va \in VAs
    /\ phase \in {"map", "free", "done"}

\* A vmiter that nobody has overtaken reports, after any sequence of find,
\* next, next_range and try_map, the translation the hardware uses, although
\* real_find keeps its place in the page table whenever it can.
AgreesWithHardware ==
    phase = "map" /\ ~overtaken =>
      /\ pa_of(mem, it) = Translate(mem, it.va).pa
      /\ perm_of(mem, it) \cap PWU = Translate(mem, it.va).perm

\* What try_map(pa, p) is to make of the translation of its address.
Asked(pa, p) == IF "P" \in p THEN [pa |-> pa, perm |-> p] ELSE NoTranslation

\* Whatever try_map(pa, p) is asked for next, of the kept vmiter or of a new
\* one: the address of the vmiter is then translated to what was asked for,
\* unless kalloc had no page left for a missing table, and every other address
\* is translated as before; the page table pages added on the way change no
\* translation.  Permissions 0 leave a large page mapped, and so does a vmiter
\* that was overtaken at an upper level.
Translations(m) == [va \in VAs |-> Translate(m, va)]
MapsOnlyItsPage ==
    phase = "map" =>
      LET before == Translations(mem) IN
      \A i \in {it} \cup {vmiter(mem, va) : va \in VAs}, pa \in DataPages, p \in Perms :
        MapAllowed(mem, i, pa, p) =>
          LET s == try_map(i, pa, p)
              after == Translations(s.mem)
          IN \/ after = [before EXCEPT ![i.va] = Asked(pa, p)]
             \/ /\ after = before
                /\ \/ p # {} /\ s.free = {}
                   \/ p = {} /\ (0 \notin DOMAIN Path(mem, i.va) \/ (i = it /\ overtaken))

\* next() passes over no present page, up to the end of the address space.
NextSkipsNoPresent ==
    [][next /\ ~overtaken =>
         \A va \in it.va + 1 .. (IF it'.va > it.va THEN it'.va ELSE NVA) - 1 :
           Translate(mem, va).perm = {}]_vars

\* The page table is a tree of exactly the pages in use: no page serves two
\* regions or two levels, and none is lost, also after a kalloc that failed
\* half way down.
PageTableIsTree ==
    phase = "map" =>
      LET serves(va) == LET path == Path(mem, va) IN
                        {<<path[l], l, va \div Span[l + 1]>> : l \in DOMAIN path}
          used == UNION {serves(va) : va \in 0 .. NoncanonEnd - 1}
      IN /\ {x[1] : x \in used} = tables \cup {Root}
         /\ Cardinality(used) = Cardinality(tables) + 1
         /\ tables \cap (free \cup {Root}) = {}
         /\ (tables \ {Second, Third}) \cap DataPages = {}

\* low_perm answers for every address of the range, large pages included, and
\* refuses a range that goes beyond the low half of the address space.
LowPermExact ==
    phase = "map" =>
      \A p \in {{"P"}, {"P", "U"}}, first \in 0 .. LowEnd, last \in VAs :
        low_perm(mem, first, last, p)
          <=> /\ first <= last /\ last <= LowEnd
              /\ \A va \in first .. last - 1 : p \subseteq Translate(mem, va).perm

\* The freeing loop comes to a page table page that is still in use, whose own
\* page table pages it has freed before; so it reads no page it has freed.
FreesChildrenFirst ==
    phase = "free" /\ pti.pc = "at" =>
      LET page == Entry(mem, pti.slot).pa IN
      /\ page \in tables
      /\ pti.level > 1 => \A n \in 0 .. FANOUT - 1 :
           IsLink(mem[page][n]) => mem[page][n].pa \notin tables

\* The freeing loop ends, and then every page but the root has been freed.
FreesAll == phase = "free" ~> phase = "done" /\ tables = {}
=============================================================================
