------------------------- MODULE WeensyKernelProofs -------------------------
EXTENDS WeensyKernel, WellFoundedInduction, TLAPS

(***************************************************************************)
(* The inductive invariant.                                                *)
(***************************************************************************)

\* Between entries into the kernel.
Live == mode \in {"user", "spin"}

\* The process table holds the processes of this boot, and the CPU runs a
\* runnable one.
TableInv ==
    /\ \A p \in Pids : ptable[p].state = P_FREE <=> p \notin SetupPids(command)
    /\ current \in SetupPids(command)
    /\ mode = "user" => ptable[current].state = P_RUNNABLE

\* kalloc is called once, and its first page is page 1.
KallocInv ==
    /\ v_ \in {NoPage, 1}
    /\ v_ = NoPage => next_alloc_pa = 0

HeapLabels == {"loop", "check", "ret", "yield", "idle"}
ForkLabels == {"fork", "fork_loop", "fork_yield"}

\* What process p's program knows at the point it has reached.
ProgramInv(p) ==
    /\ RegsOf(p).rip \in HeapLabels =>
            /\ HeapStart(p) <= umem[p].heap_top
            /\ umem[p].heap_top <= StackPage(p)
    /\ RegsOf(p).rip = "ret" => /\ umem[p].heap_top < StackPage(p)
                                /\ RegsOf(p).rax = 0
    /\ RegsOf(p).rip \notin HeapLabels => umem[p].heap_top = Unset
    /\ RegsOf(p).rip = "init" => RegsOf(p).rax = p
    /\ RegsOf(p).rip \in ForkLabels => command # "allocators"

\* A page is used exactly when the viewer or a process owns it.
PagesInv ==
    \A pa \in Page :
        pages[pa] = 1 <=> \/ pa = v_
                          \/ \E p \in SetupPids(command) : pa \in OwnedPages(p)

IInv ==
    /\ TypeOK
    /\ NoAssertFails
    /\ PidIsOwn
    /\ TableInv
    /\ KallocInv
    /\ Live => \A p \in SetupPids(command) : ProgramInv(p)
    /\ Live => PagesInv
    /\ BoundedBypass

(***************************************************************************)
(* Lemmas about the operators.                                             *)
(***************************************************************************)

LEMMA LeastNatural ==
    ASSUME NEW T, T \subseteq Nat, T # {}
    PROVE  \E x \in T : \A y \in T : x <= y
<1>1. PICK x \in T : \A y \in T : ~(<<y, x>> \in OpToRel(<, Nat))
  BY NatLessThanWellFounded, WFMin, Zenon
<1>2. \A y \in T : ~(y < x)
  BY <1>1 DEF OpToRel
<1> QED BY <1>2

LEMMA WrapAround ==
    ASSUME NEW n \in Nat, NEW c \in 0 .. n - 1, NEW i \in 0 .. n
    PROVE  (c + i) % n = IF c + i < n THEN c + i ELSE c + i - n
  OBVIOUS

LEMMA Regions ==
    ASSUME NEW p \in 1 .. NALLOCATORS
    PROVE  /\ Base(p) \in Nat /\ StackPage(p) \in Nat
           /\ PROC_START_ADDR <= Base(p)
           /\ StackPage(p) = Base(p) + PROC_SIZE - 1
           /\ HeapStart(p) \in Nat
           /\ Base(p) < HeapStart(p) /\ HeapStart(p) <= StackPage(p)
           /\ StackPage(p) < MEMSIZE_PHYSICAL
  BY GeometryAssumption DEF Base, StackPage, HeapStart

LEMMA RegionsDisjoint ==
    ASSUME NEW p \in 1 .. NALLOCATORS, NEW q \in 1 .. NALLOCATORS, p < q
    PROVE  StackPage(p) < Base(q)
  BY GeometryAssumption DEF Base, StackPage

LEMMA SetupAreProcesses ==
    ASSUME NEW prog
    PROVE  /\ SetupPids(prog) \subseteq 1 .. NALLOCATORS
           /\ SetupPids(prog) \subseteq Pids /\ 1 \in SetupPids(prog)
           /\ 0 \in Pids /\ 0 \notin SetupPids(prog)
  BY GeometryAssumption DEF SetupPids, Pids

\* A process's pages lie in its region, whatever its program has done.
LEMMA OwnedInRegion ==
    ASSUME NEW p \in SetupPids(command), ProgramInv(p), TypeOK
    PROVE  /\ OwnedPages(p) \subseteq Base(p) .. StackPage(p)
           /\ StackPage(p) \notin HeapStart(p) .. HeapEnd(p) - 1
<1>1. p \in 1 .. NALLOCATORS
  BY SetupAreProcesses
<1>2. RegsOf(p).rip \in Labels
  BY SetupAreProcesses DEF TypeOK, RegsOf, Running, Registers
<1>3. HeapEnd(p) \in Int /\ HeapEnd(p) <= StackPage(p)
  BY <1>1, <1>2, Regions, SetupAreProcesses
     DEF ProgramInv, HeapEnd, HeapLabels, TypeOK, Labels
<1>4. ImagePages(p) \subseteq Base(p) .. StackPage(p)
  BY <1>1, Regions DEF ImagePages
<1> QED
  BY <1>1, <1>3, <1>4, Regions DEF OwnedPages, SetupPages

\* The first page kalloc looks at that it may return is page 1.
LEMMA FirstKalloc ==
    ASSUME TypeOK, KallocInv, v_ = NoPage, pages[1] = 0
    PROVE  kalloc = 1
<1> USE GeometryAssumption
<1>1. 0 \notin KallocCandidates
  BY DEF KallocCandidates, allocatable_physical_address,
         reserved_physical_address
<1>2. 1 < MEMSIZE_PHYSICAL
  OBVIOUS
<1>3. 1 \in KallocCandidates
  BY <1>2 DEF KallocCandidates, KallocInv, allocatable_physical_address,
              reserved_physical_address
<1>4. \A q \in KallocCandidates : q \in Nat
  BY DEF KallocCandidates, KallocInv
<1>5. \A q \in KallocCandidates : 1 <= q
  BY <1>1, <1>4
<1>6. \A pa \in KallocCandidates :
        (\A q \in KallocCandidates : pa <= q) => pa = 1
  BY <1>3, <1>4, <1>5
<1> QED
  BY <1>3, <1>5, <1>6 DEF kalloc

LEMMA ShowingIsPid ==
    ASSUME TypeOK
    PROVE  memshowShowing \in Pids
<1>0. NPROC \in Nat \ {0}
  BY GeometryAssumption
<1>1. \A x \in Nat : x % NPROC \in Pids
  BY <1>0 DEF Pids
<1>2. memshowStart \in Pids
  <2>1. showing \in Pids /\ showing + 1 \in Nat
    BY <1>0 DEF TypeOK, Pids
  <2> QED
    BY <1>1, <2>1 DEF memshowStart
<1> DEFINE hits == {i \in 0 .. NPROC - 1 :
                    ptable[(memshowStart + i) % NPROC].state # P_FREE}
<1>3. CASE hits = {}
  BY <1>2, <1>3 DEF memshowShowing
<1>4. CASE hits # {}
  <2>1. hits \subseteq Nat
    OBVIOUS
  <2>a. \E i \in hits : \A j \in hits : i <= j
    BY <1>4, <2>1, LeastNatural, Zenon
  <2>2. (CHOOSE i \in hits : \A j \in hits : i <= j) \in hits
    BY <2>a
  <2>3. \A i \in hits : memshowStart + i \in Nat
    BY <1>0, <1>2 DEF Pids
  <2> QED
    BY <1>1, <1>4, <2>2, <2>3 DEF memshowShowing
<1> QED
  BY <1>3, <1>4

\* What drawing the memory viewer does on entry to the kernel.
LEMMA Viewer ==
    ASSUME IInv, Live
    PROVE  /\ memshowOK
           /\ refreshV = 1
           /\ refreshCursor \in 0 .. MEMSIZE_PHYSICAL
           /\ memshowShowing \in Pids
           /\ 1 \in Page
           /\ refreshPages \in [Page -> {0, 1}]
           /\ \A pa \in Page : refreshPages[pa] = 1 <=>
                \/ pa = 1
                \/ \E p \in SetupPids(command) : pa \in OwnedPages(p)
<1> USE GeometryAssumption
<1>1. 1 \in Page /\ NoPage \notin Page
  BY DEF Page, NoPage
<1>2. \A p \in SetupPids(command) : 1 \notin OwnedPages(p)
  <2> TAKE p \in SetupPids(command)
  <2>1. OwnedPages(p) \subseteq Base(p) .. StackPage(p)
    BY OwnedInRegion DEF IInv
  <2>2. p \in 1 .. NALLOCATORS
    BY SetupAreProcesses
  <2>3. 1 < Base(p) /\ Base(p) \in Nat /\ StackPage(p) \in Nat
    BY <2>2, Regions
  <2> QED
    BY <2>1, <2>3
<1>3. v_ = NoPage => pages[1] = 0
  BY <1>1, <1>2 DEF IInv, PagesInv, TypeOK
<1>4. v_ = NoPage => kalloc = 1
  BY <1>3, FirstKalloc DEF IInv
<1>5. refreshV = 1
  BY <1>4 DEF refreshV, IInv, KallocInv
<1>6. refreshPages \in [Page -> {0, 1}]
  BY <1>1, <1>4 DEF refreshPages, IInv, TypeOK
<1>7. \A pa \in Page : refreshPages[pa] =
                            IF v_ = NoPage /\ pa = 1 THEN 1 ELSE pages[pa]
  BY <1>1, <1>4 DEF refreshPages, IInv, TypeOK, NoPage
<1>8. \A pa \in Page : refreshPages[pa] = 1 <=>
                \/ pa = 1
                \/ \E p \in SetupPids(command) : pa \in OwnedPages(p)
  BY <1>1, <1>7 DEF IInv, PagesInv, KallocInv
<1>9. refreshCursor \in 0 .. MEMSIZE_PHYSICAL
  <2>1. MEMSIZE_PHYSICAL \in Nat /\ 2 \in 0 .. MEMSIZE_PHYSICAL
    BY <1>1 DEF Page
  <2> QED
    BY <1>4, <2>1 DEF refreshCursor, IInv, TypeOK, NoPage
<1>10. memshowOK
  BY <1>5, SetupAreProcesses DEF memshowOK, IInv, TableInv, NoPage
<1> QED
  BY <1>1, <1>5, <1>6, <1>8, <1>9, <1>10, ShowingIsPid DEF IInv

LEMMA AgeType ==
    ASSUME TypeOK
    PROVE  ResetAge \in 0 .. ShowPeriod /\ ShowPeriod \in Nat \ {0}
  BY GeometryAssumption DEF TypeOK, ResetAge, ShowPeriod

Table == [Pids -> [state : {P_FREE, P_RUNNABLE, P_BROKEN}, regs : Registers]]

LEMMA DistanceIsOffset ==
    ASSUME NEW c \in Pids, NEW p \in Pids
    PROVE  /\ Distance(c, p) \in 1 .. NPROC
           /\ (c + Distance(c, p)) % NPROC = p
<1>1. NPROC \in Nat \ {0}
  BY GeometryAssumption
<1>2. Distance(c, p) \in 1 .. NPROC
  BY <1>1 DEF Distance, Pids
<1>3. (c + Distance(c, p)) % NPROC =
        IF c + Distance(c, p) < NPROC THEN c + Distance(c, p)
        ELSE c + Distance(c, p) - NPROC
  <2>1. NPROC \in Nat /\ c \in 0 .. NPROC - 1 /\ Distance(c, p) \in 0 .. NPROC
    BY <1>1, <1>2 DEF Pids
  <2> QED
    BY <2>1, WrapAround, Zenon
<1> QED
  BY <1>1, <1>2, <1>3 DEF Distance, Pids

\* Moving i places round the table brings a process further on i places nearer.
LEMMA DistanceShrinks ==
    ASSUME NEW c \in Pids, NEW p \in Pids, NEW i \in 1 .. NPROC,
           i <= Distance(c, p), p # (c + i) % NPROC
    PROVE  /\ (c + i) % NPROC \in Pids
           /\ Distance((c + i) % NPROC, p) = Distance(c, p) - i
<1>1. NPROC \in Nat \ {0}
  BY GeometryAssumption
<1>2. (c + i) % NPROC = IF c + i < NPROC THEN c + i ELSE c + i - NPROC
  <2>1. NPROC \in Nat /\ c \in 0 .. NPROC - 1 /\ i \in 0 .. NPROC
    BY <1>1 DEF Pids
  <2> QED
    BY <2>1, WrapAround, Zenon
<1>3. i # Distance(c, p)
  BY DistanceIsOffset
<1> QED
  BY <1>1, <1>2, <1>3 DEF Distance, Pids

\* schedule(): what it dispatches is runnable, and nobody is passed over more
\* often than its distance allows.
LEMMA Schedule ==
    ASSUME TypeOK, NEW pt \in Table, schedule(pt),
           \A p \in Pids : pt[p].state = P_RUNNABLE =>
                bypass[p] + Distance(current, p) <= NPROC
    PROVE  /\ mode' \in {"user", "spin"}
           /\ current' \in Pids /\ cpu' \in Registers
           /\ bypass' \in [Pids -> Nat]
           /\ mode' = "user" => /\ pt[current'].state = P_RUNNABLE
                                /\ cpu' = pt[current'].regs
           /\ mode' = "spin" => current' = current
           /\ mode' = "user" => \A p \in Pids : pt[p].state = P_RUNNABLE =>
                bypass'[p] + Distance(current', p) <= NPROC
<1>0. NPROC \in Nat \ {0}
  BY GeometryAssumption
<1>1. CASE Offsets(pt) = {}
  BY <1>1 DEF schedule, TypeOK
<1>2. CASE Offsets(pt) # {}
  <2> DEFINE m == CHOOSE i \in Offsets(pt) : \A j \in Offsets(pt) : i <= j
  <2>1. Offsets(pt) \subseteq Nat
    BY <1>0 DEF Offsets
  <2>2. \E i \in Offsets(pt) : \A j \in Offsets(pt) : i <= j
    BY <1>2, <2>1, LeastNatural, Zenon
  <2>3. m \in Offsets(pt) /\ \A j \in Offsets(pt) : m <= j
    BY <2>2
  <2> HIDE DEF m
  <2>4. m \in 1 .. NPROC /\ pt[(current + m) % NPROC].state = P_RUNNABLE
    BY <2>3 DEF Offsets
  <2>5. (current + m) % NPROC \in Pids
    <3>1. current + m \in Nat
      BY <1>0, <2>4 DEF TypeOK, Pids
    <3> QED
      BY <1>0, <3>1 DEF Pids
  <2>6. NextRunnable(pt) = (current + m) % NPROC
    BY DEF NextRunnable, m
  <2>7. run((current + m) % NPROC, pt)
    BY <1>2, <2>6 DEF schedule
  <2>8. /\ mode' = "user" /\ current' = (current + m) % NPROC
        /\ cpu' = pt[current'].regs
        /\ bypass' = [q \in Pids |->
                        IF q = current' \/ pt[q].state # P_RUNNABLE THEN 0
                        ELSE IF bypass[q] > NPROC THEN bypass[q]
                        ELSE bypass[q] + 1]
    BY <2>4, <2>7 DEF run
  <2>9. cpu' \in Registers
    BY <2>5, <2>8 DEF Table
  <2>10. bypass' \in [Pids -> Nat]
    BY <2>8 DEF TypeOK
  <2>11. ASSUME NEW p \in Pids, pt[p].state = P_RUNNABLE
         PROVE  bypass'[p] + Distance(current', p) <= NPROC
    <3>1. Distance(current, p) \in 1 .. NPROC
          /\ (current + Distance(current, p)) % NPROC = p
      BY DistanceIsOffset DEF TypeOK
    <3>2. Distance(current, p) \in Offsets(pt)
      BY <2>11, <3>1 DEF Offsets
    <3>3. m <= Distance(current, p)
      BY <2>3, <3>2
    <3>4. CASE p = current'
      <4>1. bypass'[p] = 0
        BY <2>8, <3>4
      <4>2. Distance(current', p) \in 1 .. NPROC
        BY <2>5, <2>8, DistanceIsOffset
      <4> QED
        BY <1>0, <4>1, <4>2
    <3>5. CASE p # current'
      <4>1. bypass'[p] = bypass[p] + 1
        <5>1. bypass[p] + Distance(current, p) <= NPROC /\ bypass[p] \in Nat
          BY <2>11 DEF TypeOK
        <5>2. ~(bypass[p] > NPROC)
          BY <1>0, <3>1, <5>1
        <5> QED
          BY <2>8, <2>11, <3>5, <5>2
      <4>2. Distance(current', p) = Distance(current, p) - m
        BY <2>4, <2>8, <3>3, <3>5, DistanceShrinks DEF TypeOK
      <4>3. bypass[p] + Distance(current, p) <= NPROC /\ bypass[p] \in Nat
        BY <2>11 DEF TypeOK
      <4> QED
        BY <1>0, <2>4, <3>1, <4>1, <4>2, <4>3
    <3> QED
      BY <3>4, <3>5
  <2> QED
    BY <2>4, <2>5, <2>8, <2>9, <2>10, <2>11
<1> QED
  BY <1>1, <1>2

(***************************************************************************)
(* Boot and soft reboot establish the invariant.                           *)
(***************************************************************************)

Prog == {"allocators", "fork", "forkexit"}

LEMMA SetupPagesInRegion ==
    ASSUME NEW p \in 1 .. NALLOCATORS
    PROVE  /\ SetupPages(p) \subseteq Base(p) .. StackPage(p)
           /\ SetupPages(p) \subseteq Page
           /\ StackPage(p) \notin ImagePages(p)
  BY GeometryAssumption, Regions DEF SetupPages, ImagePages, Page

LEMMA Boot ==
    ASSUME NEW prog \in Prog, NEW z \in [Page -> {0, 1}],
           \A pa \in Page : z[pa] = 0
    PROVE  /\ process_setupOK(z, prog)
           /\ process_setup(z, prog) \in [Page -> {0, 1}]
           /\ \A pa \in Page : process_setup(z, prog)[pa] = 1 <=>
                    \E p \in SetupPids(prog) : pa \in SetupPages(p)
<1>1. SetupPids(prog) \subseteq 1 .. NALLOCATORS
  BY SetupAreProcesses
<1>2. \A p \in SetupPids(prog) : \A pa \in SetupPages(p) : z[pa] = 0
  BY <1>1, SetupPagesInRegion
<1>3. \A p \in SetupPids(prog) : StackPage(p) \notin ImagePages(p)
  BY <1>1, SetupPagesInRegion
<1>4. ASSUME NEW p \in SetupPids(prog), NEW q \in SetupPids(prog), p # q
      PROVE  SetupPages(p) \cap SetupPages(q) = {}
  <2>1. p \in 1 .. NALLOCATORS /\ q \in 1 .. NALLOCATORS /\ NALLOCATORS \in Nat
    BY <1>1, GeometryAssumption
  <2>2. StackPage(p) < Base(q) \/ StackPage(q) < Base(p)
    <3>1. CASE p < q
      BY <2>1, <3>1, RegionsDisjoint
    <3>2. CASE q < p
      BY <2>1, <3>2, RegionsDisjoint
    <3> QED
      BY <1>4, <2>1, <3>1, <3>2
  <2>3. /\ SetupPages(p) \subseteq Base(p) .. StackPage(p)
        /\ SetupPages(q) \subseteq Base(q) .. StackPage(q)
    BY <2>1, SetupPagesInRegion
  <2>4. /\ Base(p) \in Nat /\ StackPage(p) \in Nat
        /\ Base(q) \in Nat /\ StackPage(q) \in Nat
    BY <2>1, Regions
  <2> QED
    BY <2>2, <2>3, <2>4
<1>5. process_setupOK(z, prog)
  BY <1>2, <1>3, <1>4 DEF process_setupOK
<1> QED
  BY <1>5 DEF process_setup

LEMMA BootTableType ==
    ASSUME NEW prog \in Prog
    PROVE  /\ BootTable(prog) \in Table
           /\ InitialRegs(prog) \in Registers
           /\ InitialRegs(prog).rip \notin HeapLabels \cup {"init"}
           /\ prog = "allocators" => InitialRegs(prog).rip \notin ForkLabels
           /\ \A p \in Pids : BootTable(prog)[p].regs = InitialRegs(prog)
           /\ \A p \in Pids : BootTable(prog)[p].state =
                    IF p \in SetupPids(prog) THEN P_RUNNABLE ELSE P_FREE
  BY DEF BootTable, Table, InitialRegs, EntryPoint, Registers, Labels, Prog,
         HeapLabels, ForkLabels

LEMMA UnloadedOwnsSetupPages ==
    ASSUME NEW p \in 1 .. NALLOCATORS
    PROVE  (HeapStart(p) .. HeapStart(p) - 1) = {}
  BY Regions

LEMMA DistanceBound ==
    ASSUME NEW c \in Pids, NEW p \in Pids
    PROVE  0 + Distance(c, p) <= NPROC
  BY GeometryAssumption, DistanceIsOffset

LEMMA InitInv == Init => IInv
<1> SUFFICES ASSUME Init PROVE IInv
  OBVIOUS
<1> DEFINE z == [pa \in Page |-> 0]
<1>1. command \in Prog
  BY InputAssumption DEF Init, Prog
<1>2. z \in [Page -> {0, 1}] /\ \A pa \in Page : z[pa] = 0
  OBVIOUS
<1>3. /\ process_setupOK(z, command)
      /\ process_setup(z, command) \in [Page -> {0, 1}]
      /\ \A pa \in Page : process_setup(z, command)[pa] = 1 <=>
                \E p \in SetupPids(command) : pa \in SetupPages(p)
  BY <1>1, <1>2, Boot, Zenon
<1>4. mode = "user" /\ pages = process_setup(z, command)
  BY <1>3 DEF Init
<1> HIDE DEF z
<1>5. 1 \in Pids /\ SetupPids(command) \subseteq Pids /\ 0 \in Pids
      /\ SetupPids(command) \subseteq 1 .. NALLOCATORS
      /\ 1 \in SetupPids(command)
  BY SetupAreProcesses
<1>6. ShowPeriod \in Nat /\ ShowPeriod \in 0 .. ShowPeriod
  BY GeometryAssumption DEF ShowPeriod
<1>7. TypeOK
  <2>1. /\ ptable \in Table /\ cpu \in Registers
        /\ next_alloc_pa \in 0 .. MEMSIZE_PHYSICAL
    BY <1>1, BootTableType, GeometryAssumption DEF Init
  <2>2. /\ umem \in [Pids -> [me : Int, heap_top : Int]]
        /\ bypass \in [Pids -> Nat]
        /\ v_ \in Page \cup {NoPage}
    BY DEF Init, Unset
  <2>3. current \in Pids /\ showing \in Pids /\ showAge \in 0 .. ShowPeriod
    BY <1>5, <1>6 DEF Init
  <2> QED
    BY <1>1, <1>3, <1>4, <2>1, <2>2, <2>3 DEF TypeOK, Prog, Table
<1>8. TableInv
  BY <1>1, <1>5, BootTableType DEF Init, TableInv, P_FREE, P_RUNNABLE
<1>9. KallocInv /\ PidIsOwn /\ NoAssertFails
  BY <1>4 DEF Init, KallocInv, PidIsOwn, NoAssertFails
<1>10. \A p \in SetupPids(command) : RegsOf(p) = InitialRegs(command)
  BY <1>1, <1>5, BootTableType DEF Init, RegsOf
<1>11. \A p \in SetupPids(command) : ProgramInv(p)
  BY <1>1, <1>5, <1>10, BootTableType DEF Init, ProgramInv, HeapLabels
<1>12. \A p \in SetupPids(command) : OwnedPages(p) = SetupPages(p)
  BY <1>5, UnloadedOwnsSetupPages DEF Init, OwnedPages, HeapEnd
<1>13. PagesInv
  BY <1>3, <1>4, <1>12 DEF Init, PagesInv, NoPage, Page
<1>14. BoundedBypass
  BY <1>5, DistanceBound DEF Init, BoundedBypass
<1> QED
  BY <1>7, <1>8, <1>9, <1>11, <1>13, <1>14 DEF IInv

LEMMA RebootInv ==
    ASSUME NEW prog \in Prog, SoftReboot(prog), TypeOK
    PROVE  IInv'
<1> DEFINE z == PristinePages(pages)
<1>1. command' = prog
  BY DEF SoftReboot
<1>2. z \in [Page -> {0, 1}] /\ \A pa \in Page : z[pa] = 0
  BY DEF PristinePages
<1>3. /\ process_setupOK(z, prog)
      /\ process_setup(z, prog) \in [Page -> {0, 1}]
      /\ \A pa \in Page : process_setup(z, prog)[pa] = 1 <=>
                \E p \in SetupPids(prog) : pa \in SetupPages(p)
  BY <1>1, <1>2, Boot, Zenon
<1>4. mode' = "user" /\ pages' = process_setup(z, prog)
  BY <1>3 DEF SoftReboot
<1> HIDE DEF z
<1>5. 1 \in Pids /\ SetupPids(prog) \subseteq Pids /\ 0 \in Pids
      /\ SetupPids(prog) \subseteq 1 .. NALLOCATORS
      /\ 1 \in SetupPids(prog)
  BY SetupAreProcesses
<1>6. ShowPeriod \in Nat /\ ShowPeriod \in 0 .. ShowPeriod
  BY GeometryAssumption DEF ShowPeriod
<1>7. TypeOK'
  BY <1>1, <1>3, <1>4, <1>5, <1>6, BootTableType, GeometryAssumption
     DEF SoftReboot, TypeOK, Prog, Table, Unset
<1>8. TableInv'
  BY <1>1, <1>5, BootTableType DEF SoftReboot, TableInv, P_FREE, P_RUNNABLE
<1>9. KallocInv' /\ PidIsOwn' /\ NoAssertFails'
  BY <1>4 DEF SoftReboot, KallocInv, PidIsOwn, NoAssertFails
<1>10. \A p \in SetupPids(prog) : RegsOf(p)' = InitialRegs(prog)
  BY <1>1, <1>5, BootTableType DEF SoftReboot, RegsOf
<1>11. \A p \in SetupPids(prog) : ProgramInv(p)'
  BY <1>1, <1>5, <1>10, BootTableType DEF SoftReboot, ProgramInv, HeapLabels
<1>12. \A p \in SetupPids(prog) : OwnedPages(p)' = SetupPages(p)
  BY <1>5, UnloadedOwnsSetupPages DEF SoftReboot, OwnedPages, HeapEnd
<1>13. PagesInv'
  BY <1>1, <1>3, <1>4, <1>12 DEF SoftReboot, PagesInv, NoPage, Page
<1>14. BoundedBypass'
  BY <1>5, DistanceBound DEF SoftReboot, BoundedBypass
<1> QED
  BY <1>1, <1>7, <1>8, <1>9, <1>11, <1>13, <1>14 DEF IInv

(***************************************************************************)
(* Every step preserves the invariant.                                     *)
(***************************************************************************)

\* A process whose registers and variables a step leaves alone keeps its part
\* of the invariant and its pages.
LEMMA Untouched ==
    ASSUME NEW p, RegsOf(p)' = RegsOf(p), umem'[p] = umem[p],
           command' = command
    PROVE  ProgramInv(p)' = ProgramInv(p) /\ OwnedPages(p)' = OwnedPages(p)
  BY DEF ProgramInv, OwnedPages, HeapEnd

\* Entries into the kernel that end in schedule().
LEMMA ContextSwitch ==
    ASSUME IInv, mode = "user", memshow, showAge' \in 0 .. ShowPeriod,
           pages' = refreshPages, command' = command, umem' = umem,
           NEW r \in Registers, NEW st \in {P_RUNNABLE, P_BROKEN},
           ptable' = [ptable EXCEPT ![current] = [state |-> st, regs |-> r]],
           \/ r = cpu
           \/ cpu.rip = "yield" /\ r.rip = "loop"
           \/ cpu.rip = "idle" /\ r.rip = "idle"
           \/ cpu.rip = "fork_yield" /\ r.rip = "fork_loop",
           schedule(ptable')
    PROVE  IInv'
<1>1. Live /\ TypeOK
  BY DEF Live, IInv
<1>2. SetupPids(command) \subseteq Pids /\ current \in SetupPids(command)
      /\ current \in Pids
  BY SetupAreProcesses DEF IInv, TableInv, TypeOK
<1>3. ptable' \in Table
  BY <1>1, <1>2 DEF TypeOK, Table
<1>4. \A p \in Pids : /\ p # current => ptable'[p] = ptable[p]
                      /\ p = current => /\ ptable'[p].state = st
                                        /\ ptable'[p].regs = r
  BY <1>1, <1>2 DEF TypeOK
<1>5. \A p \in Pids : ptable'[p].state = P_FREE <=> p \notin SetupPids(command)
  BY <1>2, <1>4 DEF IInv, TableInv, P_FREE, P_RUNNABLE, P_BROKEN
<1>6. \A p \in Pids : ptable'[p].state = P_RUNNABLE =>
                bypass[p] + Distance(current, p) <= NPROC
  BY <1>4 DEF IInv, BoundedBypass, TableInv
<1>7. /\ mode' \in {"user", "spin"}
      /\ current' \in Pids /\ cpu' \in Registers
      /\ bypass' \in [Pids -> Nat]
      /\ mode' = "user" => /\ ptable'[current'].state = P_RUNNABLE
                           /\ cpu' = ptable'[current'].regs
      /\ mode' = "spin" => current' = current
      /\ mode' = "user" => \A p \in Pids : ptable'[p].state = P_RUNNABLE =>
                bypass'[p] + Distance(current', p) <= NPROC
  BY <1>1, <1>3, <1>6, Schedule
<1>8. current' \in SetupPids(command)
  BY <1>2, <1>5, <1>7 DEF P_FREE, P_RUNNABLE
<1>9. /\ v_' = 1 /\ next_alloc_pa' \in 0 .. MEMSIZE_PHYSICAL
      /\ showing' \in Pids /\ pages' \in [Page -> {0, 1}] /\ 1 \in Page
  BY <1>1, Viewer DEF memshow
<1>10. TypeOK'
  BY <1>1, <1>3, <1>7, <1>9 DEF TypeOK, Table
<1>11. TableInv'
  BY <1>5, <1>7, <1>8 DEF TableInv
<1>12. KallocInv' /\ NoAssertFails' /\ PidIsOwn'
  BY <1>7, <1>9 DEF KallocInv, NoAssertFails, PidIsOwn, IInv,
                    NoPage
<1>13. BoundedBypass'
  BY <1>7 DEF BoundedBypass
<1>14. \A p \in SetupPids(command) : RegsOf(p)' = ptable'[p].regs
  BY <1>7 DEF RegsOf, Running
<1>15. ASSUME NEW p \in SetupPids(command)
       PROVE  ProgramInv(p)' /\ OwnedPages(p)' = OwnedPages(p)
  <2>1. ProgramInv(p)
    BY <1>1, <1>15 DEF IInv
  <2>2. CASE RegsOf(p)' = RegsOf(p)
    BY <2>1, <2>2, Untouched
  <2>3. CASE RegsOf(p)' # RegsOf(p)
    <3>1. p = current
      BY <1>2, <1>4, <1>14, <2>3 DEF RegsOf, Running
    <3>2. RegsOf(p) = cpu /\ RegsOf(p)' = r
      BY <1>2, <1>4, <1>14, <3>1 DEF RegsOf, Running
    <3>3. \/ cpu.rip = "yield" /\ r.rip = "loop"
          \/ cpu.rip = "idle" /\ r.rip = "idle"
          \/ cpu.rip = "fork_yield" /\ r.rip = "fork_loop"
      BY <2>3, <3>2
    <3>4. ProgramInv(p)'
      BY <2>1, <3>2, <3>3 DEF ProgramInv, HeapLabels, ForkLabels
    <3>5. OwnedPages(p)' = OwnedPages(p)
      BY <3>2, <3>3 DEF OwnedPages, HeapEnd
    <3> QED
      BY <3>4, <3>5
  <2> QED
    BY <2>2, <2>3
<1>16. PagesInv'
  BY <1>1, <1>9, <1>15, Viewer DEF PagesInv
<1> QED
  BY <1>10, <1>11, <1>12, <1>13, <1>15, <1>16 DEF IInv

\* System calls that return to their caller.
LEMMA DirectReturn ==
    ASSUME IInv, mode = "user", mode' = "user", memshow, showAge' = ResetAge,
           command' = command, umem' = umem, NEW value \in Int, Return(value),
           NEW c, c = current, ProgramInv(c)',
           pages' \in [Page -> {0, 1}], PagesInv'
    PROVE  IInv'
<1>1. Live /\ TypeOK
  BY DEF Live, IInv
<1>2. SetupPids(command) \subseteq Pids /\ current \in SetupPids(command)
      /\ current \in Pids
  BY SetupAreProcesses DEF IInv, TableInv, TypeOK
<1>3. After \in Labels
  BY <1>1 DEF After, TypeOK, Registers, Labels
<1>4. /\ ptable' = [ptable EXCEPT ![current].regs =
                                [rip |-> After, rax |-> cpu.rax]]
      /\ cpu' = [rip |-> After, rax |-> value]
      /\ current' = current /\ bypass' = bypass
  BY DEF Return, Entered
<1>5. ptable' \in Table /\ cpu' \in Registers
  BY <1>1, <1>2, <1>3, <1>4 DEF TypeOK, Table, Registers
<1>6. \A p \in Pids : /\ ptable'[p].state = ptable[p].state
                      /\ p # current => ptable'[p] = ptable[p]
  BY <1>1, <1>2, <1>4 DEF TypeOK
<1>7. /\ v_' = 1 /\ next_alloc_pa' \in 0 .. MEMSIZE_PHYSICAL
      /\ showing' \in Pids /\ 1 \in Page
  BY <1>1, Viewer DEF memshow
<1>8. TypeOK'
  BY <1>1, <1>4, <1>5, <1>7, AgeType DEF TypeOK, Table
<1>9. TableInv'
  BY <1>2, <1>4, <1>6 DEF TableInv, IInv
<1>10. KallocInv' /\ NoAssertFails' /\ PidIsOwn'
  BY <1>7 DEF KallocInv, NoAssertFails, PidIsOwn, IInv, NoPage
<1>11. BoundedBypass'
  BY <1>4, <1>6 DEF BoundedBypass, IInv
<1>12. \A p \in SetupPids(command) : p # current => ProgramInv(p)'
  <2> SUFFICES ASSUME NEW p \in SetupPids(command), p # current
               PROVE  ProgramInv(p)'
    OBVIOUS
  <2>1. RegsOf(p)' = RegsOf(p)
    BY <1>2, <1>4, <1>6 DEF RegsOf, Running
  <2> QED
    BY <1>1, <2>1, Untouched DEF IInv
<1>13. \A p \in SetupPids(command) : ProgramInv(p)'
  BY <1>12, Zenon
<1> QED
  BY <1>8, <1>9, <1>10, <1>11, <1>13 DEF IInv

LEMMA OthersKeepRegs ==
    ASSUME IInv, mode = "user", mode' = "user", NEW value, Return(value),
           NEW p \in Pids, p # current
    PROVE  RegsOf(p)' = RegsOf(p)
  BY DEF Return, Entered, RegsOf, Running, IInv, TypeOK

LEMMA GetpidInv ==
    ASSUME IInv, syscall_getpid
    PROVE  IInv'
<1>1. Live /\ TypeOK /\ mode = "user" /\ cpu.rip = "getpid"
  BY DEF Live, IInv, syscall_getpid
<1>2. mode' = "user" /\ pages' = refreshPages /\ After = "init"
      /\ umem' = umem /\ command' = command /\ Return(current)
  BY <1>1, Viewer DEF syscall_getpid, After
<1>3. current \in SetupPids(command) /\ SetupPids(command) \subseteq Pids
      /\ current \in Int
  BY SetupAreProcesses, GeometryAssumption DEF IInv, TableInv, Pids
<1>4. RegsOf(current) = cpu
  BY <1>1 DEF RegsOf, Running
<1>0. PICK c : c = current
  OBVIOUS
<1>5. RegsOf(c)' = [rip |-> "init", rax |-> c]
  BY <1>0, <1>2 DEF RegsOf, Running, Return
<1>6. ProgramInv(c)
  BY <1>0, <1>1, <1>3 DEF IInv
<1>7. umem[c].heap_top = Unset
  BY <1>0, <1>1, <1>4, <1>6 DEF ProgramInv, HeapLabels
<1>8. ProgramInv(c)'
  BY <1>2, <1>5, <1>7 DEF ProgramInv, HeapLabels, ForkLabels
<1>9. OwnedPages(c)' = OwnedPages(c)
  BY <1>2, <1>7 DEF OwnedPages, HeapEnd
<1>10. \A p \in SetupPids(command) : OwnedPages(p)' = OwnedPages(p)
  <2> SUFFICES ASSUME NEW p \in SetupPids(command), p # c
               PROVE  OwnedPages(p)' = OwnedPages(p)
    BY <1>9
  <2>1. RegsOf(p)' = RegsOf(p)
    BY <1>1, <1>2, <1>3, OthersKeepRegs, <1>0
  <2> QED
    BY <1>2, <2>1, Untouched
<1>11. PagesInv' /\ pages' \in [Page -> {0, 1}]
  <2>1. v_' = 1
    BY <1>1, Viewer DEF syscall_getpid, memshow
  <2> QED
    BY <1>1, <1>2, <1>10, <2>1, Viewer DEF PagesInv
<1>12. memshow /\ showAge' = ResetAge
  BY DEF syscall_getpid
<1> QED
  BY <1>1, <1>2, <1>3, <1>8, <1>11, <1>12, DirectReturn, <1>0

LEMMA PageAllocInv ==
    ASSUME IInv, syscall_page_alloc
    PROVE  IInv'
<1>0. PICK c : c = current
  OBVIOUS
<1> DEFINE addr == umem[c].heap_top
<1>1. Live /\ TypeOK /\ mode = "user" /\ cpu.rip = "check"
      /\ addr # StackPage(c)
  BY <1>0 DEF Live, IInv, syscall_page_alloc
<1>2. c \in SetupPids(command) /\ SetupPids(command) \subseteq Pids
      /\ c \in 1 .. NALLOCATORS
  BY <1>0, SetupAreProcesses DEF IInv, TableInv
<1>3. RegsOf(c) = cpu
  BY <1>0, <1>1 DEF RegsOf, Running
<1>4. ProgramInv(c)
  BY <1>1, <1>2 DEF IInv
<1>5. addr \in Int /\ HeapStart(c) <= addr /\ addr < StackPage(c)
  <2>1. addr \in Int
    BY <1>1, <1>2 DEF TypeOK
  <2>2. StackPage(c) \in Nat
    BY <1>2, Regions
  <2>3. HeapStart(c) <= addr /\ addr <= StackPage(c)
    BY <1>1, <1>3, <1>4 DEF ProgramInv, HeapLabels
  <2> QED
    BY <1>1, <2>1, <2>2, <2>3
<1>6. addr \in Page /\ addr # 1 /\ addr \in Base(c) .. StackPage(c)
      /\ PROC_START_ADDR <= addr
  BY <1>2, <1>5, Regions, GeometryAssumption DEF Page
<1>7. OwnedPages(c) = SetupPages(c) \cup (HeapStart(c) .. addr - 1)
  <2>1. addr # Unset
    BY <1>6 DEF Page, Unset
  <2>2. HeapEnd(c) = addr + 0
    BY <1>1, <1>3, <2>1 DEF HeapEnd
  <2> QED
    BY <1>5, <2>2 DEF OwnedPages
<1>8. \A p \in SetupPids(command) : addr \notin OwnedPages(p)
  <2> SUFFICES ASSUME NEW p \in SetupPids(command)
               PROVE  addr \notin OwnedPages(p)
    OBVIOUS
  <2>1. p \in 1 .. NALLOCATORS /\ NALLOCATORS \in Nat
    BY SetupAreProcesses, GeometryAssumption
  <2>2. CASE p = c
    BY <1>2, <1>5, <1>7, <2>2, Regions DEF SetupPages, ImagePages
  <2>3. CASE p # c
    <3>1. OwnedPages(p) \subseteq Base(p) .. StackPage(p)
      BY <1>1, OwnedInRegion DEF IInv
    <3>2. StackPage(p) < Base(c) \/ StackPage(c) < Base(p)
      <4>1. CASE p < c
        BY <1>2, <2>1, <4>1, RegionsDisjoint
      <4>2. CASE c < p
        BY <1>2, <2>1, <4>2, RegionsDisjoint
      <4> QED
        BY <1>2, <2>1, <2>3, <4>1, <4>2
    <3>3. /\ Base(p) \in Nat /\ StackPage(p) \in Nat
          /\ Base(c) \in Nat /\ StackPage(c) \in Nat
      BY <1>2, <2>1, Regions
    <3> QED
      BY <1>6, <3>1, <3>2, <3>3
  <2> QED
    BY <2>2, <2>3
<1>9. refreshPages[addr] = 0
  BY <1>1, <1>6, <1>8, Viewer
<1>10. /\ mode' = "user" /\ pages' = [refreshPages EXCEPT ![addr] = 1]
       /\ After = "ret" /\ umem' = umem /\ command' = command /\ Return(0)
       /\ memshow /\ showAge' = ResetAge
  BY <1>0, <1>1, <1>9, Viewer DEF syscall_page_alloc, After
<1>11. RegsOf(c)' = [rip |-> "ret", rax |-> 0]
  BY <1>0, <1>10 DEF RegsOf, Running, Return
<1>12. ProgramInv(c)'
  BY <1>5, <1>10, <1>11, <1>2, Regions DEF ProgramInv, HeapLabels, ForkLabels
<1>13. OwnedPages(c)' = OwnedPages(c) \cup {addr}
  <2>1. addr # Unset
    BY <1>6 DEF Page, Unset
  <2>2. HeapEnd(c)' = addr + 1
    BY <1>10, <1>11, <2>1 DEF HeapEnd
  <2>3. OwnedPages(c)' = SetupPages(c) \cup (HeapStart(c) .. addr)
    BY <1>5, <2>2 DEF OwnedPages
  <2>4. HeapStart(c) \in Nat
    BY <1>2, Regions
  <2> QED
    BY <1>5, <1>7, <2>3, <2>4
<1>14. \A p \in SetupPids(command) : p # c => OwnedPages(p)' = OwnedPages(p)
  <2> SUFFICES ASSUME NEW p \in SetupPids(command), p # c
               PROVE  OwnedPages(p)' = OwnedPages(p)
    OBVIOUS
  <2>1. RegsOf(p)' = RegsOf(p)
    BY <1>1, <1>2, <1>10, OthersKeepRegs, <1>0
  <2> QED
    BY <1>10, <2>1, Untouched
<1>15. PagesInv' /\ pages' \in [Page -> {0, 1}]
  <2> HIDE DEF addr
  <2>1. v_' = 1 /\ refreshPages \in [Page -> {0, 1}]
    BY <1>1, <1>10, Viewer DEF memshow
  <2>2. \A pa \in Page : pages'[pa] = 1 <=> refreshPages[pa] = 1 \/ pa = addr
    BY <1>6, <1>10, <2>1
  <2>3. \A pa \in Page : refreshPages[pa] = 1 <=>
                \/ pa = 1
                \/ \E p \in SetupPids(command) : pa \in OwnedPages(p)
    BY <1>1, Viewer
  <2>4. \A pa : (\E p \in SetupPids(command) : pa \in OwnedPages(p)') <=>
                \/ \E p \in SetupPids(command) : pa \in OwnedPages(p)
                \/ pa = addr
    BY <1>2, <1>13, <1>14
  <2> QED
    BY <1>6, <1>10, <2>1, <2>2, <2>3, <2>4 DEF PagesInv
<1> QED
  BY <1>1, <1>10, <1>12, <1>15, DirectReturn, <1>0

LEMMA SavedForms ==
    ASSUME IInv, mode = "user", NEW r \in Registers
    PROVE  [ptable EXCEPT ![current].regs = r] =
           [ptable EXCEPT ![current] = [state |-> P_RUNNABLE, regs |-> r]]
<1>1. /\ ptable \in Table /\ current \in Pids
      /\ ptable[current].state = P_RUNNABLE
  BY DEF IInv, TypeOK, Table, TableInv
<1>2. [ptable[current] EXCEPT !.regs = r] = [state |-> P_RUNNABLE, regs |-> r]
  BY <1>1 DEF Table
<1> QED
  BY <1>1, <1>2 DEF Table

LEMMA YieldInv ==
    ASSUME IInv, syscall_yield
    PROVE  IInv'
<1>1. mode = "user" /\ Live /\ TypeOK
  BY DEF syscall_yield, Live, IInv
<1> DEFINE r == [rip |-> After, rax |-> 0]
<1>2. /\ memshow /\ showAge' = ResetAge /\ pages' = refreshPages
      /\ command' = command /\ umem' = umem /\ schedule(ptable')
      /\ ptable' = [ptable EXCEPT ![current] =
                        [state |-> P_RUNNABLE, regs |-> r]]
  <2>1. r \in Registers
    BY <1>1 DEF syscall_yield, After, Registers, Labels
  <2> QED
    BY <1>1, <2>1, Viewer, SavedForms DEF syscall_yield, Entered
<1>3. r \in Registers /\ \/ cpu.rip = "yield" /\ r.rip = "loop"
                         \/ cpu.rip = "idle" /\ r.rip = "idle"
                         \/ cpu.rip = "fork_yield" /\ r.rip = "fork_loop"
  BY DEF syscall_yield, After, Registers, Labels
<1>4. showAge' \in 0 .. ShowPeriod
  BY <1>1, <1>2, AgeType
<1> HIDE DEF r
<1> QED
  BY <1>1, <1>2, <1>3, <1>4, ContextSwitch

LEMMA TimerInv ==
    ASSUME IInv, exception_timer
    PROVE  IInv'
<1>1. mode = "user" /\ Live /\ TypeOK /\ cpu \in Registers
  BY DEF exception_timer, Live, IInv, TypeOK
<1>2. /\ memshow /\ pages' = refreshPages
      /\ command' = command /\ umem' = umem /\ schedule(ptable')
      /\ ptable' = [ptable EXCEPT ![current] =
                        [state |-> P_RUNNABLE, regs |-> cpu]]
  BY <1>1, Viewer, SavedForms DEF exception_timer, Saved
<1>3. showAge' \in 0 .. ShowPeriod
  BY <1>1, AgeType DEF exception_timer
<1> QED
  BY <1>1, <1>2, <1>3, ContextSwitch

LEMMA PageFaultInv ==
    ASSUME IInv, exception_page_fault
    PROVE  IInv'
<1>1. mode = "user" /\ Live /\ TypeOK /\ cpu \in Registers
  BY DEF exception_page_fault, Live, IInv, TypeOK
<1>2. /\ memshow /\ pages' = refreshPages
      /\ command' = command /\ umem' = umem /\ schedule(ptable')
      /\ ptable' = [ptable EXCEPT ![current] =
                        [state |-> P_BROKEN, regs |-> cpu]]
  BY <1>1, Viewer DEF exception_page_fault
<1>3. showAge' \in 0 .. ShowPeriod
  BY <1>1, AgeType DEF exception_page_fault
<1> QED
  BY <1>1, <1>2, <1>3, ContextSwitch

LEMMA ForkInv ==
    ASSUME IInv, syscall_fork
    PROVE  IInv'
<1>1. mode = "user" /\ Live /\ TypeOK /\ cpu.rip = "fork"
  BY DEF syscall_fork, Live, IInv
<1>2. /\ mode' = "panic" /\ command' = command /\ umem' = umem
      /\ current' = current /\ cpu' = cpu /\ bypass' = bypass
      /\ pages' = refreshPages /\ showAge' = ResetAge /\ memshow
      /\ ptable' = [ptable EXCEPT ![current].regs = cpu]
  <2>1. [rip |-> After, rax |-> cpu.rax] = cpu
    BY <1>1 DEF After, TypeOK, Registers
  <2> QED
    BY <1>1, <2>1, Viewer DEF syscall_fork, Entered
<1>3. command # "allocators"
  <2>1. current \in SetupPids(command) /\ RegsOf(current) = cpu
    BY <1>1 DEF IInv, TableInv, RegsOf, Running
  <2>2. ProgramInv(current)
    BY <1>1, <2>1 DEF IInv
  <2> QED
    BY <1>1, <2>1, <2>2 DEF ProgramInv, ForkLabels
<1>4. /\ v_' = 1 /\ next_alloc_pa' \in 0 .. MEMSIZE_PHYSICAL
      /\ showing' \in Pids /\ 1 \in Page /\ pages' \in [Page -> {0, 1}]
  BY <1>1, <1>2, Viewer DEF memshow
<1>5. ptable' \in Table /\ \A p \in Pids : ptable'[p].state = ptable[p].state
  BY <1>1, <1>2 DEF TypeOK, Table
<1>6. TypeOK'
  BY <1>1, <1>2, <1>4, <1>5, AgeType DEF TypeOK, Table
<1>7. TableInv' /\ KallocInv'
  BY <1>2, <1>4, <1>5 DEF TableInv, KallocInv, IInv, NoPage
<1> QED
  BY <1>2, <1>3, <1>6, <1>7
     DEF IInv, NoAssertFails, PidIsOwn, Live, BoundedBypass

LEMMA SpinInv ==
    ASSUME IInv, spin
    PROVE  IInv'
<1>1. mode = "spin" /\ Live /\ TypeOK
  BY DEF spin, Live, IInv
<1>2. /\ mode' = "spin" /\ command' = command /\ umem' = umem
      /\ current' = current /\ cpu' = cpu /\ bypass' = bypass
      /\ pages' = refreshPages /\ showAge' = ResetAge /\ memshow
      /\ ptable' = ptable
  BY <1>1, Viewer DEF spin
<1>3. /\ v_' = 1 /\ next_alloc_pa' \in 0 .. MEMSIZE_PHYSICAL
      /\ showing' \in Pids /\ 1 \in Page /\ pages' \in [Page -> {0, 1}]
  BY <1>1, <1>2, Viewer DEF memshow
<1>4. TypeOK'
  BY <1>1, <1>2, <1>3, AgeType DEF TypeOK
<1>5. TableInv' /\ KallocInv'
  BY <1>1, <1>2, <1>3 DEF TableInv, KallocInv, IInv, NoPage
<1>6. \A p \in SetupPids(command) : ProgramInv(p)' /\ OwnedPages(p)' = OwnedPages(p)
  <2> TAKE p \in SetupPids(command)
  <2>1. RegsOf(p)' = RegsOf(p)
    BY <1>1, <1>2 DEF RegsOf, Running
  <2> QED
    BY <1>1, <1>2, <2>1, Untouched DEF IInv
<1>7. PagesInv'
  BY <1>1, <1>2, <1>3, <1>6, Viewer DEF PagesInv
<1> QED
  BY <1>2, <1>4, <1>5, <1>6, <1>7
     DEF IInv, NoAssertFails, PidIsOwn, BoundedBypass

\* Steps of user code change the running process's registers and variables.
LEMMA UserInv ==
    ASSUME IInv, UserCode
    PROVE  IInv'
<1>0. PICK c : c = current
  OBVIOUS
<1>1. /\ mode = "user" /\ mode' = "user" /\ command' = command
      /\ pages' = pages /\ next_alloc_pa' = next_alloc_pa /\ v_' = v_
      /\ ptable' = ptable /\ current' = current /\ showing' = showing
      /\ showAge' = showAge /\ bypass' = bypass
  BY DEF UserCode, UserOnly, user_init, user_rand, user_full, user_allocated,
         user_forkexit
<1>2. Live /\ TypeOK
  BY <1>1 DEF Live, IInv
<1>3. c \in SetupPids(command) /\ SetupPids(command) \subseteq Pids
      /\ c \in 1 .. NALLOCATORS /\ c \in Pids
  BY <1>0, SetupAreProcesses DEF IInv, TableInv
<1>4. RegsOf(c) = cpu /\ RegsOf(c)' = cpu' /\ ProgramInv(c)
  BY <1>0, <1>1, <1>2, <1>3 DEF RegsOf, Running, IInv
<1>5. HeapStart(c) \in Nat /\ StackPage(c) \in Nat
      /\ HeapStart(c) <= StackPage(c)
  BY <1>3, Regions
<1>6. /\ cpu' \in Registers
      /\ umem' \in [Pids -> [me : Int, heap_top : Int]]
      /\ \A p \in Pids : p # c => umem'[p] = umem[p]
      /\ umem'[c].me \in {Unset, c}
      /\ ProgramInv(c)' /\ OwnedPages(c)' = OwnedPages(c)
  <2>0. cpu \in Registers /\ umem \in [Pids -> [me : Int, heap_top : Int]]
        /\ umem[c].me \in {Unset, c}
    BY <1>2, <1>3 DEF TypeOK, IInv, PidIsOwn
  <2>1. CASE user_init
    <3>1. cpu.rip = "init" /\ cpu' = [cpu EXCEPT !.rip = "loop"]
          /\ umem' = [umem EXCEPT ![c] = [me |-> cpu.rax,
                                          heap_top |-> HeapStart(c)]]
      BY <1>0, <2>1 DEF user_init, Goto
    <3>2. cpu.rax = c /\ umem[c].heap_top = Unset
      BY <1>4, <3>1 DEF ProgramInv, HeapLabels
    <3>3. cpu' \in Registers /\ cpu'.rip = "loop"
      BY <2>0, <3>1 DEF Registers, Labels
    <3>4. umem'[c].me = c /\ umem'[c].heap_top = HeapStart(c)
      BY <1>3, <2>0, <3>1, <3>2
    <3>5. umem' \in [Pids -> [me : Int, heap_top : Int]]
          /\ \A p \in Pids : p # c => umem'[p] = umem[p]
      BY <1>3, <1>5, <2>0, <3>1 DEF Registers
    <3>6. ProgramInv(c)'
      BY <1>1, <1>4, <1>5, <3>3, <3>4 DEF ProgramInv, HeapLabels, ForkLabels
    <3>7. OwnedPages(c)' = OwnedPages(c)
      BY <1>4, <1>5, <3>2, <3>3, <3>4 DEF OwnedPages, HeapEnd, Unset
    <3> QED
      BY <3>3, <3>4, <3>5, <3>6, <3>7
  <2>2. CASE user_allocated
    <3>1. cpu.rip = "ret" /\ umem[c].heap_top < StackPage(c)
          /\ cpu.rax = 0 /\ HeapStart(c) <= umem[c].heap_top
      BY <1>4, <2>2 DEF user_allocated, ProgramInv, HeapLabels
    <3>2. cpu' = [cpu EXCEPT !.rip = "yield"]
          /\ umem' = [umem EXCEPT ![c].heap_top = @ + 1]
      BY <1>0, <2>2, <3>1 DEF user_allocated, Goto
    <3>3. cpu' \in Registers /\ cpu'.rip = "yield"
      BY <2>0, <3>2 DEF Registers, Labels
    <3>4. umem'[c].me = umem[c].me /\ umem'[c].heap_top = umem[c].heap_top + 1
          /\ umem[c].heap_top \in Int
      BY <1>3, <2>0, <3>2
    <3>5. umem' \in [Pids -> [me : Int, heap_top : Int]]
          /\ \A p \in Pids : p # c => umem'[p] = umem[p]
      BY <1>3, <2>0, <3>2
    <3>6. ProgramInv(c)'
      BY <1>1, <1>4, <1>5, <3>1, <3>3, <3>4
         DEF ProgramInv, HeapLabels, ForkLabels
    <3>7. OwnedPages(c)' = OwnedPages(c)
      BY <1>4, <1>5, <3>1, <3>3, <3>4 DEF OwnedPages, HeapEnd, Unset
    <3> QED
      BY <2>0, <3>3, <3>4, <3>5, <3>6, <3>7
  <2>3. ASSUME umem' = umem,
               \E l \in Labels : cpu' = [cpu EXCEPT !.rip = l] /\
                    \/ cpu.rip \in {"loop", "check"}
                            /\ l \in {"check", "yield", "idle"}
                    \/ cpu.rip = "fork_loop" /\ l \in {"fork", "fork_yield"}
        PROVE  /\ cpu' \in Registers
               /\ ProgramInv(c)' /\ OwnedPages(c)' = OwnedPages(c)
    <3>1. PICK l \in Labels : cpu' = [cpu EXCEPT !.rip = l] /\
                    \/ cpu.rip \in {"loop", "check"}
                            /\ l \in {"check", "yield", "idle"}
                    \/ cpu.rip = "fork_loop" /\ l \in {"fork", "fork_yield"}
      BY <2>3
    <3>2. cpu' \in Registers /\ cpu'.rip = l
      BY <2>0, <3>1 DEF Registers
    <3>3. ProgramInv(c)'
      BY <1>1, <1>4, <2>3, <3>1, <3>2 DEF ProgramInv, HeapLabels, ForkLabels
    <3>4. OwnedPages(c)' = OwnedPages(c)
      BY <1>4, <2>3, <3>1, <3>2 DEF OwnedPages, HeapEnd
    <3> QED
      BY <3>2, <3>3, <3>4
  <2>4. CASE \E alloc \in BOOLEAN : user_rand(alloc)
    <3>1. umem' = umem /\ cpu.rip = "loop"
          /\ \/ cpu' = [cpu EXCEPT !.rip = "check"]
             \/ cpu' = [cpu EXCEPT !.rip = "yield"]
      BY <2>4 DEF user_rand, Goto
    <3> QED
      BY <2>0, <2>3, <3>1 DEF Labels
  <2>5. CASE user_full
    <3>1. umem' = umem /\ cpu.rip = "check" /\ cpu' = [cpu EXCEPT !.rip = "idle"]
      BY <2>5 DEF user_full, Goto
    <3> QED
      BY <2>0, <2>3, <3>1 DEF Labels
  <2>6. CASE \E fork \in BOOLEAN : user_forkexit(fork)
    <3>1. umem' = umem /\ cpu.rip = "fork_loop"
          /\ \/ cpu' = [cpu EXCEPT !.rip = "fork"]
             \/ cpu' = [cpu EXCEPT !.rip = "fork_yield"]
      BY <2>6 DEF user_forkexit, Goto
    <3> QED
      BY <2>0, <2>3, <3>1 DEF Labels
  <2> QED
    BY <2>1, <2>2, <2>4, <2>5, <2>6 DEF UserCode
<1>7. TypeOK'
  BY <1>1, <1>2, <1>6 DEF TypeOK
<1>8. TableInv' /\ KallocInv' /\ NoAssertFails'
  BY <1>1 DEF TableInv, KallocInv, NoAssertFails, IInv
<1>9. PidIsOwn' /\ BoundedBypass'
  BY <1>1, <1>6 DEF PidIsOwn, BoundedBypass, IInv
<1>10. \A p \in SetupPids(command) : ProgramInv(p)' /\ OwnedPages(p)' = OwnedPages(p)
  <2> SUFFICES ASSUME NEW p \in SetupPids(command), p # c
               PROVE  ProgramInv(p)' /\ OwnedPages(p)' = OwnedPages(p)
    BY <1>6
  <2>1. RegsOf(p)' = RegsOf(p) /\ umem'[p] = umem[p]
    BY <1>0, <1>1, <1>3, <1>6 DEF RegsOf, Running
  <2> QED
    BY <1>1, <1>2, <2>1, Untouched DEF IInv
<1>11. PagesInv'
  BY <1>1, <1>2, <1>10 DEF PagesInv, IInv
<1> QED
  BY <1>1, <1>7, <1>8, <1>9, <1>10, <1>11 DEF IInv

LEMMA PowerOffInv ==
    ASSUME IInv, PowerOff
    PROVE  IInv'
  BY DEF IInv, PowerOff, TypeOK, NoAssertFails, PidIsOwn,
         TableInv, KallocInv, Live, BoundedBypass

LEMMA StutterInv ==
    ASSUME IInv, UNCHANGED vars
    PROVE  IInv'
  BY DEF IInv, vars, TypeOK, NoAssertFails, PidIsOwn,
         TableInv, KallocInv, Live, ProgramInv, RegsOf, Running, PagesInv,
         OwnedPages, HeapEnd, BoundedBypass

LEMMA NextInv == IInv /\ [Next]_vars => IInv'
<1> SUFFICES ASSUME IInv, [Next]_vars PROVE IInv'
  OBVIOUS
<1>1. CASE SystemCall
  BY <1>1, GetpidInv, PageAllocInv, YieldInv, ForkInv DEF SystemCall
<1>2. CASE exception_timer
  BY <1>2, TimerInv
<1>3. CASE exception_page_fault
  BY <1>3, PageFaultInv
<1>4. CASE spin
  BY <1>4, SpinInv
<1>5. CASE check_keyboard
  <2>1. CASE \E prog \in Prog : SoftReboot(prog)
    BY <2>1, RebootInv DEF IInv
  <2>2. CASE PowerOff
    BY <2>2, PowerOffInv
  <2> QED
    BY <1>5, <2>1, <2>2 DEF check_keyboard, Prog
<1>6. CASE UserCode
  BY <1>6, UserInv
<1>7. CASE UNCHANGED vars
  BY <1>7, StutterInv
<1> QED
  BY <1>1, <1>2, <1>3, <1>4, <1>5, <1>6, <1>7 DEF Next

\* The inductive invariant holds in every reachable state of the kernel.
THEOREM Invariance == Spec => []IInv
  BY InitInv, NextInv, PTL DEF Spec

(***************************************************************************)
(* Consequences.                                                           *)
(***************************************************************************)

\* Every state of the kernel is well typed.
THEOREM TypeCorrect == Spec => []TypeOK
<1>1. IInv => TypeOK
  BY DEF IInv
<1> QED
  BY <1>1, Invariance, PTL

\* No assertion of the kernel fails, for every layout of memory, number of
\* processes, set of faulting processes and sequence of soft reboots.
THEOREM AssertionsHold == Spec => []NoAssertFails
<1>1. IInv => NoAssertFails
  BY DEF IInv
<1> QED
  BY <1>1, Invariance, PTL

\* A process's registers survive the context switch after sys_getpid.
THEOREM RegistersSurvive == Spec => []PidIsOwn
<1>1. IInv => PidIsOwn
  BY DEF IInv
<1> QED
  BY <1>1, Invariance, PTL

\* schedule() is a bounded-bypass round robin for every NPROC.
THEOREM RoundRobin == Spec => []BoundedBypass
<1>1. IInv => BoundedBypass
  BY DEF IInv
<1> QED
  BY <1>1, Invariance, PTL

\* The used pages are exactly the pages that have an owner.
THEOREM PagesAccounted == Spec => []PageAccounting
<1>1. IInv => PageAccounting
  <2> SUFFICES ASSUME IInv, Live PROVE UsedPages =
                ViewerPages \cup UNION {OwnedPages(p) : p \in LoadedPids}
    BY DEF PageAccounting, Live
  <2>1. LoadedPids = SetupPids(command)
    BY SetupAreProcesses DEF LoadedPids, IInv, TableInv
  <2>2. \A p \in SetupPids(command) : OwnedPages(p) \subseteq Page
    <3> TAKE p \in SetupPids(command)
    <3>1. OwnedPages(p) \subseteq Base(p) .. StackPage(p)
      BY OwnedInRegion DEF IInv
    <3>2. p \in 1 .. NALLOCATORS
      BY SetupAreProcesses
    <3>3. /\ Base(p) \in Nat /\ StackPage(p) \in Nat
          /\ StackPage(p) < MEMSIZE_PHYSICAL
      BY <3>2, Regions
    <3> QED
      BY <3>1, <3>3, GeometryAssumption DEF Page
  <2>3. 1 \in Page
    BY Viewer
  <2>4. \A pa \in Page : pages[pa] # 0 <=> pages[pa] = 1
    BY DEF IInv, TypeOK
  <2>5. ViewerPages \subseteq Page /\ \A pa \in Page : pa \in ViewerPages <=> pa = v_
    BY <2>3 DEF ViewerPages, IInv, KallocInv, NoPage, Page
  <2> QED
    BY <2>1, <2>2, <2>4, <2>5 DEF UsedPages, IInv, PagesInv
<1> QED
  BY <1>1, Invariance, PTL

\* No page has two owners.
THEOREM PagesExclusive == Spec => []PageOwnership
<1>1. IInv => PageOwnership
  <2> SUFFICES ASSUME IInv, Live, NEW p \in LoadedPids
               PROVE  /\ \A q \in LoadedPids \ {p} :
                            OwnedPages(p) \cap OwnedPages(q) = {}
                      /\ OwnedPages(p) \cap ViewerPages = {}
                      /\ StackPage(p) \notin HeapStart(p) .. HeapEnd(p) - 1
    BY DEF PageOwnership, Live
  <2>1. LoadedPids = SetupPids(command) /\ NALLOCATORS \in Nat
        /\ LoadedPids \subseteq 1 .. NALLOCATORS
    BY SetupAreProcesses, GeometryAssumption DEF LoadedPids, IInv, TableInv
  <2>2. \A q \in LoadedPids :
            /\ OwnedPages(q) \subseteq Base(q) .. StackPage(q)
            /\ Base(q) \in Nat /\ StackPage(q) \in Nat
            /\ PROC_START_ADDR <= Base(q)
            /\ StackPage(q) \notin HeapStart(q) .. HeapEnd(q) - 1
    BY <2>1, OwnedInRegion, Regions DEF IInv
  <2>3. ASSUME NEW q \in LoadedPids, q # p
        PROVE  OwnedPages(p) \cap OwnedPages(q) = {}
    <3>1. StackPage(p) < Base(q) \/ StackPage(q) < Base(p)
      <4>1. CASE p < q
        BY <2>1, <4>1, RegionsDisjoint
      <4>2. CASE q < p
        BY <2>1, <4>2, RegionsDisjoint
      <4> QED
        BY <2>1, <2>3, <4>1, <4>2
    <3> QED
      BY <2>2, <3>1
  <2>4. 1 \notin OwnedPages(p)
    BY <2>2, GeometryAssumption
  <2>5. OwnedPages(p) \cap ViewerPages = {}
    BY <2>4 DEF ViewerPages, IInv, KallocInv
  <2> QED
    BY <2>2, <2>3, <2>5
<1> QED
  BY <1>1, Invariance, PTL

=============================================================================
