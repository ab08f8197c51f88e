---------------------------- MODULE WeensyKernel ----------------------------
(***************************************************************************)
(* The WeensyOS kernel (weensyos/kernel.cc) on its single CPU, with the    *)
(* processes it loads.  Addresses are page numbers.  User code runs one    *)
(* program step at a time and may be interrupted by the timer between any  *)
(* two of them.  Interrupts are disabled in the kernel, so each entry      *)
(* into it (system call, timer interrupt, page fault) is one action, from  *)
(* the saving of the registers to the return to user mode.  Each entry     *)
(* draws the memory viewer and polls the keyboard before it is handled.    *)
(*                                                                         *)
(* All processes share kernel_pagetable, which maps every physical page    *)
(* but page 0 at its own address, so a page is named by one number.        *)
(***************************************************************************)
EXTENDS Integers, FiniteSets

CONSTANTS
    NPROC,              \* size of ptable; ptable[0] is never used
    NALLOCATORS,        \* allocator processes a plain boot sets up (4)
    PROC_START_ADDR,    \* first page of process 1
    PROC_SIZE,          \* pages in the region of one process
    IMAGE_SIZE,         \* pages of a program's loadable segments
    MEMSIZE_PHYSICAL,   \* number of physical pages (NPAGES)
    KERNEL_START_ADDR,  \* first page of the kernel image
    KERNEL_END,         \* first page after the kernel image
    KERNEL_STACK_TOP,   \* first page after the kernel stack page
    IOPHYSMEM,          \* first page of I/O memory
    EXTPHYSMEM,         \* first page after I/O memory
    HZ,                 \* timer interrupts per second
    Programs,           \* programs a boot may be asked to run
    Faulting,           \* processes whose program may touch a missing page
    Keys                \* keys that may be typed

ASSUME GeometryAssumption ==
    /\ NPROC \in Nat /\ NALLOCATORS \in 1 .. NPROC - 1
    /\ PROC_SIZE \in Nat /\ IMAGE_SIZE \in 1 .. PROC_SIZE - 1
    /\ KERNEL_START_ADDR \in Nat /\ 1 < KERNEL_START_ADDR
    /\ KERNEL_END \in Nat /\ KERNEL_STACK_TOP \in Nat \ {0}
    /\ KERNEL_START_ADDR < KERNEL_STACK_TOP - 1
    /\ IOPHYSMEM \in Nat /\ KERNEL_STACK_TOP <= IOPHYSMEM
    /\ EXTPHYSMEM \in Nat /\ IOPHYSMEM < EXTPHYSMEM
    /\ PROC_START_ADDR \in Nat /\ EXTPHYSMEM <= PROC_START_ADDR
    /\ MEMSIZE_PHYSICAL \in Nat
    /\ PROC_START_ADDR + PROC_SIZE * NALLOCATORS <= MEMSIZE_PHYSICAL
    /\ HZ \in Nat /\ 2 <= HZ

ASSUME InputAssumption ==
    /\ Programs # {}
    /\ Programs \subseteq {"allocators", "fork", "forkexit"}
    /\ Faulting \subseteq 1 .. NPROC - 1
    /\ Keys \subseteq {"a", "f", "e", "q"}

VARIABLES
    mode,           \* "user", "spin" (schedule finds nothing), "panic",
                    \* "assert" (a kernel assertion failed) or "off"
    command,        \* the program this boot was asked to run
    pages,          \* pages[pa].refcount
    next_alloc_pa,  \* kalloc's cursor
    v_,             \* the page memusage::refresh allocated, or NoPage
    ptable,         \* ptable[pid]: state and saved registers
    current,        \* pid of the running process
    cpu,            \* the registers in the CPU while in user mode
    showing,        \* memshow's static `showing`
    showAge,        \* ticks - last_ticks, saturated at HZ/2
    umem,           \* variables of each process's program: p, heap_top
    bypass          \* history: dispatches of others since pid last ran,
                    \* counted up to NPROC + 1

kernelVars == <<mode, command, pages, next_alloc_pa, v_, ptable, current,
                cpu, showing, showAge, bypass>>
vars == <<mode, command, pages, next_alloc_pa, v_, ptable, current, cpu,
          showing, showAge, umem, bypass>>

-----------------------------------------------------------------------------
(* Memory layout                                                           *)

Pids == 0 .. NPROC - 1
Page == 0 .. MEMSIZE_PHYSICAL - 1
NoPage == -1
Unset == -1

reserved_physical_address(pa) ==
    pa < 1 \/ (IOPHYSMEM <= pa /\ pa < EXTPHYSMEM)

allocatable_physical_address(pa) ==
    /\ ~reserved_physical_address(pa)
    /\ pa < KERNEL_START_ADDR \/ KERNEL_END <= pa
    /\ pa < KERNEL_STACK_TOP - 1 \/ KERNEL_STACK_TOP <= pa
    /\ pa < MEMSIZE_PHYSICAL

\* Where the linker scripts place the program of process p.
Base(p) == PROC_START_ADDR + PROC_SIZE * (p - 1)

\* round_up(end): the first page after the program's segments.
HeapStart(p) == Base(p) + IMAGE_SIZE

\* The page process_setup gives process p as its stack.
StackPage(p) == PROC_START_ADDR + PROC_SIZE * p - 1

ImagePages(p) == Base(p) .. HeapStart(p) - 1

\* What process_setup claims for process p.
SetupPages(p) == ImagePages(p) \cup {StackPage(p)}

-----------------------------------------------------------------------------
(* Registers and process descriptors                                       *)

P_FREE == "P_FREE"
P_RUNNABLE == "P_RUNNABLE"
P_BROKEN == "P_BROKEN"

\* Points of p-allocator.cc, p-fork.cc and p-forkexit.cc at which a process
\* makes a system call or takes a decision.
Labels == {"getpid", "init", "loop", "check", "ret", "yield", "idle",
           "fork", "fork_loop", "fork_yield"}

Registers == [rip : Labels, rax : Int]

EntryPoint(prog) == CASE prog = "fork"     -> "fork"
                      [] prog = "forkexit" -> "fork_loop"
                      [] OTHER             -> "getpid"

InitialRegs(prog) == [rip |-> EntryPoint(prog), rax |-> 0]

\* The processes kernel() sets up: the named program as process 1, or, for a
\* command that names no program, the allocators.
SetupPids(prog) == IF prog = "allocators" THEN 1 .. NALLOCATORS ELSE {1}

-----------------------------------------------------------------------------
(* kalloc and the memory viewer                                            *)

\* Pages the loop of kalloc would return, its first one being the smallest.
KallocCandidates ==
    {pa \in next_alloc_pa .. MEMSIZE_PHYSICAL - 1 :
        allocatable_physical_address(pa) /\ pages[pa] = 0}

kalloc == IF KallocCandidates = {} THEN NoPage
          ELSE CHOOSE pa \in KallocCandidates :
                    \A q \in KallocCandidates : pa <= q

\* Mutant: kalloc forgets to count its page as used.
refreshPages_uncounted == pages

\* memusage::refresh allocates its page map on the first call.
refreshPages == IF v_ = NoPage /\ kalloc # NoPage
                THEN [pages EXCEPT ![kalloc] = 1] ELSE pages
refreshV == IF v_ = NoPage THEN kalloc ELSE v_
refreshCursor == IF v_ # NoPage THEN next_alloc_pa
                 ELSE IF kalloc = NoPage THEN MEMSIZE_PHYSICAL ELSE kalloc + 1

\* The assertions of console_memviewer and memusage::refresh.
memshowOK == ptable[0].state = P_FREE /\ refreshV # NoPage

ShowPeriod == HZ \div 2

\* memshow moves on when the period is over, then to the next process that
\* is not free (every process shares the kernel's page table).
memshowDue == showAge >= ShowPeriod
\* Mutant: the viewer never moves on.
memshowStart_stuck == showing

memshowStart == IF memshowDue THEN (showing + 1) % NPROC ELSE showing
\* Mutant: the index is not reduced modulo NPROC.
memshowShowing_nowrap ==
    LET hits == {i \in 0 .. NPROC - 1 :
                    ptable[(memshowStart + i) % NPROC].state # P_FREE}
    IN IF hits = {} THEN memshowStart
       ELSE memshowStart + CHOOSE i \in hits : \A j \in hits : i <= j

memshowShowing ==
    LET hits == {i \in 0 .. NPROC - 1 :
                    ptable[(memshowStart + i) % NPROC].state # P_FREE}
    IN IF hits = {} THEN memshowStart
       ELSE (memshowStart + CHOOSE i \in hits : \A j \in hits : i <= j) % NPROC

memshow ==
    /\ showing' = memshowShowing
    /\ next_alloc_pa' = refreshCursor
    /\ v_' = refreshV

-----------------------------------------------------------------------------
(* Scheduling                                                              *)

\* schedule() looks at NPROC descriptors, starting after the current one and
\* ending with it.
Offsets(pt) == {i \in 1 .. NPROC :
                    pt[(current + i) % NPROC].state = P_RUNNABLE}

\* Mutant: the search starts at the first descriptor, not after the current.
NextRunnable_first(pt) ==
    CHOOSE p \in Pids : /\ pt[p].state = P_RUNNABLE
                        /\ \A q \in Pids : pt[q].state = P_RUNNABLE => p <= q

NextRunnable(pt) ==
    (current + CHOOSE i \in Offsets(pt) : \A j \in Offsets(pt) : i <= j) % NPROC

\* run(p): the process's saved registers go back to the CPU.
run(p, pt) ==
    /\ current' = p
    /\ cpu' = pt[p].regs
    /\ bypass' = [q \in Pids |->
                    IF q = p \/ pt[q].state # P_RUNNABLE THEN 0
                    ELSE IF bypass[q] > NPROC THEN bypass[q]
                    ELSE bypass[q] + 1]
    /\ mode' = IF pt[p].state = P_RUNNABLE THEN "user" ELSE "assert"

\* schedule(), with pt the process table the handler leaves.  With nothing
\* runnable it spins.
schedule(pt) ==
    IF Offsets(pt) # {}
    THEN run(NextRunnable(pt), pt)
    ELSE mode' = "spin" /\ UNCHANGED <<current, cpu, bypass>>

-----------------------------------------------------------------------------
(* Boot and soft reboot                                                    *)

\* Mutant: the soft reboot does not clear the kernel's zero-initialised data.
PristinePages_kept(old) == old

\* The kernel's data as the boot loader, or stash_kernel_data before a soft
\* reboot, leaves it: refcounts and the allocator's cursor are zero.
PristinePages(old) == [pa \in Page |-> 0]

\* process_setup asserts that no page it claims is in use already.
process_setupOK(pgs, prog) ==
    /\ \A p \in SetupPids(prog) : \A pa \in SetupPages(p) : pgs[pa] = 0
    /\ \A p \in SetupPids(prog) : StackPage(p) \notin ImagePages(p)
    /\ \A p, q \in SetupPids(prog) :
            p # q => SetupPages(p) \cap SetupPages(q) = {}

process_setup(pgs, prog) ==
    [pa \in Page |-> IF \E p \in SetupPids(prog) : pa \in SetupPages(p)
                     THEN 1 ELSE pgs[pa]]

BootTable(prog) ==
    [p \in Pids |->
        [state |-> IF p \in SetupPids(prog) THEN P_RUNNABLE ELSE P_FREE,
         regs  |-> InitialRegs(prog)]]

\* kernel(command), and the return to user mode of its run(&ptable[1]).
Init ==
    /\ command \in Programs
    /\ pages = process_setup([pa \in Page |-> 0], command)
    /\ mode = IF process_setupOK([pa \in Page |-> 0], command)
              THEN "user" ELSE "assert"
    /\ next_alloc_pa = 0
    /\ v_ = NoPage
    /\ ptable = BootTable(command)
    /\ current = 1
    /\ cpu = InitialRegs(command)
    /\ showing = 0
    /\ showAge = ShowPeriod
    /\ umem = [p \in Pids |-> [me |-> Unset, heap_top |-> Unset]]
    /\ bypass = [p \in Pids |-> 0]

\* check_keyboard's soft reboot: kernel data back to its initial value, then
\* kernel(prog) from the start.
SoftReboot(prog) ==
    /\ command' = prog
    /\ pages' = process_setup(PristinePages(pages), prog)
    /\ mode' = IF process_setupOK(PristinePages(pages), prog)
               THEN "user" ELSE "assert"
    /\ next_alloc_pa' = 0
    /\ v_' = NoPage
    /\ ptable' = BootTable(prog)
    /\ current' = 1
    /\ cpu' = InitialRegs(prog)
    /\ showing' = 0
    /\ showAge' = ShowPeriod
    /\ umem' = [p \in Pids |-> [me |-> Unset, heap_top |-> Unset]]
    /\ bypass' = [p \in Pids |-> 0]

PowerOff ==
    /\ mode' = "off"
    /\ UNCHANGED <<command, pages, next_alloc_pa, v_, ptable, current, cpu,
                   showing, showAge, umem, bypass>>

\* check_keyboard: every kernel entry, every turn of schedule's loop and the
\* loop of fail() poll it.  This action is a poll that finds a control key;
\* what the same entry did before the poll is lost in the reboot.
check_keyboard ==
    /\ mode \in {"user", "spin", "panic", "assert"}
    /\ \/ "a" \in Keys /\ SoftReboot("allocators")
       \/ "f" \in Keys /\ SoftReboot("fork")
       \/ "e" \in Keys /\ SoftReboot("forkexit")
       \/ "q" \in Keys /\ PowerOff

-----------------------------------------------------------------------------
(* Kernel entries that find no control key                                 *)

\* Mutant: exception() does not copy the registers into the descriptor.
Saved_nothing == ptable

Saved == [ptable EXCEPT ![current].regs = cpu]
ResetAge == IF memshowDue THEN 0 ELSE showAge

\* Where the user program goes on after its system call.
After == CASE cpu.rip = "getpid"     -> "init"
           [] cpu.rip = "check"      -> "ret"
           [] cpu.rip = "yield"      -> "loop"
           [] cpu.rip = "fork_yield" -> "fork_loop"
           [] OTHER                  -> cpu.rip

Entered(rax) == [ptable EXCEPT ![current].regs = [rip |-> After, rax |-> rax]]

\* A system call that returns straight to its caller with `value` in %rax.
Return(value) ==
    /\ cpu' = [rip |-> After, rax |-> value]
    /\ ptable' = Entered(cpu.rax)
    /\ UNCHANGED <<current, bypass>>

syscall_getpid ==
    /\ mode = "user" /\ cpu.rip = "getpid"
    /\ memshow /\ showAge' = ResetAge
    /\ pages' = refreshPages
    /\ mode' = IF memshowOK THEN "user" ELSE "assert"
    /\ Return(current)
    /\ UNCHANGED <<command, umem>>

\* Mutant: neither the program nor the kernel looks whether the page is free.
syscall_page_alloc_unchecked ==
    LET addr == umem[current].heap_top
    IN /\ mode = "user" /\ cpu.rip = "check"
       /\ addr \in Page
       /\ memshow /\ showAge' = ResetAge
       /\ UNCHANGED mode
       /\ pages' = [refreshPages EXCEPT ![addr] = 1]
       /\ Return(0)
       /\ UNCHANGED <<command, umem>>

\* SYSCALL_PAGE_ALLOC for heap_top, with syscall_page_alloc's assertion.
syscall_page_alloc ==
    LET addr == umem[current].heap_top
    IN /\ mode = "user" /\ cpu.rip = "check"
       /\ addr # StackPage(current)
       /\ memshow /\ showAge' = ResetAge
       /\ mode' = IF memshowOK /\ refreshPages[addr] = 0
                  THEN "user" ELSE "assert"
       /\ pages' = [refreshPages EXCEPT ![addr] = 1]
       /\ Return(0)
       /\ UNCHANGED <<command, umem>>

syscall_yield ==
    /\ mode = "user" /\ cpu.rip \in {"yield", "idle", "fork_yield"}
    /\ memshow /\ showAge' = ResetAge
    /\ pages' = refreshPages
    /\ ptable' = Entered(0)
    /\ IF memshowOK THEN schedule(ptable')
       ELSE mode' = "assert" /\ UNCHANGED <<current, cpu, bypass>>
    /\ UNCHANGED <<command, umem>>

\* syscall_fork (and syscall_exit, which no program reaches): panic.
syscall_fork ==
    /\ mode = "user" /\ cpu.rip = "fork"
    /\ memshow /\ showAge' = ResetAge
    /\ pages' = refreshPages
    /\ ptable' = Entered(cpu.rax)
    /\ mode' = IF memshowOK THEN "panic" ELSE "assert"
    /\ UNCHANGED <<command, umem, current, cpu, bypass>>

\* exception() for the timer: the tick is counted after memshow.
exception_timer ==
    /\ mode = "user"
    /\ memshow
    /\ showAge' = IF ResetAge < ShowPeriod THEN ResetAge + 1 ELSE ShowPeriod
    /\ pages' = refreshPages
    /\ ptable' = Saved
    /\ IF memshowOK THEN schedule(ptable')
       ELSE mode' = "assert" /\ UNCHANGED <<current, cpu, bypass>>
    /\ UNCHANGED <<command, umem>>

\* exception() for a page fault in user mode: the process is broken.
exception_page_fault ==
    /\ mode = "user" /\ current \in Faulting
    /\ memshow /\ showAge' = ResetAge
    /\ pages' = refreshPages
    /\ ptable' = [ptable EXCEPT ![current] = [state |-> P_BROKEN, regs |-> cpu]]
    /\ IF memshowOK THEN schedule(ptable')
       ELSE mode' = "assert" /\ UNCHANGED <<current, cpu, bypass>>
    /\ UNCHANGED <<command, umem>>

\* schedule's loop while nothing is runnable: every 4096 turns it draws.
spin ==
    /\ mode = "spin"
    /\ memshow /\ showAge' = ResetAge
    /\ pages' = refreshPages
    /\ mode' = IF memshowOK THEN "spin" ELSE "assert"
    /\ UNCHANGED <<command, ptable, current, cpu, umem, bypass>>

-----------------------------------------------------------------------------
(* User programs                                                           *)

Goto(label) == cpu' = [cpu EXCEPT !.rip = label]

UserOnly == UNCHANGED <<mode, command, pages, next_alloc_pa, v_, ptable,
                        current, showing, showAge, bypass>>

\* pid_t p = sys_getpid(); ... heap_top = round_up(end).
user_init ==
    /\ mode = "user" /\ cpu.rip = "init"
    /\ umem' = [umem EXCEPT ![current] = [me |-> cpu.rax,
                                          heap_top |-> HeapStart(current)]]
    /\ Goto("loop")
    /\ UserOnly

\* rand(0, ALLOC_SLOWDOWN - 1) < p, either way.
user_rand(alloc) ==
    /\ mode = "user" /\ cpu.rip = "loop"
    /\ Goto(IF alloc THEN "check" ELSE "yield")
    /\ UserOnly /\ UNCHANGED umem

\* heap_top == stack_bottom: out of address space.
user_full ==
    /\ mode = "user" /\ cpu.rip = "check"
    /\ umem[current].heap_top = StackPage(current)
    /\ Goto("idle")
    /\ UserOnly /\ UNCHANGED umem

\* Mutant: heap_top is not moved past the new page.
user_allocated_stuck ==
    /\ mode = "user" /\ cpu.rip = "ret"
    /\ Goto(IF cpu.rax < 0 THEN "idle" ELSE "yield")
    /\ UserOnly /\ UNCHANGED umem

\* After sys_page_alloc: give up, or write to the page and move heap_top.
user_allocated ==
    /\ mode = "user" /\ cpu.rip = "ret"
    /\ Goto(IF cpu.rax < 0 THEN "idle" ELSE "yield")
    /\ umem' = [umem EXCEPT ![current].heap_top =
                                IF cpu.rax < 0 THEN @ ELSE @ + 1]
    /\ UserOnly

\* p-forkexit's first loop: fork or yield.
user_forkexit(fork) ==
    /\ mode = "user" /\ cpu.rip = "fork_loop"
    /\ Goto(IF fork THEN "fork" ELSE "fork_yield")
    /\ UserOnly /\ UNCHANGED umem

-----------------------------------------------------------------------------
SystemCall == syscall_getpid \/ syscall_page_alloc \/ syscall_yield
                             \/ syscall_fork

UserCode == \/ user_init
            \/ \E alloc \in BOOLEAN : user_rand(alloc)
            \/ user_full
            \/ user_allocated
            \/ \E fork \in BOOLEAN : user_forkexit(fork)

Next == \/ SystemCall
        \/ exception_timer
        \/ exception_page_fault
        \/ spin
        \/ check_keyboard
        \/ UserCode

Spec == Init /\ [][Next]_vars

-----------------------------------------------------------------------------
(* Safety                                                                  *)

Running(p) == mode = "user" /\ p = current
RegsOf(p) == IF Running(p) THEN cpu ELSE ptable[p].regs

\* Every variable keeps its type: refcounts are 0 or 1, the cursor stays in
\* physical memory, saved and live registers are registers.
TypeOK ==
    /\ mode \in {"user", "spin", "panic", "assert", "off"}
    /\ command \in {"allocators", "fork", "forkexit"}
    /\ pages \in [Page -> {0, 1}]
    /\ next_alloc_pa \in 0 .. MEMSIZE_PHYSICAL
    /\ v_ \in Page \cup {NoPage}
    /\ ptable \in [Pids -> [state : {P_FREE, P_RUNNABLE, P_BROKEN},
                            regs : Registers]]
    /\ current \in Pids
    /\ cpu \in Registers
    /\ showing \in Pids
    /\ showAge \in 0 .. ShowPeriod
    /\ umem \in [Pids -> [me : Int, heap_top : Int]]
    /\ bypass \in [Pids -> Nat]

\* No kernel assertion ever fails, over any interleaving of processes, timer
\* interrupts, faults and soft reboots: process_setup and syscall_page_alloc
\* only claim free pages, the memory viewer gets its page, run only runs
\* runnable processes.
NoAssertFails == mode # "assert"

\* First page after the heap of process p, counting a page the kernel has
\* given to it and the program has not yet moved heap_top past.
HeapEnd(p) ==
    IF umem[p].heap_top = Unset THEN HeapStart(p)
    ELSE umem[p].heap_top + (IF RegsOf(p).rip = "ret" THEN 1 ELSE 0)

OwnedPages(p) == SetupPages(p) \cup (HeapStart(p) .. HeapEnd(p) - 1)

ViewerPages == IF v_ = NoPage THEN {} ELSE {v_}

UsedPages == {pa \in Page : pages[pa] # 0}

LoadedPids == {p \in Pids : ptable[p].state # P_FREE}

\* The pages the kernel counts as used are exactly the ones a process believes
\* it has (its image, its stack, its heap up to heap_top) and the memory
\* viewer's page: kalloc and sys_page_alloc never hand out a page in use and
\* no page leaks.
PageAccounting ==
    mode \in {"user", "spin"} =>
        UsedPages = ViewerPages \cup UNION {OwnedPages(p) : p \in LoadedPids}

\* No page belongs to two owners.
PageOwnership ==
    mode \in {"user", "spin"} =>
        \A p \in LoadedPids :
            /\ \A q \in LoadedPids \ {p} : OwnedPages(p) \cap OwnedPages(q) = {}
            /\ OwnedPages(p) \cap ViewerPages = {}
            /\ StackPage(p) \notin HeapStart(p) .. HeapEnd(p) - 1

\* Registers survive context switches: the value sys_getpid left in %rax is
\* still there when the process stores it, whatever ran in between.
PidIsOwn == \A p \in Pids : umem[p].me \in {Unset, p}

\* How many turns of schedule's loop after process c process p is looked at.
Distance(c, p) == IF p > c THEN p - c ELSE p - c + NPROC

\* Round robin: a runnable process is passed over fewer than NPROC times, and
\* the turns left to it shrink with every dispatch of another process.
BoundedBypass ==
    mode = "user" =>
        \A p \in Pids : ptable[p].state = P_RUNNABLE =>
            bypass[p] + Distance(current, p) <= NPROC

-----------------------------------------------------------------------------
(* Liveness                                                                *)

\* The local APIC's timer fires again and again in user mode.
TimerFairness == WF_vars(exception_timer)

\* A process gets to take its steps between interrupts, and its generator
\* draws every value again and again.
UserFairness ==
    /\ \A p \in Pids : SF_vars(current = p /\ (SystemCall \/ UserCode))
    /\ \A p \in Pids : SF_vars(current = p /\ user_rand(TRUE))

TimerSpec == Spec /\ TimerFairness

\* No runnable process starves, even if no process ever yields: the timer
\* interrupt and schedule's round robin reach it.
NoStarvation ==
    \A p \in Pids :
        []<>(current = p \/ ptable[p].state # P_RUNNABLE \/ mode # "user")

\* The memory viewer comes back to every loaded process, including broken
\* ones.
ViewerRotates ==
    \A p \in Pids :
        []<>(showing = p \/ ptable[p].state = P_FREE \/ mode # "user")

\* Every allocator process that does not fault fills its address space up to
\* its stack, if processes get to run between interrupts.
AllocatorsFinish ==
    UserFairness =>
        \A p \in 1 .. NALLOCATORS :
            <>(umem[p].heap_top = StackPage(p) \/ ptable[p].state = P_BROKEN)

=============================================================================
