# A TLA+ verification project for the CS 300 projects

The repository holds six independent course projects. Two of them contain a
system with state that several actors share: **WeensyOS**, a small operating
system kernel with its user programs, devices and C library, and **Vunmo**, a
multi-threaded payment server with its clients. **fileio** has three
implementations of one file interface and seven programs that use it,
**dmalloc** an allocator that keeps freed blocks, and **distributed-store** the
arithmetic of key ranges. The rest (`strvec`, the servers of distributed-store)
are stubs that students fill in.

Code that the repository leaves as a stub is not modelled as if it did
something. The exceptions are the thread loops, the queue and the account lookup
of Vunmo, which the implemented functions need around them: they are modelled
from the comments that stand in their place and are marked external in
`PROJECT.json`.

## Inventory

| Component | State | Operations | What is hard | What makes it correct |
|---|---|---|---|---|
| WeensyOS kernel (`kernel.cc`, `k-hardware.cc`, `k-memviewer.cc`) | `pages[]` refcounts, `next_alloc_pa`, `ptable[]`, `current`, the CPU's registers, `memshow`'s statics, the viewer's page | boot, `process_setup`, four system calls, timer, page fault, `schedule`, `memshow`, `check_keyboard` with soft reboot and power-off | a timer interrupt between any two user instructions; faults; a reboot from any state, panic included; static variables that survive or do not survive it | assertions hold; pages used = pages owned, no page with two owners; registers survive switches; round robin; nobody starves |
| User programs (`p-*.cc`) | `heap_top`, `p` | allocate and yield at random | interleaving at every step | each allocator fills its address space |
| Page table iterators (`k-vmiter.cc/.hh`) | the page table; the iterator's level, entry, permissions and address | `find`, `next`, `next_range`, `try_map`, `low_perm`; `ptiter::go`, `next` | an iterator that keeps its place; `kalloc` failing half way down; freeing a tree while walking it; address wrap and the canonical hole | agrees with the hardware's walk; maps its own address as asked and no other; frees each page once, children first |
| Vunmo server, connections (`vunmo-server.cc`) | `client_conns`, `incomplete_conns`, one mutex for the map and one per client, `work_queue`, descriptors | `accept_client`, `handle_reconnecting_client`, `fetch_requests`, `read_request`, `send_response`, `send_notification`, `handle_missing_clients`, `stop` | three kinds of threads; try_lock and lock over two levels of mutexes; `poll` outside the lock; clients that leave, die and come back; descriptor numbers that are reused; SIGPIPE | no deadlock; a connection belongs to one process; an answer goes to who asked; every request is answered; `disconnect` and `stop` return; `stop` leaves nothing open |
| Vunmo request handlers | balances (`uint64_t`), a mutex per account | balance, deposit, withdraw, pay, charge, `stop`'s final balances | two accounts at once, workers in between, wrap-around, a stop during a payment | requests take effect one at a time; money is conserved; no deadlock over two accounts |
| Vunmo client (`vunmo-client.cc`, `client.cc`) | two sockets, a notification thread, a queue | prompt and commands, `connect`, `make_request`, `receive_notifications`, charge requests, `disconnect` | joining a thread that waits for the server; requests made while notifications are shown | `disconnect` returns; every command is answered |
| fileio (`naive.c`, `student.c`, `stdio.c`) | descriptor offset, stdio's buffer and direction | `io300_*` | failed and short calls, bytes buffered when a later call or the close fails, read-ahead, seeks over a buffer, a FILE turned from reading to writing | each is the byte file of `io300.h`, and its results tell |
| fileio programs | loop counters, a buffer, exit status | one `main` each | a failure at any byte; odd block and stride sizes, and blocks larger than the stride | output is a first part of the answer, exit status 0 is true, they end |
| dmalloc base allocator (`basealloc.cc`) and its wrappers | `allocs`, `frees`, `disabled` | `base_malloc`, `base_free`, `base_allocator_disable`, exit handler; `dmalloc`, `dcalloc`, `dfree`, `dbg_allocator` | blocks reused with another size, invalid frees, tables switched off and on | blocks alive, as large as asked for and handed out once; freed blocks kept from the C library until exit |
| WeensyOS console (`lib.cc`) | cells, `cursorpos`, each printer's place | `console_puts`, `console_printf`, `console_clear`, scrolling | processes print at once, one character at a time; lines that end at the last cell | the console shows the end of the text; no printer leaves it |
| WeensyOS keyboard (`k-hardware.cc`) | `modifiers`, `last_escape` | `keyboard_readc` | escaped codes, false shifts, releases in any order, reboots | no modifier sticks |
| WeensyOS C library (`lib.cc`) | none (pure) | memory, strings, `strtol`, `strtoul`, `rand(min, max)`, `printf`, `vsnprintf` | overflow, overlap, the last byte of a buffer | agrees with references |
| Shards (`distributed-store/common`) | none (pure) | `split_shard`, `get_overlap`, sorting, sizes | boundaries of unsigned int | exact against sets of keys |
| Stubs | dmalloc's statistics, the servers of distributed-store, strvec, `synchronized_queue.cc` | | | nothing to check yet |

The last row lists functions whose bodies the course leaves empty. The components
of one project interact by calls and shared variables only; the projects do not
interact. `PROJECT.json` lists every component, its status, and
the hazards, each at its line.

## Modules

| Module | Models | Used by |
|---|---|---|
| `WeensyKernel` | kernel, user programs, soft reboot | `MCWeensyKernel`, `WeensyKernelProofs` |
| `WeensyKernelProofs` | theorems about `WeensyKernel` | |
| `VmIter` | `vmiter` and `ptiter` on a page table | `MCVmIter`, `VmIterProofs` |
| `VmIterProofs` | theorems about `VmIter` | |
| `VunmoServer` | server threads, network, clients | `MCVunmoServer`, `VunmoServerProofs` |
| `VunmoServerProofs` | theorems about `VunmoServer` | |
| `Ledger` | what the server promises about money: requests one at a time | `VunmoAccounts` |
| `VunmoAccounts` | users, handlers, accounts and their mutexes; refines `Ledger` | `MCVunmoAccounts`, `VunmoAccountsProofs` |
| `VunmoAccountsProofs` | theorems about `VunmoAccounts` | |
| `ByteFile` | what `io300.h` promises: bytes and an offset | `IO300Programs` |
| `IO300` | the three implementations, system calls and stdio's FILE | `IO300Programs` |
| `IO300Programs` | the seven programs; refines `ByteFile` | `MCIO300`, `IO300Proofs` |
| `IO300Proofs` | theorems about `IO300` and `IO300Programs` | |
| `BaseAlloc` | `basealloc.cc` and dmalloc's wrappers | `MCBaseAlloc`, `BaseAllocProofs` |
| `BaseAllocProofs` | theorems about `BaseAlloc` | |
| `Shards` | shard arithmetic and theorems about it | |
| `WeensyLib` | pure functions of `lib.cc` | `LibraryCalls`, `WeensyConsole` |
| `LibraryCalls` | calls of those functions and their references | `MCWeensyLib` |
| `WeensyConsole` | console and keyboard | `MCWeensyLib` |
| `ProofLemmas` | facts about numbers, remainders and sums over finite sets | `VunmoAccountsProofs`, `IO300Proofs`, `VmIterProofs` |

### WeensyKernel

Addresses are page numbers, and since all processes share `kernel_pagetable`,
which maps each physical page at its own address, one number names a page. The
kernel runs with interrupts disabled, so an entry into it is one action that
does all of it: the saving of the registers, `memshow` (with the allocation of
the viewer's page on the first call), the handler, and the way back to user mode
through `run` or `schedule`. An assertion of the code that would fail leads to
`mode = "assert"`, a panic to `"panic"`. User code takes one step between two
points where the timer can come in. `check_keyboard` is an action of its own
because a key may be there at any kernel entry, at `schedule`'s idle loop and
after a panic; it changes nothing else.

`Faulting` names the processes whose program may touch a missing page. The
programs of the repository do not, so this stands for a user program that is
external; the kernel's handling of the fault is what is modelled.

The counters `ticks` and `last_ticks` are kept as their difference, saturated
at `HZ/2`, so that liveness can be checked on a finite graph. The code compares a
64-bit counter with one truncated to 32 bits; what happens after 2^32 ticks (497
days) is outside the model and noted as a hazard. `bypass` is a history variable.

### VmIter

A page table page has `FANOUT` entries (512) and there are `TOP + 1` levels (4).
`find` with its kept place, `next`, `next_range` and `try_map` act on one
iterator, while `TryMapElsewhere` maps through another one, after which the kept
iterator is `overtaken` and nothing is claimed of it until it starts again from
the root. The conditions that `try_map` asserts are its callers' duty and guard
the action. The page table is then freed with the loop in the comment of
`ptiter`; a freed page is overwritten, so a walk that read one would go astray.
The panic for addresses above 4 GiB, offsets within a page, and entry bits other
than P, W, U and PS are left out.

### VunmoServer

A step of a server thread is the code between two points where it can block or
be overtaken: a `lock`, `try_lock`, `accept`, `poll`, `read` or `write`. A mutex
is a variable that names its owner. Descriptors are the lowest free numbers, as
on Unix: closing a number that has been reused closes somebody else's socket. A
socket is named by the client process that opened it and by its role, so that
properties can say where a message ended up although the program cannot know.

The client's end of a socket is open, closed in order (`fin`), closed with
unread data or answered by a reset (`rst`, `pipe`), or opened by a process that
died before its hello (`silent`). Reads and writes behave accordingly: a write to
a socket with `fin` succeeds and may bring a reset, a write after that raises
SIGPIPE, whose default action nothing in the program changes. A message is an
atomic unit; `read_all`-like fragments do not occur in this code, which treats a
short read as the end of the connection.

`stop` is two steps, its beginning and its end, with all other threads in between:
what a thread finds when it next looks at `is_stopped` is a step of its own. So
`accept_client` may come back from `accept()` after `stop` has begun
(`AcceptStopped`), and the descriptor it then abandons stays open until the process
ends, after `main` has returned from `stop` (`Exit`); until then the client
that waits for its end waits.

### VunmoAccounts and Ledger

A user types a command, which `parse_command` turns into a request (`%lu` takes
a minus sign as negation, so `deposit -1` deposits the largest amount); the
client waits for the response and then shows the notifications that have come,
where accepting a charge makes a payment from within the loop. A worker pops a
request, locks one account or two (in the order of their ids), and its handler
reads and writes balances in separate steps, modulo `Modulus`. `stop_begin`
flushes the queue; `stop_end` waits for the workers, as `stop`'s comments ask,
and takes the final balances. The network is reliable here: its failures are
`VunmoServer`'s subject, and the two modules are related through the interface
they share (a request is answered by its worker), not composed.

`Ledger` executes whole requests. The refinement maps a client's funds to the
balance plus what a payment under way has taken from it and not yet credited, so
that a payment takes effect when its response is fixed.

### IO300, IO300Programs and ByteFile

An operation is an operator that gives the set of its outcomes on an open file
and the bytes on disk; every system call may fail, a read or write may stop
short, an `open` or `malloc` may return NULL. A FILE has an offset, the
bytes read ahead, the bytes not yet written, its error indicator and the direction
of its last transfer; turning from reading to writing without a seek sets
`misused`. When a write of its buffer fails, a first part of it may have reached
the disk and the rest is dropped, as the GNU C library does: the call
that happened to empty the buffer fails, and with it bytes are lost that earlier
calls had accepted. What `fwrite` then returns says nothing of what is on disk, so
the model returns any short count. A full disk is tried with the unbuffered
implementations (`limit`); for stdio it is one of the ways for its writes to fail.
A program's step is one `io300` call with the code up to the next one.

`stride_cat` is run with every block size, larger than the stride included, in the
arithmetic of a `size_t` of `SIZE_T` values; a read of more bytes than its buffer
has is undefined, and the model lets the program go on or be killed.

`ByteFile` is the interface's comment as a specification. Its state is the bytes and
the offset of each file, what is on disk, and the last call with its arguments
and its result; `turn` changes with each call, so that a call is never a stutter
and its result always counts. A call that does not fail does what it says and returns
what it did: an end of the file is reported only there, and a write that reports
success has replaced the bytes. A call that fails returns -1 or a short count,
and may lose bytes, but none that are on disk already, and the last ones first (`Torn`).
The refinement maps a FILE to what its user would read, unwritten bytes included.

Two promises of `io300.h` are weaker in `ByteFile`, because `stdio.c` breaks them: a seek
returns the offset or 0, and a close that has lost bytes may return 0 (see the
observations below). `OutputIsPrefix` and `ExitStatusTrue` say nothing of `stride_cat` with a
block larger than the stride, which copies something else than its input.

### BaseAlloc

`malloc` and `free` of the C library are external: a set of live addresses with
their sizes, where memory may run out. Where `base_malloc` draws random numbers
the model makes any choice. The program (external) calls the wrappers with any
size and any pointer: one it holds, one it freed, NULL, or an address it was never given.
`held` keeps both the size a wrapper asked `base_malloc` for and the bytes the
program asked the wrapper for: they differ when a product wraps.
`BlocksSound` promises room for all the program asked for when that fits a `size_t`, and
for no more than the wrapped product when it does not.
A block obtained while the tables are on is not freed while they are off and
vice versa; nothing in the repository calls the switch.

### WeensyLib, LibraryCalls, WeensyConsole

Characters are their codes and strings sequences. `unsigned long` is taken
modulo `Word` and `int` ends at `RAND_MAX`, so that 8 and 4 bits show what 64 and
32 do. `vprintf` starts from a directive that has been read; the parsing of
format strings and colours are left out. Each function is an operator that
follows its loop, compared by `LibraryCalls` with what it is for: numbers read
back as printed, text cut and padded to its field, exact clamping (`strtoul`
clamps the magnitude and negates it after a minus, so that it returns 1 for
every number below the range), simultaneous copy, dictionary order. `rand`'s span
overflows an `int` at its widest: the outcomes a build can give are a set, and
`LibraryAgrees` says which.

The console is printed on one character at a time, and a timer interrupt may
come between any two; within a character, the loops of a scroll and of a
newline are one step. The keyboard sends the codes of thirteen keys, one or more for each case of the decoder; 'a' reboots the kernel,
which clears the decoder's static variables, and Control-C turns it off.

## Runs

| Run | Bounds | Shows |
|---|---|---|
| `weensy_reboot` | 2 allocators or fork or forkexit, regions of 4 pages, faults, all keys | `TypeOK`, `NoAssertFails`, `PageAccounting`, `PageOwnership`, `PidIsOwn`, `BoundedBypass` |
| `weensy_liveness` | 2 allocators that may fault, 2 heap pages each, only the timer fair | `NoStarvation`, `ViewerRotates`, `AllocatorsFinish` |
| `vmiter` | 3 levels of 2 entries, 8 canonical and 8 other pages, any set of up to 2 free pages | `TypeOK`, `AgreesWithHardware`, `PageTableIsTree`, `LowPermExact`, `MapsOnlyItsPage`, `NextSkipsNoPresent`, `FreesChildrenFirst`, `FreesAll` |
| `vunmo_orderly` | 2 clients, one request each to the other, one worker, `stop()` at any time | `RequestAnswered`, `DisconnectCompletes`, `StopCompletes` |
| `vunmo_requests` | 2 clients, one of which makes 2 requests in turn, to anybody, 2 workers | `TypeOK`, `NoCircularWait`, `ResponseToOrigin`, `OneUnderWay` |
| `vunmo_reconnect` | 2 processes with one id, one of which may die, a stranger, 2 workers | `ConnectionKept` |
| `vunmo_misdelivered` | a client that dies and another that connects | violation of `ResponseToOrigin` |
| `vunmo_hang` | a client that dies and comes back | violation of `NoHangUnderMapLock` |
| `vunmo_accounts` | 2 users with a command each and the charges that follow, amounts modulo 4, one balance at its limit, 2 workers, `stop()` at any time | `MoneyConserved`, `RefinesLedger`, `CommandsAnswered` |
| `fileio` | files of 0 to 7 bytes, blocks and strides up to 4, stdio buffer of 2, `size_t` of 8 bits, every call may fail or stop short, the disk full at any byte | `ImplementsFile`, `OutputIsPrefix`, `ExitStatusTrue`, `NoUndefinedSwitch`, `Terminates` |
| `basealloc` | 3 addresses, sizes 0 to 3 and products modulo 8 | `BlocksSound`, `FreedKept` |
| `weensy_lib` | 8-bit longs; console of 2 rows of 3, 2 printers; 13 keys, 2 held, 5 codes waiting | `LibraryAgrees`, `ConsoleShowsText`, `NoStuckModifier` |

Why the bounds are enough to be interesting: in WeensyOS a region of four pages
has an image, two heap pages and a stack, so heaps grow, are cut short by a
reboot and meet the stack; two or three processes in a table of four leave free
slots for the round robin to skip. Two levels below the root give `VmIter` a
table that is missing at each level, a large page, a `kalloc` that fails at each
step and, for `ptiter`, a table whose children are freed before it. In Vunmo two
clients and two workers are the fewest in which a worker notifies the client
another one answers; `MaxFds` lets numbers be reused. `MaxRequests` bounds the
requests of each process: one is enough for an answer to be lost, two in turn are
the fewest that could be under way together. In `vunmo_accounts` one command of each user, with the
payments that charges bring about, is enough for two workers to want the same two
accounts in opposite order, and an amount modulo 4 wraps with the second
deposit. Files of seven bytes hold whole, cut and empty last blocks and columns
of every block size and stride up to four, over more than three stdio buffers;
`SIZE_T` is 256, so that the differences that wrap are far above any file, as they
are on the machine.
Three addresses let the allocator fill, shrink and reuse a block while two
others are held or freed. A console of six cells scrolls several times within
the seven characters after which no further print is started.

Deadlock is not checked where the system may really stop: after power-off, after
the freeing loop, and when all clients have left.

### Findings

* `vunmo_misdelivered`: `send_response` writes to `request_fd` without looking at
  `is_connected`. After a disconnection that number may belong to another client.
* `vunmo_hang`: between `poll` and `read_request` the client may be disconnected by a
  failed send and reconnect: `read` then blocks with the client's mutex held, and the
  next send to that client blocks with `client_conns_mtx` held, although the
  comment at line 381 says the map is unlocked because a call may hang.

### Observations without a run

Where the code does other than a comment of the repository says, and the properties above
are worded around it:

* `fetch_requests` reads from a client that it polled before without looking at
  `is_connected` again (`vunmo-server.cc:401`). When a send has found that client's
  socket reset and closed it meanwhile, the read fails and the same numbers are closed once
  more, which by then `accept` may have given to a third client. All three may behave
  well, so that what `vunmo_requests` shows is true of two clients only.
* `stop` closes the descriptors in `client_conns`; those of clients that are half
  connected, and the one that `accept` returned last (`vunmo-server.cc:263`), stay open
  until the process ends, where `vunmo-server.hh:59` says that it cleans up any resources
  the server allocated.
* `stdio.c`'s `io300_seek` returns what `fseek` does, 0, where `io300.h:40` promises "the
  resulting offset location". Its `io300_close` drops the result of its flush; when that has
  failed the buffer is gone, `fclose` finds nothing to write, and the close returns 0
  although bytes are lost.
* `stride_cat` does not refuse a block larger than the stride: `stride - pos`
  (`stride_cat.c:56`) wraps around or the columns overlap, and it exits with 0 after
  writing something else than its input in another order.
* `dcalloc`'s product wraps, where test014 asserts that no block is returned
  (`dmalloc.cc:52` leaves it to the student).
* `rand(min, max)` (`lib.cc:246`) overflows an `int` at the widest span its comment allows.
* `try_map` without permissions returns 0 inside a large page and leaves it mapped.

Others:

* `memshow` switches processes every `HZ/2` ticks, 0.5 s; its comments
  (`kernel.cc:424`, `:432`) say 0.25 s.
* The branch "close client connection on error" (`vunmo-server.cc:218`) after a
  `write` is not reached when the peer has reset the connection: SIGPIPE, which
  nothing handles, ends the process. `VunmoServer` has this step.
* `handle_missing_clients` sends a response whose amount was never set
  (nondeterministic in `VunmoAccounts`). A charge is answered two characters at a
  time: the line "yes" counts as two wrong answers.
* fileio: `naive.c`'s close leaves the descriptor open; `block_cat` complains of
  a block size of 0 and exits with 0; `block_cat`, `random_block_cat` and
  `stride_cat` do not notice short writes, and `stride_cat` looks at no write at
  all; `stdio.c` does not create a missing file, the others do.
* `shardRangeSize` adds the number of shards once per shard, not "the total
  size of a vector of shards": proved in `Shards`.
* `lib.cc`: `strtoul` returns 1 for a negative number that
  overflows; `strtol` accepts "--5" and "- 5"; base 16 takes ':' to '?' for
  digits; `%.0d` prints a 0; a negative `*` width does not justify to the left;
  rows scrolled in hold zeros where `console_clear` writes spaces.
* Releasing one of two shift keys held clears the shift.

Met while modelling, without a run: `fetch_requests` may return no request
(after 100 ms, or when nobody is connected), where `vunmo-server.hh:169` says it
hangs until one is received; the hellos of two processes with the same id that
connect at once are merged into one `client_conn`, and one of them loses its
descriptors; a client that connects and
says nothing keeps `accept_client`, and every client after it, waiting.

## Fairness

* WeensyOS: `TimerSpec` asks only that the timer interrupt keeps coming
  (`WF(exception_timer)`), which the hardware does. `AllocatorsFinish` has its
  further assumption in the formula: strong fairness of each process's
  steps and of the draw that allocates: a process that runs again and again gets
  on between two interrupts, and `rand` draws every value again and again.
* `VmIter`: weak fairness of the freeing loop, a loop on a CPU.
* Vunmo: strong fairness of each server thread, that is, a thread waiting for a
  mutex that is released again and again gets it some time; the program relies
  on this of the system's mutexes. Clients go on with their hello, with reading
  an answer and with joining their thread (weak fairness). Nobody has to make a
  request, leave or call `stop`; once `stop` has been called it goes on, and the
  process ends after it (weak fairness of `StopEnd \/ Exit`: `main` only returns).
  A client whose descriptor `stop` abandoned gets its end of file from that exit, and
  `DisconnectCompletes` from nothing earlier. `VunmoAccounts` has the same: strong fairness of
  the workers, weak fairness of reading an answer and of the end of `stop`;
  users need not type.
* `IO300Programs`: a program that can take a step takes one.

## Proofs

`WeensyKernelProofs` proves, for every memory layout, number of processes and set
of keys that satisfies `GeometryAssumption` and `InputAssumption`, the safety
properties of `weensy_reboot`: `TypeCorrect`, `AssertionsHold`, `RegistersSurvive`, `RoundRobin`, `PagesAccounted` and
`PagesExclusive`. The assumptions say that the kernel's image, its stack, I/O
memory and the processes' regions lie in this order and within memory; the
linker scripts and `kernel.hh` see to that.

None of the properties is inductive. `Invariance` proves the conjunction:

* `TypeOK`, `NoAssertFails`, `PidIsOwn`;
* the table invariant: the slots in use are those this boot filled, and the
  process on the CPU is runnable;
* the `kalloc` invariant: the cursor is at the start of memory until the viewer
  has its page, and that page is page 1, below the kernel and outside every
  process's region; so `kalloc` cannot fail when the viewer asserts it did not;
* the program invariant: at each point of a process's program, where `heap_top`
  is in its region, what `%rax` holds, and which programs fork;
* the page invariant: used pages are exactly those owned, which with the
  disjointness of the regions makes the pages claimed next free;
* the bypass bound: how often others ran since a process last did, against its
  distance in the table from the current one.

One lemma per action shows that it preserves the conjunction; soft reboot
re-establishes it from nothing but the types.

`BaseAllocProofs` proves, for every set of addresses and every bound on sizes,
`AllocatorSound` (`BlocksSound`) and `FreedBlocksKept` (`FreedKept`): from the
call that gave it out on, a block of the tables is in one of them and alive in the C
library's heap after every step but the exit handler. The
invariant is `TypeOK`, `BlocksSound` and `TablesSound` (itself the theorem
`TablesAgree`): `allocs` lists exactly the blocks the program holds from it, with
the size asked for; `frees` lists blocks alive and held by nobody, each once,
with a size not above the real one. Without the last clause a block reused for a
small request and freed could come back as a large one; without the others a block
could leave both tables, or one the program still holds be given back while the
tables are off. The lemmas follow the
code: one for a block taken from `frees` (the swap with the last entry), one
for a fresh one, one per operation.

`Shards` proves, for every width of unsigned int, that `size`, `split_shard` and
`get_overlap` are exact against the sets of keys they stand for, that disjoint
shards follow each other after `sortAscendingInterval`, and that
`shardRangeSize` is not the total. There is no state and no run.

`VunmoAccountsProofs` proves, for every finite set of clients, every number of
workers, every modulus and every opening balance, that the handlers implement
`Ledger` (`Refinement`) and that no money is made or lost (`Conservation`). That
the clients are finitely many (`AccountsAssumption`) is what gives their funds a
sum. The invariant (`AccountsInvariant`) says, besides the types:

* a mutex is held by a worker exactly when that worker stands between the lock
  and the unlock of the account, the lower id first (`Locks`);
* at each point of a handler, what it knows: the request is well formed, the value
  it has loaded is still the balance, that covers what is to be taken, and only a
  payment between two clients has a second store (`Stages`);
* `stop` returns balances of accounts nobody works on (`Ended`).

Each action of a worker is then shown to execute one request of the ledger or
none: a payment takes effect at its second store. Conservation is proved of the
sum of all funds modulo `Modulus`, against what deposits and withdrawals brought
in; a step changes the funds of at most two clients (`SumChange` in `ProofLemmas`).

`VunmoServerProofs` proves, for every number of clients, processes, workers and
descriptors: `TypeCorrect`; `NoDeadlock`, that no set of threads waits in a
circle; and `ConnectionsStay`, that the descriptors of a connected client are not
replaced. For the second the invariant ties each mutex to the places in the
program where its owner can be (`Held`), and each thread waiting gets a rank
from the order accounts, `client_conns_mtx`, clients' mutexes: it waits for a
thread of lower rank only. `fetch_requests` goes against that order when it keeps
clients' mutexes and asks for more, but with `try_lock`, which does not wait.

`IO300Proofs` proves, for every file, buffer size, block size, stride and width of
`size_t` and for every pattern of failing or shortened calls, that the three
implementations with any of the seven programs are the byte files of `io300.h`
(`FileRefinement`) and that no program turns a FILE around without a seek (`NoMisuse`).
The first half is about
one call: what an open file keeps buffered lies just before the descriptor's
offset or is to be written there, and never both (`Handle`); each operation
does to the bytes its user would read (`View`), to the offset its user sees
(`At`) and to the disk what `ByteFile` allows, and returns what it says. A write that
fails is taken apart by where it stopped: what reached the disk is a first part
of the buffer over what was there (`Torn`), and a first part of a first part is one
again. The second half carries this through the programs: which
files are open where (`Files`), which direction each has last been used in
(`Directions`), and that counters and buffers stay within their types
(`Locals`).

`VmIterProofs` proves, for every even number of entries per page, at least three
levels, any number of physical pages and an address space of several times a
root's reach (`VmAssumption`; x86-64 has 512, 4 and 2^16 times), all its
safety properties: `TypeCorrect`, `HardwareAgreement`, `TreeKept`, `OwnPageOnly`
(what `try_map` makes of its own address, and of no other, and when it fails),
`PassesNothing`, `RangeAnswered`, `ChildrenFirst` and `AllFreed`.
The parts of the argument:

* addresses: a region of one level holds `FANOUT` regions of the level below, told
  apart by `pageindex`, and the canonical hole cuts no entry of the root in two
  (`RegionOf`, `CellOf`, `CanonRegion`);
* walks: `On` says that a vmiter stands at an entry on the way from the root to its
  address, with the permissions that the entries above grant; `Leaf`, that the way
  ends there. `real_find` establishes both, whether it keeps its place or not
  (`FindOn`), and together they give the hardware's answer (`Agrees`);
* the tree: each page of the table has a level and a cell of the address space, and
  an entry leads to the page one level down that has the entry's cell (`Tree`).
  Hence a page that a walk goes through is on the way to no other cell, so that
  an entry written at level 0 is seen by one address only (`WriteLeaf`), and a
  cleared page linked below an entry that was not present by none (`NewTableTree`);
* the invariant: while the table is in use it is a tree, apart from the free and
  the mapped pages, and the kept vmiter is `On` it, also when it has been overtaken,
  and at a `Leaf` when it has not. That the overtaken one is still `On` it is what
  lets `real_find` keep its place and be right again afterwards. The ptiter stands
  at the entry for its address (`Visits`), from which the types follow;
* ranges: the vmiters of `low_perm`'s loop are all `On` the tree, their addresses
  rise and leave no address of the range out (`RangesRise`, `RangesCover`), and an
  entry grants all the addresses of its region or none (`GrantsAll`);
* the freeing loop: the pages of the tree at its start have a level and an address
  that they serve (`Placed`). A ptiter at an address, done with the address's entry
  of some level, has `Passed` the pages below that level that come up to the end of
  that entry's region, and of the higher levels those whose region lies before the
  address. The invariant (`Looping`) is that exactly the pages passed have been
  freed and no other page has changed; that the ptiter points into a page that is
  held; and that while it starts over from the root, towards the table whose end it
  has come to, that table is ahead, so that each entry on the way is a link
  (`LinkAhead`). An entry that is no link has nothing behind it (`NothingBehind`),
  so moving on passes no page unfreed (`Onward`), and freeing a page is passing it
  (`FreeOne`).

Where a proof needs induction over numbers or finite sets, the claim is
given to the induction lemma as a set (`SetOfNaturals`, `SetOfSubsets`), since the
provers do not instantiate a lemma with an operator.

Only model-checked:

* liveness under fairness, everywhere;
* `ResponseToOrigin` and `OneUnderWay` of `VunmoServer`, for the two well-behaved
  clients of `vunmo_requests`. With clients that die, `ResponseToOrigin` is
  false (`vunmo_misdelivered`), and with a third one nothing keeps it true, so that no
  theorem can state it;
* `OutputIsPrefix` and `ExitStatusTrue` of `IO300Programs`;
* the C library, whose recursive definitions are out of the prover's reach, with
  the console and the keyboard.

## Not modelled

* `boot.cc` and the ELF reading of `program_image`: disk sectors through I/O
  ports; `k-apic.hh`, `k-pci.hh`, descriptor tables, the log port, the
  backtracer's symbol lookup: device I/O and diagnostics.
* What the memory viewer marks and draws: output.
* The servers of distributed-store, `strvec`, dmalloc's statistics,
  `synchronized_queue.cc`: stubs without behaviour. The queue and the thread
  loops of Vunmo are modelled from their comments where the implemented code needs
  them.
* Build tools, tests and test utilities.

## Plan

1. *Done*: `WeensyKernel` with proofs, `VunmoServer` with its types, deadlock
   freedom and kept connections proved, `VmIter` with proofs of all its
   safety properties, `VunmoAccounts` with the
   proof that it implements `Ledger`, `IO300` with the proofs that it
   implements `ByteFile`, `BaseAlloc` and `Shards` with proofs, the C library,
   console and keyboard.
2. What the fileio programs write (`OutputIsPrefix`, `ExitStatusTrue`) as theorems, from
   what `ByteFile` says of each call; for `stride_cat` with a closed form of the column
   order.
3. `boot_readseg` and `program_image` as operators over sectors and headers.

## Running

    tlc -config MCWeensyReboot.cfg MCWeensyKernel
    tlapm WeensyKernelProofs.tla
    tlapm BaseAllocProofs.tla
    tlapm Shards.tla
    tlapm ProofLemmas.tla
    tlapm VunmoAccountsProofs.tla
    tlapm VmIterProofs.tla
    tlapm VunmoServerProofs.tla
    tlapm IO300Proofs.tla
