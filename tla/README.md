# Formal models of the operating-systems assignments

The repository holds four assignments.  Assignments 4 and 7 are changed copies of the
xv6-riscv kernel with user programs (only the changed files are in the repository);
Assignment 6 is a set of four small programs about deadlocks; Assignment 7's
`user/deadlock.c` is a fifth.  This directory models their concurrency and their
algorithms in TLA+, checks the models with TLC and proves the most important
safety properties with TLAPS.

Paths below are relative to the assignment: `7:kernel/proc.c` is `kernel/proc.c` of
Assignment 7.  `PROJECT.json` maps every definition to its lines.

## 1. Inventory

| component | state | operations | interacts with | what makes it hard |
|---|---|---|---|---|
| semaphores, `7:kernel/sysproc.c` | value, initialized, spinlock of each semaphore | sem_init, sem_wait, sem_signal | sleep_prepare / sleep / wakeup and the process table; kill | a waiter's way into sleep races with signals and kills; one signal wakes all waiters |
| semaphores, `4:kernel/sysproc.c` | sem_count, sem_lock, the flag sem_initialized | sem_init, sem_down, sem_up | the same | locks are initialised lazily; negative counts; kills are swallowed |
| processes and threads, `proc.c` of both kernels | state, parent, is_thread, detached, killed, chan | fork, clone, exit, wait, join, kill, reparent | everything | exits race with a parent's wait; parents die first; entries are reused, in Assignment 4 as they were left |
| scheduler, `7:kernel/proc.c`, `trap.c` | priority, wait_ticks, per-processor cursor and current process | scheduler, yield, age_processes, set_priority | timer, wakeup | search and claim are separate critical sections; several processors; starvation |
| scheduler, `4:kernel/proc.c` | per-processor loop over the table | scheduler, sched, yield | timer, wakeup | several processors meet the same entry; the loop goes on where it was |
| timed sleep, `sysproc.c`, `7:kernel/trap.c` | ticks, tickslock | pause, clockintr | wakeup, kill | tick between test and sleep; the counter wraps around |
| sharing of memory, `kalloc.c`, `vm.c`, `proc.c` of both kernels | free list, reference counts, mappings, sizes | sbrk (eager, lazy, shrink), page fault, shm_get, fork's copy, clone's sharing, freeproc | fork, clone, exit | failures in the middle of a loop; sharing; holes |
| page tables and access to user memory, `vm.c`, `proc.c`, `syscall.c` of both kernels | table pages, entries with rights, bytes, the trapframe's page | walk, mappages, uvmalloc, uvmcopy, uvmunmap, freewalk, vmfault, copyout, copyin, copyinstr, fetchaddr, fetchstr, exec | the allocator; every system call with a pointer | running out of table pages half-way; page boundaries; rights; laziness |
| file system calls, `4:kernel/sysfile.c` | link counts, references, names, open files, descriptors, current directories | link, unlink, create, open, mkdir, mknod, chdir, dup, close, pipe, exec's arguments; fork and exit | the inode layer and the file table (not in the repository) | directories removed between the walk and the lock; two inode locks at once; error paths |
| Peterson's algorithm, `4:user/peterson.c` | flags, turn, counter on a shared page | two processes, ITERS rounds | memory ordering of the machine | store reordering |
| bounded buffer, `4:user/prodcons.c`, `7:user/synctest.c` | circular buffer, two indices, three semaphores | producer, consumer | semaphores | over- and underflow, order, blocking |
| readers and writers, `4:user/readwrite.c` | read_count, data, three semaphores | readers, writers | semaphores | first/last reader, fairness to writers |
| ordered acquisition, `4:user/dining.c`, `6:Q3/resourceorder.c`, `6:Q4/syncdeadlock.c` | one semaphore per resource | acquire two in order, release | semaphores | circular wait |
| banker's algorithm, `6:Q1/bankers.c`, `7:user/deadlock.c` | allocation and pool | request with trial and rollback; safety test | - | sequences of requests, rollback |
| deadlock detection, `7:user/deadlock.c` | work vector, finished flags | passes over the processes | - | termination, exactness |
| wait-for graph, `6:Q2/deadlockdetect.c` | graph, colours, trace | recursive depth-first search | - | exactness of the verdict and of the printed loop |
| dispatch tables, boot, demonstrations, build files | - | - | - | not modelled, see section 8 |

What makes each correct: a waiter never sleeps over a unit and units are neither lost
nor invented (semaphores); no exit is missed and every process has a parent that can
collect it (processes); no process runs twice, the most urgent runs first, nobody
starves (schedulers); no pause is early or endless (timed sleep); reference counts
equal mappings through every failure, nothing panics, and programs see zeros, their own
bytes and their parent's, under the rights they have (memory); link counts, references
and the tree of names agree on every path through the calls (files); exclusion, order,
freedom from deadlock and termination (the programs); exact answers (the algorithms).
The `hazards` of `PROJECT.json` list what can go wrong at which line, with the
properties that would notice.

## 2. Modules

| module | models | correspondence |
|---|---|---|
| `CountingSemaphore` | the promise of a semaphore to programs | abstract: no locks, channels or process states |
| `Semaphores` | `7:` sys_sem_init / wait / signal over sleep_prepare, sleep, wakeup, kkill | `pc` is the place in a call; a section under `p->lock` is one step; the semaphore's lock and the position of wakeup() in the table are variables |
| `SemaphoresA4` | the calls of Assignment 4 | EXTENDS `Semaphores`: processes, sleep and wakeup are the same; adds sem_initialized and the calls' own code |
| `Lifecycle` | `7:` kfork, kclone, kexit, reparent, kwait, kjoin, kkill, freeproc | a section under wait_lock is one step; a process is its table entry, and the history variable `stranger` says that a parent's entry changed hands |
| `LifecycleA4` | the same of Assignment 4 | EXTENDS `Lifecycle`; its own allocproc(), which takes an entry over as it is |
| `Scheduler` | `7:` scheduler(), age_processes(), yield(), ksetpriority(), timer | one entry of a search or of the aging loop is a step; search and claim are separate |
| `SchedulerA4` | `4:` scheduler(), sched(), yield() | one entry of the loop is a step: test and claim are under one lock |
| `Pause` | sys_pause() and clockintr() | tickslock, registration, release and sleep are separate steps |
| `Processes` | `Lifecycle`, `LifecycleA4` and `Pause` | a behaviour is of one of the three; `PauseParameters` holds the constants of `Pause` |
| `Schedulers`, `MCSchedulers` | `Scheduler` and `SchedulerA4`, on machines of several sizes | the variable `machine` (module `SchedulerParameters`) never changes: a kernel, the processors that run its scheduler, the entries that processes come to and the priorities they are given |
| `Memory` | kalloc, kfree, kaddref, uvmalloc, uvmdealloc, uvmcopy, uvmshare, uvmunmap(_sparse), vmfault, shm_get, freeproc | who owns which frame; loops run one page a step; `kernel` chooses the Assignment |
| `PageTables` | walk, mappages, the uvm functions, free_empty_tables, vmfault, copyout, copyin, copyinstr; proc_pagetable, growproc, kfork, freeproc, sbrk, shm_get, fetchaddr, fetchstr | what one page table holds: the functions of vm.c are operators from a page table and an allocator (`Work`) to the same, composed as the C functions call each other; a system call is one step, for which the allocator has any number of pages left |
| `PageMap` | the promise of user memory | abstract specification of `PageTables`: a function from pages to bytes and rights, no tables, no faults |
| `KernelMemory` | `Memory` and `PageTables` | one of the two halves runs; the sizes of tables, pages and calls are constants |
| `FileCalls`, `MCFileCalls` | sysfile.c, the files of kfork() and kexit() | a step is what happens under one inode lock; the walk of a path takes one name a step; the inode layer is `Inodes`, `Lookup` and `Walk` |
| `SemaphoreClient` | what the semaphore programs share | EXTENDS `CountingSemaphore`, adds `pc` |
| `Peterson`, `BoundedBuffer`, `ReadersWriters`, `ResourceOrder` | the programs | one action per statement or call |
| `Channel` | a bounded FIFO channel | abstract specification of `BoundedBuffer` |
| `UserPrograms` | the six programs, one of which is started | INSTANCEs of the modules above; the numbers of processes, cells, items and rounds are constants, which the .cfg gives the programs' own values |
| `Banker`, `DeadlockDetection`, `WaitForGraph` | the algorithms | one action per loop step or decision |
| `DeadlockTools` | the three of them, one of which is started | INSTANCEs of the three; the sizes of the tables and their entries are constants, which the .cfg gives |
| `SemaphoresProofs`, `ProcessesProofs`, `SchedulerProofs`, `MemoryProofs`, `KernelMemoryProofs`, `UserProgramsProofs`, `FileCallsProofs`, `DeadlockToolsProofs` | theorems | section 6 |

Composition.  The programs do not run on the kernel's code but on `CountingSemaphore`,
and `Semaphores` is shown to implement `CountingSemaphore`: what the programs rely on
is what the kernel provides.  The one thing the programs' fairness assumes of the
semaphores, that a unit is not left lying while somebody waits, is `Progress` of
`CountingSemaphore`, which the runs `Semaphores` and `SemaphoresA4` check of both
kernels (`ServesWaiters`).  The fairness that `Semaphores`, `Lifecycle` and `Pause`
assume of the processor is what `Schedulers` shows (`NoStarvation`), for both kernels.  `Memory`
and `PageTables` meet in the allocator: `Memory` interleaves the calls of several
processes page by page, and `PageTables` runs one call against an allocator that the
others may have emptied at any page.

Definitions that a comment calls a mistake are not part of any specification: each is
a plausible bug of the code, and replacing the correct definition by it makes TLC
report the property that `PROJECT.json` names with it (`mutants`).

## 3. Plan

Done: the kernel's semaphores first, as everything else stands on them, then processes,
scheduler, timed sleep and memory, then the programs on the abstract semaphores, then
the algorithms; then the processes and the scheduler of Assignment 4, page tables and the
access to user memory, and the file system calls; proofs for the semaphores of both
kernels, processes, timed sleep, both schedulers, the sharing of memory, page tables, the
user programs, the file system calls and the deadlock tools.

Left, in this order:

1. Models: identifiers and exit statuses in `Lifecycle` (kkill and kjoin search by pid);
   a client of the semaphores whose processes are killed; offsets and contents of files.
2. Larger instances where time allows (sections 4 and 5).

## 4. Runs

Every run explores its instance completely, within five minutes on two cores.

| run | instance | states | shows |
|---|---|---|---|
| `Semaphores` | 3 processes, 1 semaphore, values to 2 | 93 000 | `NoLostWakeup`; locks are held only by running processes; sleepers can be reached; the calls implement `CountingSemaphore`; units are not left lying; a killed sleeper dies |
| `SemaphoresA4` | the same, counts from -1 to 1 | 105 000 | units are taken only from positive counts; critical sections exclude each other; units are not left lying |
| `Processes` | init and 2 entries, in both kernels; 2 processes that pause, counter modulo 6 | 69 000 | no exit is missed, processes have parents, wait and join return; no tick missed, never early, every pause ends |
| `Schedulers` | Assignment 7: 1 processor, 3 processes, 3 priorities, and 2 processors, 2 processes; Assignment 4: 1 and 2 processors, 3 processes | 640 000 | no process runs twice; idle only without work; the most urgent and next in turn is claimed; nobody starves |
| `KernelMemory` | sharing: 3 entries, 3 frames, 3 pages; tables: 2 processes, 27 pages, table pages of 3 entries, up to 11 pages for a call; both kernels | 2.3 million | reference counts equal mappings; only threads share; no panic; table pages and frames all accounted for; user memory is what `PageMap` says |
| `FileCalls` | 2 processes, 4 inodes, 3 files, 2 names, 3 calls | 1.8 million | link counts equal names at every commit; the names are a tree; nothing is lost on an error path; no circle of inode locks |
| `UserPrograms` | the programs' own numbers | 576 000 | exclusion, no lost increment, bounded overtaking, FIFO, no circular wait, every program ends |
| `DeadlockTools` | the tables of bankers.c; all tables of 3 processes and 2 kinds with entries 0 and 1; all graphs of 4 tasks and 3 resources | 2.0 million | tables consistent, safety test exact, both bankers decide alike, exactly the deadlocked are reported, searches end |

Four runs show disagreements between the repository's words and its code
(`findings` of `PROJECT.json`):

| run | what TLC finds |
|---|---|
| `PetersonReordered` | README.md of Assignment 4 promises strict mutual exclusion; there is no fence between the stores to flag and to turn, and in the order RISC-V allows both processes enter |
| `MemoryA4Lazy` | the comment of uvmunmap() says that missing mappings are all right; Assignment 4's panics on a page that sbrklazy() reserved and nobody touched |
| `MemoryThreads` | REPORT.md of Assignment 7 says that clone() shares the page table; each thread has its own, and a page allocated lazily after clone() exists in one of them only |
| `LifecycleA4KillZero` | the comment of kkill() says that it kills the process with the given pid; kill(0) finds a free entry, whose killed flag Assignment 4's allocproc() hands to the next process |

## 5. Bounds, and why they are enough

- *Three processes and one semaphore* (`Semaphores`, `SemaphoresA4`): two waiters and a
  signaller, which is what the wakeup of all waiters needs; a waiter may itself signal,
  kill, exit and be replaced.  Semaphores interact only through the channel registered in the process
  table, and a process registers on one at a time.  `MaxValue` = 2 allows two
  outstanding units; the wrap-around of the C `int` after 2^31 signals is not modelled.
  The theorems hold for every number.
- *Three table entries* (`Processes`): init, a parent and a child or thread, with reuse of
  the entries.  With four entries the safety properties of `Lifecycle` were checked too (1.2 million
  states); the theorems hold for every NPROC.
- *Schedulers*: three processes give a nontrivial rotation among equals; two processors
  race for one entry.  Priorities 1..3 instead of 1..20 and promotion after 2 instead
  of 30 ticks keep "first, middle, last" and "below, at the threshold".  `Machines` lists the
  combinations; with two processors Assignment 7 has two processes and two priorities.  The theorems
  hold for every set of machines.
- *Pause*: two processes (`PAUSERS`), and `WRAP` = 6 stands for 2^32, and all start values are tried, so the counter
  wraps in the middle of a pause.  `MaxLate` bounds how long a woken process may wait
  for a processor: late by 2^32 ticks it would misread the counter.
- *Sharing of memory*: three frames for three processes run out in the middle of every loop,
  which is what the error paths need; two heap pages make a loop with a first and a last page.
  Processes other than init and frames are interchangeable (symmetry; `ImplementsPageMap` does
  not depend on them).  `MaxSize` keeps heaps below the page of shm_get.  Running out of
  page-table pages is a failure that may strike at any page.
- *Page tables*: with three entries in a table page (`WIDTH`; 512 in the code) the image of a
  program fills one table page of the lowest level, the heap begins in the next, and the kernel's
  pages are in a third, so that growing, shrinking and freeing cross the borders of
  table pages.  Two bytes in a page (`PGSIZE`) make buffers and strings that start in the middle of a page,
  end at its end and cross into the next.  The addresses are those of text and guard page,
  stack and heap, the end of the heap, and the trapframe.  A process grows to four pages (`MaxSize` = 8 bytes), and
  exec and fork need no more than eleven (`MaxPages`), the other calls no more than four (`MaxFaultPages`; with
  more, the same states are reached), so the allocator's answers are exhausted.
  After a fork one of the two processes exits before the other goes on: two page tables share nothing
  but the page of shm_get, whose contents are left out: no address of a call is in it (`TopAssumption`, which
  also has the pages at the top of the address space in one table page).  As in the sharing half, programs of Assignment 4 do not call
  sbrklazy(); what happens when they do is the run `MemoryA4Lazy`.
- *Files*: a root, two more inodes in every arrangement of directory and file, and a free one; two names,
  paths of one and two components.  Three calls (`MaxCalls`) let one call be overtaken by two others, e.g. a
  walk by a removal and a creation.  `Calls` leaves out calls that differ from others only in their path: devices are made at
  one path, directories opened for writing at one, and link() makes its new name at two.  Two descriptors, three files and three pages run out.  `NLINK_MAX` = 3 is reached
  by link() and mkdir().
- *Programs*: numbers of processes, semaphores, buffer cells and rounds are the
  programs' own, except three rounds of peterson instead of ten and two cycles of dining
  and syncdeadlock instead of the programs' (`TURNS`, `CYCLES`); a further round starts where the one
  before did.  The safety theorems hold for every number.
- *Algorithms*: bankers.c runs on its own tables, with requests of at most three units of
  a kind; the two searches are tried on all inputs of the given size.

`CHECK_DEADLOCK FALSE` is set where a system may stop: all processes may wait on a
semaphore that nobody signals, programs end, and the calls of `FileCalls` run out.

## 6. Proofs

TLAPS checks the following for every value of the constants that satisfies the named
assumptions.

**`SemaphoresProofs`** (from `ConstantsAssumption`: at least one table entry, the null
channel is no semaphore).  The inductive invariant `IInv` of `Semaphores` is the
conjunction of

- `TypeOK`;
- `CallsConsistent`: what each place in a call implies (the argument is a semaphore,
  it is initialised past the test, zombies are in no call, ...);
- `LocksHeldRunning`, `SleepersReachable`;
- `NoLostWakeup`, when `InitWhileWaiting` is FALSE.

`NoLostWakeup` alone is not inductive: that a signaller clears *every* registered entry
before it leaves needs that it holds the lock (`LocksHeldRunning`), and that nobody else
registers meanwhile needs that registration happens under the same lock
(`CallsConsistent`).  One lemma shows each conjunct preserved.  Theorems: `InductiveInvariant`,
`TypeCorrect`, `NoWakeupLost`, `LocksCorrect`, `SleepersCorrect`, and
`ImplementsSemaphore`: each step maps to a step or a stutter of `CountingSemaphore`
under the refinement mapping count = value, waiting = the argument of a wait in
progress.  With `InitWhileWaiting` = TRUE (sem_init on a semaphore with waiters, which
the kernel does not prevent) everything but `NoWakeupLost` still holds.

For Assignment 4 (second part of the module; `A4Assumption` too) `A4Inv` is the types, `InCall` (a
call is about a semaphore), and, when `FirstInitAlone`
is TRUE, `FirstCallAlone` (until the locks are initialised one process at most is in a call, and then
nobody initialises them again) and `CriticalSectionsLocked`.  `SectionsLockedA4` has `FirstInitAlone` as its hypothesis: without it TLC
shows how the slower of two first callers frees a lock that a sem_down holds (section 8).
`TakesFromPositive` needs no hypothesis.

**`ProcessesProofs`** (from `TableAssumption`: NPROC is positive) begins with processes and threads.  `IInv` of `Lifecycle` is
`TypeOK`, `PlacesConsistent` (a process registers only on its own channel, free entries
and zombies are at no place in the kernel, init lives), `ForksConsistent` (an entry in
the making belongs to one caller and nobody touches it), `NoMissedExit` and
`ProcessesHaveParents`.  `NoMissedExit` needs `PlacesConsistent` (an exit wakes exactly
the parent's channel) and `ProcessesHaveParents` needs `ForksConsistent` (the parent that
fork fills in lives).  Theorems: `InductiveInvariant`, `TypeCorrect`, `NoExitMissed`,
`ParentsCorrect`.  `NobodyBornKilledCorrect` shows that the error of `LifecycleA4KillZero` is not in
Assignment 7.  The same `IInv` is inductive for Assignment 4: `NoExitMissedA4`.

The second half of the module (which uses `PausersAssumption` too) carries this over to
the composition that the run `Processes` checks: `TablesCorrect`.  For the timed sleep its `TimedInv` is
`TimedTypes`; `TicksLocked` (who is between his test and his release has tickslock, and so has
the clock while it scans); `CountsTicks` (the history variable `elapsed` is the difference of
the counters modulo `WRAP`, and small enough not to be a multiple too large); and `NobodyLeftBehind`
(once the scan is past an entry whose time is up, that entry neither sleeps nor will).
`NoTickMissed` speaks of the moments when tickslock is free; the invariant also of those when
wakeup() is in the middle of the table.
`CountsTicks` rests on two lemmas about `%`: the difference of a value to itself is 0, and one
more tick makes it larger by one while it is below `WRAP` - 1, wherever the counter wraps.
Theorems: `TicksNotMissed`, `PausesLastLongEnough`.

**`SchedulerProofs`** (from `SchedulerAssumption`) is about both kernels on every machine.  The invariant `AnyInv` is
`IInv` for Assignment 7 and `IInvA4` for Assignment 4.  Their first parts are types, the places
(a processor that searches or waits has no current process, and what it is about to claim is
one) and `RunsOnce`: the claim finds its entry RUNNABLE under the lock, by `RunsOnce` no other
processor has it, and the claimant has no other.  The last part (`SearchesAlone`,
`RoundsAlone`) says what a processor that is alone knows in the middle of its search: its best
candidate is still RUNNABLE with the priority that was read, and precedes every other RUNNABLE entry
that the search has passed, by priority or by its place in the rotation; and it waits for an interrupt
only when there is none.  With a second processor none of this holds.  Theorems:
`InductiveInvariant`, `RunsOnceCorrect`, `IdleCorrect`, `ClaimsCorrect`.

**`MemoryProofs`** (from `MemoryAssumption` and the hypothesis `HeapsBelowShm`).  `MemoryInv` is
`MemoryTypes`; `FramesAccounted`; `Structure`, until the kernel panics: only the page at SHM_VA is the shared one, a loop works on
the table of its own process or of the one child it builds (`Owners`), a child's table is
empty where the loop has not been (`Fresh`), and families are a partition (`Families`); and
`OneFamily`, a frame is mapped inside one family and at one address.
`FramesAccounted` is an equation between a counter and the cardinality of the set of mappings, one less
for a frame that a clone has mapped and not yet counted (`AddRef`): lemmas say how it changes when an
entry is filled or cleared, whatever the step.  `Fresh` is what makes copies and clones add exactly
one mapping, and a frame is on the freelist, to become another family's, only when the equation
says that nobody maps it, which keeps `OneFamily`.
`HeapsBelowShm` (`MaxSize` < `PAGES`) is needed: a heap that reaches SHM_VA overwrites the shared
page, and TLC then finds `FramesAccounted` violated; that nothing in the code prevents it is a hazard of the list and in section 8.
Theorems: `ReferencesCountMappings`, `FramesStayInTheFamily`, and `MemoryNeverPanics`: with `PanicFreeInv` (nothing
has panicked, and in Assignment 4 a heap has no holes) no page is mapped twice and none is unmapped that is not there.
Its second hypothesis, that nobody calls sbrklazy() in Assignment 4, is what the code needs: the run `MemoryA4Lazy`
shows the panic.

**`KernelMemoryProofs`** (from `MemoryAssumption`, `TablesAssumption` and `TopAssumption`; hypotheses `HeapsBelowShm` for one half and
`ImagesBelowShm` for the other, which say that heaps and program images end below SHM_VA, and no sbrklazy() in
Assignment 4).  `TablesInv`: a page table is empty or a space (`IsSpace`): finite; walk() finds
every page that is mapped; the kernel's pages are there, a process's own are below its size, and only Assignment 7 has
holes there; nothing has panicked; and `PagesAccounted`.  `PagesAccounted` alone is not inductive: that freeing a
table gives back as many pages as it holds needs `IsSpace`.  The proof follows the functions of vm.c:

- For a page table at work, `Others` is what is off the freelist less what the table accounts for.  A lemma for each function
  (`WalkFacts` to `CopyinstrFacts`) says that `Others` stays the same, whether the call succeeds or fails in the middle, what
  is mapped afterwards, and that there was no panic.
- The loops over pages are recursive functions.  That there is such a function is `LoopRuns`, by
  well-founded recursion; what holds at each page and at the end is `Arrives`: otherwise look at the smallest page
  where it fails.
- `AccountChanges` and `TableChanges` carry the change of one table over to the sum over all processes.

The refinement `PageTablesImplementPageMap` stands on `MapInv`: `TablesInv`, a process has the table pages for the kernel's
pages at the top, and an entry without a process has size 0.  `Image` is what a page table stands for: the
pages that are not the kernel's, and zeroes in the holes below the size.

- Lemmas say what becomes of the image: vmfault() fills a hole and so leaves it as it is (`VmfaultImage`,
  `ReachImage`), uvmalloc() and uvmdealloc() resize it (`UvmallocImage`, `ResizedIs`), a write to a page
  changes bytes of that page only (`WriteImage`).
- copyout(), copyin() and copyinstr() are loops over the pages of a buffer.  `Progress` says what has been written or read
  when a page is reached, `Stuck` why the loop ends there: the page may not be accessed, or memory has run short.  `LoopComes`
  carries one to the other.  At the end the pages are put together to bytes (`WrittenIs`, `Before`): the abstract
  call stops at a byte, and the code at a page, which are the same place.
- `GrowMaps`, `ForkMaps`, `StoreMaps` etc. show each system call to be its abstract step, with the same answer; a failure in the
  middle of fork, exec or sbrk undoes what had been done.

Theorems: `PageTablesSound`, `NoPageIsLost`, `KernelMemoryNeverPanics`, `PageTablesImplementPageMap`.

**`UserProgramsProofs`** (from `ProgramsAssumption`).  `ProgramsInv` has a part for each program, in force while it runs:

- `PetersonPart`: what the place of each process says of its flag, of its store buffer and of
  memory (`Pending`; past the barrier nothing is on its way), to whom the turn belongs when one is inside and the other waits
  (`TurnOrder`), who gets it after he was overtaken (`OvertakenLast`), and that the counter is the sum of
  the increments (`CounterInv`);
- `BufferPart`: the mutex is free or with one side, a unit of FULL is an item in stock that nobody has
  claimed and one of EMPTY a free slot (`BufferTokens`); `in` is where the stock ends (`BufferPlace`), and
  the cells from `out` on hold it in order (`StockInOrder`);
- `DataPart`: each of the three semaphores of readwrite has its unit, or one process has it, the data lock's
  also all readers together; `read_count` is the cardinality of the set of readers between their two updates;
- `OrderPart`: the count of a resource and the number of its holders add up to its capacity, and
  a worker waits only where its place says.  `NoCircularWait` follows with the order of the
  resources alone: in a set of workers look at the one that waits for, or holds, the largest.

Theorems: `CriticalSectionsExclusive`, `NoIncrementLost`, `OvertakingBounded`, `OrderPreventsDeadlock`, and
`BufferIsChannel`, the refinement of `Channel`: sending and receiving map to its actions, all other steps to stutters.

**`FileCallsProofs`** (from `FilesAssumption` and `CallsAssumption`: finite sets of processes, inodes, files and
names, paths that are not empty, room for the links of the first tree).  `FileInv` is

- the types, and `FilePart`: a file has as many references as descriptors and pipe ends
  (`FilesHeld`), pipes under way have two ends without an inode (`Pipes`), an unused entry has nothing open
  (`Unstarted`), and the pages of exec() add up (`PagesHeld`);
- `References`: `ref` of an inode is the number of its holders (`Holders`: current directories, walks,
  inodes that link() and unlink() keep, open files), and an inode is free when it has
  neither references nor links;
- `Places` and `Finds`: what each place of a call says of its walk and of the inodes there; in particular, while
  unlink() keeps its directory locked the name it has looked up stays in it, and the inode of
  link() is no directory; `OneLocker`: a lock has one holder;
- `TreePart`: `Directories` (only live directories hold names, each but the root has one in its `..`), `OneName`,
  `Acyclic` (following names comes to an end), and `Links`: `nlink` is the number of names and of the links that
  link() has counted in advance, which is what `LinkCounts` says when there is no call.

`LinkCounts` alone is not inductive, as the calls in between are what changes the counts, and `NoLockCycle`
not either: a circle of locks would be a circle of names, which `Acyclic` excludes, and that the locks are where
names lead is `Finds`, kept because whoever changes the directory needs its lock (`OneLocker`).
Most steps change no name (`QuietStep`): taking and giving back references may at most free an inode
without links and without holders, which nobody else is at; so only types, `Place` and the balance of p's own
references are left to show.  The steps that do (`LinkTarget`, `LinkEntry`, `LinkUndo`, `Remove`, `NewInode`) show
the tree anew: a new directory is empty and was nobody's, and one that is removed is empty.
Cardinalities change by lemmas about sets that agree but for one element (`Toggle`) or two.
Theorems: `InductiveInvariant`, `LinkCountsCorrect`, `TreeSoundCorrect`, `NothingLostCorrect`, `NoLockCycleCorrect`.

**`DeadlockToolsProofs`** (from `ToolsAssumption`: numbers and the entries of tables are in Nat, nobody starts with more than he declared; and
`SafeStartAssumption`: the state that bankers.c starts in is safe, which TLC evaluates for its own tables).  `ToolsInv` has a
part for each tool, in force while it runs:

- `DetectInv`: the work vector is the pool plus what the finished processes hold, none of whom is in a deadlock, and a pass
  without progress has met nobody whose request the work vector covers; so those left at the end are the deadlocked;
- `GraphInv`: the trace is a path of grey tasks, behind a black one there are only black ones, and no black
  task is on a cycle; so a back edge closes a loop, which is the one printed, and without one there is none;
- `BankInv`: what is free and what is allocated add up to the units there are, nobody has more than he declared, and between requests
  the state is safe.  The greedy search of the safety test is exact because a process that can finish can still do so after others have.

Sums over processes are recursive functions; the lemmas about them (changing one term, adding one process) look at the
smallest number of processes for which they fail.  Theorems: `ToolsInvariant`, `BankersTablesConsistent`, `BankersStaySafe`,
`SafetyTestIsExact`, `SearchesAreRight`, `BankersAgree`.

Only model-checked:

- every liveness property (`ServesWaiters`, `KilledSleeperDies`, `WaitReturns`, `NoStarvation`,
  `PauseEnds`, `EveryoneFinishes`, `SearchesEnd`): the prover handles neither fairness nor ENABLED here.

An induction over data cannot be stated with the library's theorems here; where an order on numbers or on finite sets is enough the
proofs look at a smallest counterexample instead.

## 7. Fairness

| assumption | why the code justifies it |
|---|---|
| a RUNNABLE process is dispatched (weak) | `Schedulers` checks `NoStarvation` of both kernels under a ticking timer |
| a process that repeatedly can take a kernel step takes it (strong, `Semaphores`, `SemaphoresA4`, `Pause`) | time slices are far longer than the few instructions between two points of preemption, and a spinlock is held for a bounded number of instructions with interrupts off. acquire() itself does not queue, so for two processes that spin for ever the strong form is an assumption about the hardware |
| a killed process leaves user space | usertrap() tests killed() at every interrupt |
| the timer ticks, the scheduler's loop goes on | clockintr() programs the next interrupt; the loop has no exit |
| a program's process runs on when it is not waiting; a store reaches memory | the scheduler; the machine |
| *not* assumed | that anybody ever calls sem_signal, forks, exits or kills; which of several waiters is served; that priorities are no longer set (`NoStarvation` says: unless set_priority is called for ever) |

## 8. What is not modelled, and known limits

- **Not modelled**: the contents of files and of pipes, with read, write, fstat, O_TRUNC and `pipe_deadlock_demo`
  of deadlock.c (sysfile.c hands these over to file.c and pipe.c, which are not in the repository); dispatch tables
  (static; in Assignment 4 SYS_sync and SYS_shm_get share number 22); boot, trap entry and the kernel's own
  page table; threadtest and priotest, which only exercise the kernel; kgetpriority() and other calls that
  change nothing; `run_bad` of resourceorder.c, which waits for ever on purpose until its parent gives up.
- **External**: sleep, spinlocks and init's loop are modelled from their use where their files
  (spinlock.c, init.c) are not in the repository, kexec() from how proc.c and vm.c serve it, and the inode layer,
  the file table and pipealloc() from what sysfile.c expects of them; so are sem_create and sem_post of the kernel under Assignment 6.
- **Atomicity**: a section under `p->lock`, under wait_lock or under kmem.lock is one step.  Wakeups,
  searches and page loops, which take a lock per entry or page, are not.
- **Removed directories**: `FileCalls` finds nothing through the `..` of a removed directory, whose entry may point
  to an inode that was freed; what namex() makes of it is in fs.c.
- **Kills on the way into a sleep** are not noticed before the sleep (sem_wait, wait and join test
  killed() and go to sleep later, and kkill() wakes only sleepers).  `KilledSleeperDies` and `WaitReturns` say
  what does hold; nothing in the repository promises more.
- **Assignment 4's sem_down** never looks at killed(): a victim sleeps on until it gets a unit.
- **Assignment 4's first sem_init** tests and sets sem_initialized without a lock.  The run
  `SemaphoresA4` has `FirstInitAlone` = TRUE (the programs call sem_init before they fork); with FALSE
  `CriticalSectionsLocked` does not hold.
- **sem_init on a semaphore with waiters** does not wake them.
- **wait() in a process with threads** may collect a thread, and reparent() passes over threads: a
  thread that outlives its process keeps a stale parent.  `ProcessesHaveParents` leaves
  threads out for this reason.
- **Two processors**: between the search and the claim the other processor may change states and
  priorities, so `IdleOnlyWithoutWork` and `ClaimsMostUrgent` are claimed for one processor only.
- **Heap and shared page**: memlayout.h of Assignment 4 says (lines 73 to 77) that the heap never uses SHM_VA, but sbrk
  only stops at TRAPFRAME; a process whose heap covers the page maps it twice at its next fork and panics.
  `MaxSize` keeps heaps below it in the models.
- **sem_signal** adds without a bound: the wrap-around after 2^31 signals is not modelled.

To repeat a check: `tlc -config <run>.cfg <module>.tla`; to repeat a proof: `tlapm <module>.tla`.
