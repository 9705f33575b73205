------------------------------- MODULE PageTables -------------------------------
(***************************************************************************)
(* Page tables and the kernel's access to user memory: walk(), mappages(), *)
(* the uvm functions, vmfault(), copyout(), copyin() and copyinstr()       *)
(* (vm.c), as proc_pagetable(), growproc(), kfork() and freeproc()         *)
(* (proc.c), sbrk and shm_get (sysproc.c), fetchaddr() and fetchstr()      *)
(* (syscall.c) and kexec() use them.  The same code in both kernels, but   *)
(* for what unmapping a range does with holes and with empty tables.       *)
(*                                                                         *)
(* A table page is named by the indices that lead to it, the root by <<>>; *)
(* a page table is the set of its table pages and a function from the      *)
(* virtual pages that are mapped to their entries.  Only the owner uses a  *)
(* page table, so a call is one step; other processors use the allocator   *)
(* meanwhile, so of the pages a call asks for, kalloc() gives any number.  *)
(***************************************************************************)
EXTENDS Integers, FiniteSets, Sequences, SequencesExt

CONSTANTS WIDTH,             \* entries of a table page (512)
          PGSIZE,            \* bytes of a page
          WORD,              \* sizeof(uint64)
          Proc,              \* two processes
          Amounts,           \* bytes by which sbrk() is asked to grow or shrink
          Addresses, Data,   \* addresses and byte strings of system calls
          MaxSize,           \* bound: bytes a process grows to
          MaxPages,          \* bound: pages that exec and fork need
          MaxFaultPages,     \* bound: pages that the other calls need
          Kernels,           \* subset of {"A7", "A4"}: which of them boots
          LazyKernels        \* those on which processes call sbrklazy()

MAXVA == WIDTH ^ 3           \* in pages
TRAMPOLINE == MAXVA - 1
TRAPFRAME == MAXVA - 2
SHM_VA == MAXVA - 3

VARIABLES kernel,            \* the kernel that was booted
          pagetable,         \* p->pagetable: [tables, pte]
          sz,                \* p->sz
          used,              \* pages off the freelist, the shared one left out
          reply,             \* history: the last call and what it returned
          panicked           \* has the kernel called panic()?

vars == <<kernel, pagetable, sz, used, reply, panicked>>

-------------------------------------------------------------------------------
(***************************************************************************)
(* Addresses, and the entries of a page table                              *)
(***************************************************************************)
PageOf(a) == a \div PGSIZE                          \* PGROUNDDOWN
RoundUp(a) == (a + PGSIZE - 1) \div PGSIZE          \* PGROUNDUP
PX(level, v) == (v \div WIDTH ^ level) % WIDTH
Path(v) == {<<>>, <<PX(2, v)>>, <<PX(2, v), PX(1, v)>>}

\* The pages from m up to, not including, n, in the order of the loops.
PagesFrom(m, n) == [i \in 1 .. n - m |-> m + i - 1]

\* Is it the process's own page, the shared one, or the kernel's; PTE_W; PTE_U.
Entry(kind, w, u) ==
  [kind |-> kind, w |-> w, u |-> u, bytes |-> [i \in 0 .. PGSIZE - 1 |-> 0]]
Zeroed(w) == Entry("own", w, TRUE)
SharedEntry == Entry("shared", TRUE, TRUE)

NoTable == [tables |-> {}, pte |-> <<>>]

\* A call at work on a page table: the table, the allocator, and the outcome.
\* `left' is the number of pages that kalloc() still gives it.
Work(table, inUse, left) ==
  [tables |-> table.tables, pte |-> table.pte, used |-> inUse, left |-> left,
   ok |-> TRUE, nomem |-> FALSE, panic |-> FALSE, bytes |-> <<>>]

\* `if (call < 0) return', and what is undone before that return.
Then(m, Step(_)) == IF m.ok THEN Step(m) ELSE m
OrUndo(m, Undo(_)) == IF m.ok THEN m ELSE Undo(m)

Fail(m) == [m EXCEPT !.ok = FALSE]
PanicIf(cond, m) == [m EXCEPT !.panic = @ \/ cond]

Kalloc(m) ==
  IF m.left = 0 THEN [m EXCEPT !.ok = FALSE, !.nomem = TRUE]
  ELSE [m EXCEPT !.left = @ - 1, !.used = @ + 1]

Kfree(m, n) == [m EXCEPT !.used = @ - n]

-------------------------------------------------------------------------------
(***************************************************************************)
(* Mapping                                                                 *)
(***************************************************************************)
\* walk() with alloc set: the table pages on the way, from the root down.
Walk(m, v) ==
  LET missing == Path(v) \ m.tables
      got == {t \in missing :
                Cardinality({s \in missing : Len(s) <= Len(t)}) <= m.left}
  IN [m EXCEPT !.tables = @ \cup got,
               !.used = @ + Cardinality(got), !.left = @ - Cardinality(got),
               !.ok = got = missing, !.nomem = got # missing]

Mappages(m, v, entry) ==
  Then(Walk(m, v), LAMBDA w :
    [PanicIf(v \in DOMAIN w.pte, w) EXCEPT                \* "mappages: remap"
       !.pte = [u \in DOMAIN @ \cup {v} |-> IF u = v THEN entry ELSE @[u]]])

\* A mistake: the new page is not freed when there is none for the table.
MapNewLeaks(m, v, entry) == Then(Kalloc(m), LAMBDA k : Mappages(k, v, entry))

\* A new page at v, as uvmalloc(), uvmcopy() and vmfault() get it.
MapNew(m, v, entry) ==
  Then(Kalloc(m), LAMBDA k : OrUndo(Mappages(k, v, entry), LAMBDA w : Kfree(w, 1)))

\* A loop over pages that ends at the first page that fails.
EachPage(Step(_, _), m, pages) ==
  LET after[i \in 0 .. Len(pages)] ==
        IF i = 0 THEN m
        ELSE LET acc == after[i - 1] IN IF acc.ok THEN Step(acc, pages[i]) ELSE acc
  IN after[Len(pages)]

\* The page is there, but no longer for the user.
Uvmclear(m, v) ==
  [PanicIf(~(Path(v) \subseteq m.tables), m) EXCEPT !.pte[v].u = FALSE]

-------------------------------------------------------------------------------
(***************************************************************************)
(* Unmapping                                                               *)
(***************************************************************************)
Uvmunmap(m, pages, do_free) ==
  LET here == pages \cap DOMAIN m.pte
      freed == {v \in here : do_free /\ m.pte[v].kind # "shared"}
  IN [PanicIf(here # pages, Kfree(m, Cardinality(freed)))     \* "uvmunmap: ..."
        EXCEPT !.pte = [v \in DOMAIN @ \ pages |-> @[v]]]

\* uvmunmap_sparse() of Assignment 7 passes over holes, uvmunmap() does not.
UnmapRange(m, pages) ==
  Uvmunmap(m, IF kernel = "A7" THEN pages \cap DOMAIN m.pte ELSE pages, TRUE)

\* free_empty_tables(), which keeps the root.
FreeEmptyTables(m) ==
  LET kept == {<<>>} \cup UNION {Path(v) : v \in DOMAIN m.pte}
  IN [Kfree(m, Cardinality(m.tables \ kept)) EXCEPT !.tables = @ \cap kept]

Uvmdealloc(m, oldsz, newsz) ==
  LET gone == RoundUp(newsz) .. RoundUp(oldsz) - 1
      u == UnmapRange(m, gone)
  IN IF gone = {} THEN m ELSE IF kernel = "A7" THEN FreeEmptyTables(u) ELSE u

Freewalk(m) ==
  [PanicIf(m.pte # <<>>, Kfree(m, Cardinality(m.tables)))      \* "freewalk: leaf"
     EXCEPT !.tables = {}]

Uvmfree(m, size) == Freewalk(UnmapRange(m, 0 .. RoundUp(size) - 1))

ProcFreepagetable(m, size) ==
  LET u == Uvmunmap(m, {TRAMPOLINE, TRAPFRAME}, FALSE)
  IN Uvmfree(Uvmunmap(u, {SHM_VA} \cap DOMAIN u.pte, FALSE), size)

-------------------------------------------------------------------------------
(***************************************************************************)
(* Growing, copying and a new process                                      *)
(***************************************************************************)
Uvmalloc(m, oldsz, newsz, w) ==
  LET pages == PagesFrom(RoundUp(oldsz), RoundUp(newsz))
      Undo(grown) ==
        LET mapped == {v \in Range(pages) : v \in DOMAIN grown.pte}
        IN Uvmdealloc(grown, (RoundUp(oldsz) + Cardinality(mapped)) * PGSIZE, oldsz)
  IN OrUndo(EachPage(LAMBDA acc, v : MapNew(acc, v, Zeroed(w)), m, pages), Undo)

\* uvmcopy() from the page table old, whose holes are passed over.
Uvmcopy(m, old, size) ==
  LET Copy(acc, v) == IF v \in DOMAIN old THEN MapNew(acc, v, old[v]) ELSE acc
      Undo(copied) ==
        LET failed == {v \in 0 .. RoundUp(size) - 1 :
                         v \in DOMAIN old /\ v \notin DOMAIN copied.pte}
            err == CHOOSE v \in failed : \A u \in failed : v <= u
        IN UnmapRange(copied, 0 .. err - 1)
  IN OrUndo(EachPage(Copy, m, PagesFrom(0, RoundUp(size))), Undo)

ProcPagetable(m) ==
  LET Trampoline(root) == Mappages([root EXCEPT !.tables = {<<>>}], TRAMPOLINE,
                                   Entry("kernel", FALSE, FALSE))
      Trapframe(tramp) == OrUndo(Mappages(tramp, TRAPFRAME, Entry("kernel", TRUE, FALSE)),
                                 LAMBDA f : Uvmunmap(f, {TRAMPOLINE}, FALSE))
  IN Then(Kalloc(m), LAMBDA root :
       OrUndo(Then(Trampoline(root), Trapframe), LAMBDA f : Uvmfree(f, 0)))

\* allocproc(): a page for the trapframe, and a page table.
Allocproc(m) ==
  Then(Kalloc(m), LAMBDA k : OrUndo(ProcPagetable(k), LAMBDA f : Kfree(f, 1)))

Freeproc(m, size) == ProcFreepagetable(Kfree(m, 1), size)

-------------------------------------------------------------------------------
(***************************************************************************)
(* Access to user memory                                                   *)
(***************************************************************************)
\* vmfault() for the address va: a page of the heap that is not there yet.
Vmfault(m, psz, va) ==
  IF va >= psz \/ PageOf(va) \in DOMAIN m.pte THEN Fail(m)
  ELSE MapNew(m, PageOf(va), Zeroed(TRUE))

\* walkaddr(), and vmfault() when it finds no page for the user.
Reach(m, psz, v) ==
  IF v \in DOMAIN m.pte /\ m.pte[v].u THEN m ELSE Vmfault(m, psz, v * PGSIZE)

Touched(a, n) == PagesFrom(PageOf(a), PageOf(a + n - 1) + 1)
PartOf(v, a, n) == {x \in a .. a + n - 1 : PageOf(x) = v}
ByteAt(m, a) == m.pte[PageOf(a)].bytes[a % PGSIZE]

\* A mistake: "forbid copyout over read-only user text pages" is forgotten.
WriteUnchecked(m, v, a, data) ==
  [m EXCEPT !.pte[v].bytes =
     [i \in DOMAIN @ |-> IF v * PGSIZE + i \in PartOf(v, a, Len(data))
                         THEN data[v * PGSIZE + i - a + 1] ELSE @[i]]]

Write(m, v, a, data) ==
  IF m.pte[v].w THEN WriteUnchecked(m, v, a, data) ELSE Fail(m)

Copyout(m, psz, a, data) ==
  EachPage(LAMBDA acc, v : Then(Reach(acc, psz, v), LAMBDA r : Write(r, v, a, data)),
           m, Touched(a, Len(data)))

\* The n bytes from a on that are in page v, behind those read before.
ReadPart(m, v, a, n) ==
  LET part == PartOf(v, a, n)
      first == CHOOSE x \in part : \A y \in part : x <= y
  IN [m EXCEPT !.bytes = @ \o [i \in 1 .. Cardinality(part) |-> ByteAt(m, first + i - 1)]]

Copyin(m, psz, a, n) ==
  EachPage(LAMBDA acc, v : Then(Reach(acc, psz, v), LAMBDA r : ReadPart(r, v, a, n)),
           m, Touched(a, n))

Terminated(s) == \E i \in 1 .. Len(s) : s[i] = 0

\* copyinstr() stops at the page where the string ends; bytes behind its end
\* are not copied.
Copyinstr(m, psz, a, max) ==
  LET Read(acc, v) == IF Terminated(acc.bytes) THEN acc
                      ELSE Then(Reach(acc, psz, v), LAMBDA r : ReadPart(r, v, a, max))
      End(s) == CHOOSE i \in 1 .. Len(s) : s[i] = 0 /\ \A j \in 1 .. i - 1 : s[j] # 0
  IN Then(EachPage(Read, m, Touched(a, max)), LAMBDA r :
       IF Terminated(r.bytes) THEN [r EXCEPT !.bytes = SubSeq(@, 1, End(@))] ELSE Fail(r))

-------------------------------------------------------------------------------
(***************************************************************************)
(* The calls                                                               *)
(***************************************************************************)
Nothing == [call |-> "none"]
Exists(p) == pagetable[p].tables # {}

\* Two page tables share no page but that of shm_get(), so that after a fork
\* one of the two processes exits before the other goes on.
Ready == ~panicked /\ reply = Nothing
Alone(p) == Ready /\ Exists(p) /\ \A q \in Proc \ {p} : ~Exists(q)

On(p, left) == Work(pagetable[p], used, left)

Done(call, p, args, m) ==
  /\ used' = m.used /\ panicked' = m.panic /\ UNCHANGED kernel
  /\ reply' = [call |-> call, p |-> p, args |-> args, ok |-> m.ok,
               nomem |-> m.nomem, bytes |-> IF m.ok THEN m.bytes ELSE <<>>]

Table(m) == [tables |-> m.tables, pte |-> m.pte]
Returns(p, m, size) == /\ pagetable' = [pagetable EXCEPT ![p] = Table(m)]
                       /\ sz' = [sz EXCEPT ![p] = size]

Init ==
  \E p \in Proc :
    LET first == Allocproc(Work(NoTable, 0, MaxPages)) IN
      /\ kernel \in Kernels
      /\ pagetable = [q \in Proc |-> IF q = p THEN Table(first) ELSE NoTable]
      /\ sz = [q \in Proc |-> 0]
      /\ used = first.used
      /\ reply = Nothing
      /\ panicked = FALSE

\* kexec() builds a page of text, a guard page and a page of stack in a page
\* table of their own before it frees the old one.
Exec(p, left) ==
  LET Text(made) == OrUndo(Uvmalloc(made, 0, PGSIZE, FALSE),
                           LAMBDA f : ProcFreepagetable(f, 0))
      Stack(text) == OrUndo(Uvmalloc(text, PGSIZE, 3 * PGSIZE, TRUE),
                            LAMBDA f : ProcFreepagetable(f, PGSIZE))
      new == Then(Then(Then(ProcPagetable(Work(NoTable, used, left)), Text), Stack),
                  LAMBDA m : Uvmclear(m, 1))
      old == ProcFreepagetable(Work(pagetable[p], new.used, 0), sz[p])
  IN /\ Alone(p)
     /\ IF new.ok
          THEN Returns(p, new, 3 * PGSIZE) /\ Done("exec", p, <<>>, PanicIf(new.panic, old))
          ELSE UNCHANGED <<pagetable, sz>> /\ Done("exec", p, <<>>, new)

WithinBound(p, n) == sz[p] + n <= MaxSize \/ sz[p] + n > TRAPFRAME * PGSIZE

\* sbrk() with SBRK_EAGER, n > 0: growproc() and uvmalloc().
SbrkGrow(p, n, left) ==
  LET m == Uvmalloc(On(p, left), sz[p], sz[p] + n, TRUE)
  IN /\ Alone(p) /\ WithinBound(p, n)
     /\ IF sz[p] + n > TRAPFRAME * PGSIZE
          THEN UNCHANGED <<pagetable, sz>> /\ Done("grow", p, <<n>>, Fail(On(p, left)))
          ELSE /\ Returns(p, m, IF m.ok THEN sz[p] + n ELSE sz[p])
               /\ Done("grow", p, <<n>>, m)

SbrkLazy(p, n) ==
  /\ Alone(p) /\ kernel \in LazyKernels /\ WithinBound(p, n)
  /\ UNCHANGED pagetable
  /\ IF sz[p] + n > TRAPFRAME * PGSIZE
       THEN UNCHANGED sz /\ Done("grow", p, <<n>>, Fail(On(p, 0)))
       ELSE sz' = [sz EXCEPT ![p] = @ + n] /\ Done("grow", p, <<n>>, On(p, 0))

\* n < 0; when sz + n wraps around it is large, and uvmdealloc() does nothing.
SbrkShrink(p, n) ==
  LET size == IF n <= sz[p] THEN sz[p] - n ELSE sz[p]
      m == Uvmdealloc(On(p, 0), sz[p], size)
  IN /\ Alone(p)
     /\ Returns(p, m, size) /\ Done("shrink", p, <<n>>, m)

ShmGet(p, left) ==
  LET m == IF SHM_VA \in DOMAIN pagetable[p].pte THEN On(p, left)
           ELSE Mappages(On(p, left), SHM_VA, SharedEntry)
  IN /\ Alone(p)
     /\ Returns(p, m, sz[p]) /\ Done("shm", p, <<>>, m)

\* kfork(): np->sz is 0 until the copy is complete, and the result of mapping
\* the shared page is not looked at.
Fork(p, np, left) ==
  LET Copy(child) == OrUndo(Uvmcopy(child, pagetable[p].pte, sz[p]),
                            LAMBDA f : Freeproc(f, 0))
      Share(copy) == IF SHM_VA \in DOMAIN pagetable[p].pte
                     THEN [Mappages(copy, SHM_VA, SharedEntry) EXCEPT !.ok = TRUE] ELSE copy
      m == Then(Then(Allocproc(Work(NoTable, used, left)), Copy), Share)
  IN /\ Alone(p) /\ np # p
     /\ IF m.ok THEN Returns(np, m, sz[p]) ELSE UNCHANGED <<pagetable, sz>>
     /\ Done("fork", p, <<np>>, m)

\* exit, and freeproc() by the parent.
Exit(p) ==
  LET m == Freeproc(On(p, 0), sz[p])
  IN /\ Ready /\ Exists(p) /\ ~Alone(p)
     /\ Returns(p, m, 0) /\ Done("exit", p, <<>>, m)

\* usertrap() on a load or a store that finds no page; vmfault() is given the
\* address itself.
PageFault(p, a, left) ==
  LET m == Vmfault(On(p, left), sz[p], a)
  IN /\ Alone(p)
     /\ Returns(p, m, sz[p]) /\ Done("fault", p, <<a>>, m)

Store(p, a, data, left) ==
  LET m == Copyout(On(p, left), sz[p], a, data)
  IN /\ Alone(p)
     /\ Returns(p, m, sz[p]) /\ Done("store", p, <<a, data>>, m)

Load(p, a, n, left) ==
  LET m == Copyin(On(p, left), sz[p], a, n)
  IN /\ Alone(p)
     /\ Returns(p, m, sz[p]) /\ Done("load", p, <<a, n>>, m)

\* fetchaddr(): the word lies within the process's memory.
Fetchaddr(p, a, left) ==
  LET m == IF a >= sz[p] \/ a + WORD > sz[p] THEN Fail(On(p, left))
           ELSE Copyin(On(p, left), sz[p], a, WORD)
  IN /\ Alone(p)
     /\ Returns(p, m, sz[p]) /\ Done("word", p, <<a>>, m)

Fetchstr(p, a, max, left) ==
  LET m == Copyinstr(On(p, left), sz[p], a, max)
  IN /\ Alone(p)
     /\ Returns(p, m, sz[p]) /\ Done("string", p, <<a, max>>, m)

\* The process sees what the call returned, and goes on.
Return == /\ reply # Nothing /\ reply' = Nothing
          /\ UNCHANGED <<kernel, pagetable, sz, used, panicked>>

LongCall(p, left) == Exec(p, left) \/ \E np \in Proc : Fork(p, np, left)

Call(p, left) ==
  \/ ShmGet(p, left)
  \/ \E n \in Amounts : SbrkGrow(p, n, left)
  \/ \E a \in Addresses :
       \/ PageFault(p, a, left) \/ Fetchaddr(p, a, left)
       \/ \E data \in Data : \/ Store(p, a, data, left)
                            \/ Load(p, a, Len(data), left)
                            \/ Fetchstr(p, a, Len(data), left)

Next == Return \/ \E p \in Proc :
  \/ \E left \in 0 .. MaxPages : LongCall(p, left)
  \/ \E left \in 0 .. MaxFaultPages : Call(p, left)
  \/ \E n \in Amounts : SbrkLazy(p, n) \/ SbrkShrink(p, n)
  \/ Exit(p)

Spec == Init /\ [][Next]_vars

-------------------------------------------------------------------------------
(***************************************************************************)
(* Every page off the freelist is a table page, a trapframe or a page that *)
(* one process has mapped: whatever kalloc() refused in the middle of a    *)
(* call, nothing is lost and nothing is freed that is still in use (the    *)
(* error paths of vm.c and proc.c).                                        *)
(***************************************************************************)
PagesAccounted ==
  ~panicked =>
    LET tables == UNION {{p} \X pagetable[p].tables : p \in Proc}
        own == UNION {{p} \X {v \in DOMAIN pagetable[p].pte :
                                pagetable[p].pte[v].kind = "own"} : p \in Proc}
        trapframes == {p \in Proc : Exists(p)}
    IN used = Cardinality(tables) + Cardinality(own) + Cardinality(trapframes)

\* The memory that a program sees: pages not touched yet are pages of zeros,
\* and neither table pages nor the kernel's entries are there.
View(p) ==
  LET pte == pagetable[p].pte
      mapped == {v \in DOMAIN pte : pte[v].kind # "kernel"}
  IN [v \in mapped \cup (0 .. RoundUp(sz[p]) - 1) |->
        IF v \in mapped THEN pte[v] ELSE Zeroed(TRUE)]

(***************************************************************************)
(* Each call does to the memory of its process what PageMap says, which    *)
(* knows nothing of page tables, of faults and of laziness.                *)
(***************************************************************************)
Abstract == INSTANCE PageMap WITH space <- [p \in Proc |-> View(p)]
ImplementsPageMap == Abstract!Spec
===============================================================================
