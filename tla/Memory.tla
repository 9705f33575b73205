--------------------------------- MODULE Memory ---------------------------------
(***************************************************************************)
(* User memory: the reference-counted page allocator (kalloc.c), page      *)
(* tables (vm.c), sbrk and shm_get (sysproc.c), and the copying or sharing *)
(* of pages by fork and clone and their release by freeproc (proc.c).      *)
(*                                                                         *)
(* Two kernels: that of Assignment 7 has clone() and skips the holes of a  *)
(* range that it unmaps; that of Assignment 4 has neither, and its         *)
(* uvmunmap() panics on a hole.                                            *)
(*                                                                         *)
(* Addresses are page numbers; the page below the trapframe is SHM_VA.     *)
(* Loops over pages run one page at a time, because other processors use   *)
(* the allocator in between; kalloc(), kfree() and kaddref() are atomic    *)
(* (kmem.lock).  Page-table pages and trapframes are not counted: running  *)
(* out of memory for them is a failure that may strike at any time.        *)
(***************************************************************************)
EXTENDS Integers, FiniteSets, TLC

CONSTANTS Proc, InitProc,    \* entries of the process table; init's
          Frame,             \* physical pages for user memory
          PAGES,             \* user pages below the trapframe
          MaxSize,           \* bound: pages a process grows to
          Kernels,           \* subset of {"A7", "A4"}: which of them boots
          LazyKernels,       \* those on which processes call sbrklazy()
          None, Shm          \* no page; the page shm_page_pa

ASSUME MemoryAssumption ==
  /\ PAGES \in Nat \ {0} /\ MaxSize \in 1 .. PAGES
  /\ Kernels \subseteq {"A7", "A4"} /\ LazyKernels \subseteq Kernels
  /\ IsFiniteSet(Proc) /\ InitProc \in Proc
  /\ None \notin Frame /\ Shm \notin Frame /\ None # Shm

Page == 0 .. PAGES - 1
SHM_VA == PAGES - 1

VARIABLES kernel,            \* the kernel that was booted
          state,             \* "unused", "used", "running", "zombie"
          sz,                \* p->sz
          pte,               \* p->pagetable: page |-> frame
          family,            \* history: p and the entries that share memory with it
          op,                \* the loop over pages p is in, or Idle
          references,        \* references[]; 0 means the frame is on the freelist
          panicked           \* has the kernel called panic()?

vars == <<kernel, state, sz, pte, family, op, references, panicked>>

Symmetry == Permutations(Frame) \cup Permutations(Proc \ {InitProc})

\* A loop at page i of a range that ends before `end', working for the entry np.
\*   grow    uvmalloc, with `base' the page it started from
\*   copy    uvmcopy        share   uvmshare        addref   its kaddref
\*   shrink  uvmdealloc     undo    the error paths of uvmcopy and uvmshare
\*   free    freeproc
Loop(kind, np, i, end, base) ==
  [kind |-> kind, np |-> np, i |-> i, end |-> end, base |-> base]
Idle == Loop("idle", None, 0, 0, 0)

Init ==
  \E f \in Frame :
    /\ kernel \in Kernels
    /\ state = [p \in Proc |-> IF p = InitProc THEN "running" ELSE "unused"]
    /\ sz = [p \in Proc |-> IF p = InitProc THEN 1 ELSE 0]
    /\ pte = [p \in Proc |->
                [v \in Page |-> IF p = InitProc /\ v = 0 THEN f ELSE None]]
    /\ family = [p \in Proc |-> {p}]
    /\ op = [p \in Proc |-> Idle]
    /\ references = [g \in Frame |-> IF g = f THEN 1 ELSE 0]
    /\ panicked = FALSE

Running(p) == ~panicked /\ state[p] = "running"
In(p, kind) == ~panicked /\ op[p].kind = kind
MayCall(p) == Running(p) /\ In(p, "idle")
More(p) == op[p].i < op[p].end

Set(p, loop) == op' = [op EXCEPT ![p] = loop]
NextPage(p) == op' = [op EXCEPT ![p].i = @ + 1]

Panic == panicked' = TRUE /\ UNCHANGED <<state, sz, pte, family, op, references>>

-------------------------------------------------------------------------------
(***************************************************************************)
(* The allocator                                                           *)
(***************************************************************************)
Free == {f \in Frame : references[f] = 0}

Kalloc(f) == f \in Free /\ references' = [references EXCEPT ![f] = 1]

\* A mistake: the frame goes to the freelist whoever else maps it.
KfreeAtOnce(f) == [references EXCEPT ![f] = 0]

\* kfree() of a frame that is in use.
Kfree(f) == [references EXCEPT ![f] = @ - 1]

Unmapped(p, v) == [pte EXCEPT ![p][v] = None]

\* What unmapping a page with do_free does to its frame: the shared page stays.
Released(f) == IF f = Shm THEN references ELSE Kfree(f)

-------------------------------------------------------------------------------
(***************************************************************************)
(* sbrk, page faults and shm_get                                           *)
(***************************************************************************)
SbrkLazy(p, k) ==
  /\ MayCall(p) /\ kernel \in LazyKernels /\ sz[p] + k <= MaxSize
  /\ sz' = [sz EXCEPT ![p] = @ + k]
  /\ UNCHANGED <<state, pte, family, op, references, panicked>>

SbrkGrow(p, k) ==
  /\ MayCall(p) /\ sz[p] + k <= MaxSize
  /\ Set(p, Loop("grow", p, sz[p], sz[p] + k, sz[p]))
  /\ UNCHANGED <<state, sz, pte, family, references, panicked>>

GrowPage(p) ==
  /\ In(p, "grow") /\ More(p)
  /\ IF pte[p][op[p].i] # None
       THEN Panic                               \* "mappages: remap"
       ELSE \E f \in Frame :
              /\ Kalloc(f)
              /\ pte' = [pte EXCEPT ![p][op[p].i] = f]
              /\ NextPage(p)
              /\ UNCHANGED <<state, sz, family, panicked>>

GrowDone(p) ==
  /\ In(p, "grow") /\ ~More(p)
  /\ sz' = [sz EXCEPT ![p] = op[p].end]
  /\ Set(p, Idle)
  /\ UNCHANGED <<state, pte, family, references, panicked>>

\* Out of memory: uvmdealloc() takes back what was added, the size stays.
GrowFails(p) ==
  /\ In(p, "grow") /\ More(p)
  /\ Set(p, Loop("shrink", p, op[p].base, op[p].i, op[p].base))
  /\ UNCHANGED <<state, sz, pte, family, references, panicked>>

SbrkShrink(p, k) ==
  /\ MayCall(p) /\ k <= sz[p]
  /\ Set(p, Loop("shrink", p, sz[p] - k, sz[p], sz[p] - k))
  /\ UNCHANGED <<state, sz, pte, family, references, panicked>>

ShrinkDone(p) ==
  /\ In(p, "shrink") /\ ~More(p)
  /\ sz' = [sz EXCEPT ![p] = op[p].base]
  /\ Set(p, Idle)
  /\ UNCHANGED <<state, pte, family, references, panicked>>

\* vmfault(); when it fails, usertrap() kills the process.
Fault(p, v) ==
  /\ MayCall(p) /\ v < sz[p] /\ pte[p][v] = None
  /\ \E f \in Frame : Kalloc(f) /\ pte' = [pte EXCEPT ![p][v] = f]
  /\ UNCHANGED <<state, sz, family, op, panicked>>

ShmGet(p) ==
  /\ MayCall(p) /\ pte[p][SHM_VA] = None
  /\ pte' = [pte EXCEPT ![p][SHM_VA] = Shm]
  /\ UNCHANGED <<state, sz, family, op, references, panicked>>

-------------------------------------------------------------------------------
(***************************************************************************)
(* One page of the loops that unmap: uvmunmap_sparse() in Assignment 7,    *)
(* uvmunmap() in Assignment 4.                                             *)
(***************************************************************************)
Unmapping == {"shrink", "undo", "free"}

UnmapPage(p) ==
  /\ ~panicked /\ op[p].kind \in Unmapping /\ More(p)
  /\ LET q == op[p].np
         f == pte[q][op[p].i]
     IN /\ f # None
        /\ pte' = Unmapped(q, op[p].i)
        /\ references' = Released(f)
  /\ NextPage(p)
  /\ UNCHANGED <<state, sz, family, panicked>>

\* A mistake, and what Assignment 4 does in any case: panic("uvmunmap: not mapped").
UnmapHolePanics(p) ==
  /\ ~panicked /\ op[p].kind \in Unmapping /\ More(p)
  /\ pte[op[p].np][op[p].i] = None
  /\ Panic

UnmapHole(p) ==
  /\ ~panicked /\ op[p].kind \in Unmapping /\ More(p)
  /\ pte[op[p].np][op[p].i] = None
  /\ IF kernel = "A7"
       THEN NextPage(p) /\ UNCHANGED <<state, sz, pte, family, references, panicked>>
       ELSE Panic

-------------------------------------------------------------------------------
(***************************************************************************)
(* fork and clone                                                          *)
(***************************************************************************)
Begin(p, np, kind) ==
  /\ MayCall(p) /\ state[np] = "unused"
  /\ state' = [state EXCEPT ![np] = "used"]
  /\ op' = [op EXCEPT ![p] = Loop(kind, np, 0, sz[p], 0)]

\* kfork() calls uvmcopy() while np->sz is 0.
Fork(p, np) ==
  /\ Begin(p, np, "copy")
  /\ UNCHANGED <<sz, pte, family, references, panicked>>

\* kclone() sets np->sz before it calls uvmshare().
Clone(p, np) ==
  /\ kernel = "A7" /\ sz[p] > 0
  /\ Begin(p, np, "share")
  /\ family' = LET kin == family[p] \cup {np}
               IN [q \in Proc |-> IF q \in kin THEN kin ELSE family[q]]
  /\ sz' = [sz EXCEPT ![np] = sz[p]]
  /\ UNCHANGED <<pte, references, panicked>>

\* A page that is not there is skipped; so is every page of Assignment 4's holes.
SkipHole(p) ==
  /\ ~panicked /\ op[p].kind \in {"copy", "share"} /\ More(p)
  /\ pte[p][op[p].i] = None
  /\ NextPage(p)
  /\ UNCHANGED <<state, sz, pte, family, references, panicked>>

CopyPage(p) ==
  /\ In(p, "copy") /\ More(p) /\ pte[p][op[p].i] # None
  /\ \E f \in Frame : Kalloc(f) /\ pte' = [pte EXCEPT ![op[p].np][op[p].i] = f]
  /\ NextPage(p)
  /\ UNCHANGED <<state, sz, family, panicked>>

SharePage(p) ==
  /\ In(p, "share") /\ More(p) /\ pte[p][op[p].i] # None
  /\ pte' = [pte EXCEPT ![op[p].np][op[p].i] = pte[p][op[p].i]]
  /\ op' = [op EXCEPT ![p].kind = "addref"]
  /\ UNCHANGED <<state, sz, family, references, panicked>>

\* A mistake: the reference is not counted.
AddRefForgotten(p) ==
  /\ In(p, "addref")
  /\ op' = [op EXCEPT ![p].kind = "share", ![p].i = @ + 1]
  /\ UNCHANGED <<state, sz, pte, family, references, panicked>>

AddRef(p) ==
  /\ In(p, "addref")
  /\ LET f == pte[p][op[p].i] IN
       IF f \in Free
         THEN Panic                              \* "kaddref: freed page"
         ELSE /\ references' = IF f = Shm THEN references
                               ELSE [references EXCEPT ![f] = @ + 1]
              /\ op' = [op EXCEPT ![p].kind = "share", ![p].i = @ + 1]
              /\ UNCHANGED <<state, sz, pte, family, panicked>>

\* The shared page is mapped last, and the child becomes RUNNABLE.
ChildDone(p) ==
  /\ ~panicked /\ op[p].kind \in {"copy", "share"} /\ ~More(p)
  /\ LET np == op[p].np IN
       IF pte[p][SHM_VA] # None /\ pte[np][SHM_VA] # None
         THEN Panic                              \* "mappages: remap"
         ELSE /\ pte' = IF pte[p][SHM_VA] = None THEN pte
                        ELSE [pte EXCEPT ![np][SHM_VA] =
                                IF op[p].kind = "copy" THEN Shm ELSE pte[p][SHM_VA]]
              /\ sz' = [sz EXCEPT ![np] = sz[p]]
              /\ state' = [state EXCEPT ![np] = "running"]
              /\ Set(p, Idle)
              /\ UNCHANGED <<family, references, panicked>>

\* Out of memory: the pages mapped so far are unmapped, then freeproc().
ChildFails(p) ==
  /\ ~panicked /\ op[p].kind \in {"copy", "share"} /\ More(p)
  /\ Set(p, Loop("undo", op[p].np, 0, op[p].i, 0))
  /\ UNCHANGED <<state, sz, pte, family, references, panicked>>

UndoDone(p) ==
  /\ In(p, "undo") /\ ~More(p)
  /\ LET np == op[p].np IN
       op' = [op EXCEPT ![p] = Idle, ![np] = Loop("free", np, 0, sz[np], 0)]
  /\ UNCHANGED <<state, sz, pte, family, references, panicked>>

-------------------------------------------------------------------------------
(***************************************************************************)
(* exit, and freeproc by the parent's wait or join                         *)
(***************************************************************************)
Exit(p) ==
  /\ MayCall(p) /\ p # InitProc
  /\ state' = [state EXCEPT ![p] = "zombie"]
  /\ UNCHANGED <<sz, pte, family, op, references, panicked>>

\* freeproc() first unmaps the page at SHM_VA, whatever it is, without freeing it.
FreeProc(p) ==
  /\ ~panicked /\ state[p] = "zombie" /\ In(p, "idle")
  /\ Set(p, Loop("free", p, 0, sz[p], 0))
  /\ pte' = Unmapped(p, SHM_VA)
  /\ UNCHANGED <<state, sz, family, references, panicked>>

\* freewalk() panics when it meets a mapping, and the entry is free again.
FreeDone(p) ==
  /\ In(p, "free") /\ ~More(p)
  /\ IF \E v \in Page : pte[p][v] # None
       THEN Panic                                \* "freewalk: leaf"
       ELSE /\ state' = [state EXCEPT ![p] = "unused"]
            /\ sz' = [sz EXCEPT ![p] = 0]
            /\ family' = [q \in Proc |-> IF q = p THEN {p} ELSE family[q] \ {p}]
            /\ Set(p, Idle)
            /\ UNCHANGED <<pte, references, panicked>>

-------------------------------------------------------------------------------
\* A process that is in no loop makes a call, exits or is freed.
Calls(p) ==
  \/ ShmGet(p) \/ Exit(p) \/ FreeProc(p)
  \/ \E v \in Page : Fault(p, v)
  \/ \E k \in 1 .. MaxSize : SbrkLazy(p, k) \/ SbrkGrow(p, k) \/ SbrkShrink(p, k)
  \/ \E np \in Proc : Fork(p, np) \/ Clone(p, np)

Loops(p) ==
  \/ GrowPage(p) \/ GrowDone(p) \/ GrowFails(p) \/ ShrinkDone(p)
  \/ UnmapPage(p) \/ UnmapHole(p)
  \/ SkipHole(p) \/ CopyPage(p) \/ SharePage(p) \/ AddRef(p)
  \/ ChildDone(p) \/ ChildFails(p) \/ UndoDone(p) \/ FreeDone(p)

Step(p) == \/ op[p].kind = "idle" /\ Calls(p)
           \/ op[p].kind # "idle" /\ Loops(p)

Next == UNCHANGED kernel /\ \E p \in Proc : Step(p)

Spec == Init /\ [][Next]_vars

-------------------------------------------------------------------------------
\* The page table entries that hold a frame, without the one whose reference is
\* about to be counted.
Mappings(f) == {m \in Proc \X Page : pte[m[1]][m[2]] = f}
Uncounted(f) == {p \in Proc : op[p].kind = "addref" /\ pte[p][op[p].i] = f}

(***************************************************************************)
(* Every frame is counted once for each page table that maps it: no frame  *)
(* is on the freelist while somebody maps it, and none is lost when the    *)
(* last mapping goes, through every error path and with processes that     *)
(* fork, clone, grow, shrink and exit at the same time (kalloc.c).         *)
(***************************************************************************)
FramesAccounted ==
  ~panicked => \A f \in Frame :
    references[f] = Cardinality(Mappings(f)) - Cardinality(Uncounted(f))

(***************************************************************************)
(* A frame is mapped by two processes only if one was cloned from the      *)
(* other, directly or not, and then at the same address: fork copies.      *)
(***************************************************************************)
OnlyThreadsShare ==
  \A f \in Frame : \A m, n \in Mappings(f) :
    m[1] # n[1] => m[1] \in family[n[1]] /\ m[2] = n[2]

(***************************************************************************)
(* No panic: a range may have holes when it is unmapped ("It's OK if the   *)
(* mappings don't exist", vm.c, uvmunmap, of both kernels), no page is     *)
(* mapped twice, no freed page is shared, and every page table is empty    *)
(* when it is freed.                                                       *)
(***************************************************************************)
NoPanic == ~panicked

(***************************************************************************)
(* clone() "assigns the child's pgdir pointer to the parent's pgdir,       *)
(* enabling a shared address space" (Assignment 7, REPORT.md:6): at an     *)
(* address inside both of their heaps two running threads of one family    *)
(* never see two different pages.                                          *)
(***************************************************************************)
ThreadsSeeTheSame ==
  \A p, q \in Proc, v \in Page :
    /\ state[p] = "running" /\ state[q] = "running" /\ p \in family[q]
    /\ v < sz[p] /\ v < sz[q]
    /\ pte[p][v] # None /\ pte[q][v] # None
    => pte[p][v] = pte[q][v]
===============================================================================
