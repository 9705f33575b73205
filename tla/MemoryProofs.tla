------------------------------ MODULE MemoryProofs ------------------------------
(***************************************************************************)
(* For all numbers of processes, frames and pages: every frame is counted  *)
(* once for each page table that maps it, only processes cloned from one   *)
(* another map the same frame, and the kernels do not panic.  Assumed is   *)
(* that no heap reaches the page of shared memory, which freeproc() unmaps *)
(* without freeing it, and, for the last, that nobody calls sbrklazy() in  *)
(* the kernel of Assignment 4.                                             *)
(***************************************************************************)
EXTENDS Memory, TLAPS, FiniteSetTheorems

HeapsBelowShm == MaxSize < PAGES

-------------------------------------------------------------------------------
(***************************************************************************)
(* The inductive invariant                                                 *)
(***************************************************************************)
States == {"unused", "used", "running", "zombie"}
OwnLoops == {"grow", "shrink"}
ChildLoops == {"copy", "share", "addref", "undo"}
Entries == Frame \cup {None, Shm}

LoopTypes == [kind : OwnLoops \cup ChildLoops \cup {"idle", "free"}, np : Proc \cup {None},
              i : Nat, end : 0 .. MaxSize, base : 0 .. MaxSize]

MemoryTypes ==
  /\ state \in [Proc -> States]
  /\ sz \in [Proc -> 0 .. MaxSize]
  /\ pte \in [Proc -> [Page -> Entries]]
  /\ family \in [Proc -> SUBSET Proc]
  /\ op \in [Proc -> LoopTypes]
  /\ references \in [Frame -> Int]

\* Only the page at SHM_VA is the shared one.
ShmInPlace ==
  \A p \in Proc, v \in Page :
    pte[p][v] # None => (pte[p][v] = Shm <=> v = SHM_VA)

\* Who works on which entry of the process table, and in which state it is.
Builds(p, n) == op[p].kind \in ChildLoops /\ op[p].np = n

Owners ==
  \A p \in Proc :
    /\ op[p].kind \in OwnLoops => op[p].np = p /\ state[p] = "running"
    /\ op[p].kind = "free" => op[p].np = p /\ state[p] \in {"used", "zombie"}
    /\ op[p].kind \in ChildLoops => op[p].np \in Proc /\ state[p] = "running"
    /\ \A n \in Proc : Builds(p, n) => state[n] = "used" /\ op[n].kind = "idle"
    /\ \A q, n \in Proc : Builds(p, n) /\ Builds(q, n) => p = q

\* A new child's table is empty where the loop has not been yet.
Fresh ==
  \A p \in Proc :
    /\ state[p] = "unused" => op[p].kind = "idle" /\ \A v \in Page : pte[p][v] = None
    /\ \A n \in Proc : Builds(p, n) =>
         /\ op[p].kind \in {"copy", "share"} => \A v \in Page : v >= op[p].i => pte[n][v] = None
         /\ op[p].kind = "addref" =>
              /\ op[p].i < op[p].end /\ pte[p][op[p].i] # None
              /\ pte[n][op[p].i] = pte[p][op[p].i]
              /\ \A v \in Page : v > op[p].i => pte[n][v] = None

\* The families are a partition, and an entry that is not in use is alone.
Families ==
  \A p \in Proc :
    /\ p \in family[p]
    /\ \A q \in family[p] : family[q] = family[p]
    /\ state[p] = "unused" => family[p] = {p}
    /\ \A n \in Proc : Builds(p, n) /\ op[p].kind \in {"share", "addref"} => n \in family[p]

\* A frame is mapped by one family and at one address.
OneFamily ==
  \A p, q \in Proc, v, w \in Page :
    pte[p][v] \in Frame /\ pte[q][w] = pte[p][v] => p \in family[q] /\ v = w

Structure == ShmInPlace /\ Owners /\ Fresh /\ Families

MemoryInv ==
  /\ MemoryTypes
  /\ FramesAccounted
  /\ ~panicked => Structure
  /\ OneFamily

-------------------------------------------------------------------------------
(***************************************************************************)
(* Lemmas: counting the mappings of a frame                                *)
(***************************************************************************)
LEMMA PageFacts ==
  /\ Page = 0 .. PAGES - 1 /\ SHM_VA \in Page /\ IsFiniteSet(Proc \X Page)
  /\ \A f \in Frame : f # None /\ f # Shm
  /\ None # Shm /\ Frame \subseteq Entries /\ None \in Entries /\ Shm \in Entries
<1>1. IsFiniteSet(Page)
  BY FS_Interval, MemoryAssumption DEF Page
<1> QED
  BY <1>1, FS_Product, MemoryAssumption DEF Page, SHM_VA, Entries

\* The page table entries that are counted are finitely many.
LEMMA CountsFinite ==
  ASSUME NEW f \in Frame
  PROVE  IsFiniteSet(Mappings(f)) /\ IsFiniteSet(Uncounted(f))
BY FS_Subset, PageFacts, MemoryAssumption DEF Mappings, Uncounted

Puts(q, v, x) == pte' = [pte EXCEPT ![q][v] = x]

\* What a change of one page table entry does to the mappings of a frame.
LEMMA MappingCounts ==
  ASSUME MemoryTypes, NEW q \in Proc, NEW v \in Page, NEW x \in Entries,
         Puts(q, v, x), NEW f \in Frame
  PROVE  /\ Cardinality(Mappings(f)) \in Nat
         /\ (f = x <=> pte[q][v] = f) => Cardinality(Mappings(f)') = Cardinality(Mappings(f))
         /\ f = x /\ pte[q][v] # f =>
              Cardinality(Mappings(f)') = Cardinality(Mappings(f)) + 1
         /\ f # x /\ pte[q][v] = f =>
              Cardinality(Mappings(f)') = Cardinality(Mappings(f)) - 1
<1>1. \A r \in Proc, w \in Page :
        pte'[r][w] = IF r = q /\ w = v THEN x ELSE pte[r][w]
  BY DEF MemoryTypes, Puts
<1>2. \A m \in Proc \X Page : \E r \in Proc, w \in Page : m = <<r, w>>
  OBVIOUS
<1>3. \A m \in Proc \X Page : m # <<q, v>> => (m \in Mappings(f)' <=> m \in Mappings(f))
  BY <1>1, <1>2 DEF Mappings
<1>4. /\ <<q, v>> \in Mappings(f)' <=> f = x
      /\ <<q, v>> \in Mappings(f) <=> pte[q][v] = f
  BY <1>1 DEF Mappings
<1>5. Mappings(f) \subseteq Proc \X Page /\ Mappings(f)' \subseteq Proc \X Page
  BY DEF Mappings
<1>6. PICK S, T, m : S = Mappings(f) /\ T = Mappings(f)' /\ m = <<q, v>>
  OBVIOUS
<1>7. IsFiniteSet(S) /\ Cardinality(S) \in Nat
  BY <1>6, CountsFinite, FS_CardinalityType
<1>8. CASE f = x <=> pte[q][v] = f
  <2>1. T = S
    BY <1>3, <1>4, <1>5, <1>6, <1>8
  <2> QED
    BY <1>6, <1>7, <1>8, <2>1
<1>9. CASE f = x /\ pte[q][v] # f
  <2>1. T = S \cup {m} /\ m \notin S
    BY <1>3, <1>4, <1>5, <1>6, <1>9
  <2>2. Cardinality(T) = Cardinality(S) + 1
    BY <1>7, <2>1, FS_AddElement
  <2> QED
    BY <1>6, <1>7, <1>9, <2>2
<1>10. CASE f # x /\ pte[q][v] = f
  <2>1. T = S \ {m} /\ m \in S
    BY <1>3, <1>4, <1>5, <1>6, <1>10
  <2>2. Cardinality(T) = Cardinality(S) - 1
    BY <1>7, <2>1, FS_RemoveElement
  <2> QED
    BY <1>6, <1>7, <1>10, <2>2
<1> QED
  BY <1>8, <1>9, <1>10

\* The references about to be counted are those of the sharing loops at work.
LEMMA UncountedKept ==
  ASSUME \A q \in Proc : /\ op'[q].kind = "addref" <=> op[q].kind = "addref"
                         /\ op[q].kind = "addref" =>
                              op'[q].i = op[q].i /\ pte'[q] = pte[q]
  PROVE  \A f \in Frame : Uncounted(f)' = Uncounted(f)
BY DEF Uncounted

\* No frame on the freelist is mapped: a mapping that is not counted yet is the
\* second one of its frame.
LEMMA FreeUnmapped ==
  ASSUME MemoryInv, ~panicked, NEW f \in Free
  PROVE  Mappings(f) = {}
<1> USE PageFacts
<1>1. /\ f \in Frame /\ references[f] = 0
      /\ MemoryTypes /\ FramesAccounted /\ Owners /\ Fresh
  BY DEF MemoryInv, Structure, Free
<1>2. /\ IsFiniteSet(Mappings(f)) /\ IsFiniteSet(Uncounted(f))
      /\ Cardinality(Mappings(f)) \in Nat /\ Cardinality(Uncounted(f)) \in Nat
      /\ Cardinality(Mappings(f)) = Cardinality(Uncounted(f))
  BY <1>1, CountsFinite, FS_CardinalityType DEF FramesAccounted
<1> DEFINE g == [p \in Uncounted(f) |-> <<p, op[p].i>>]
           twin(p) == <<op[p].np, op[p].i>>
<1>3. \A p \in Uncounted(f) :
        <<p, op[p].i>> \in Mappings(f) /\ twin(p) \in Mappings(f) /\ op[p].np \notin Uncounted(f)
  <2> SUFFICES ASSUME NEW p \in Uncounted(f)
               PROVE  <<p, op[p].i>> \in Mappings(f) /\ twin(p) \in Mappings(f) /\ op[p].np \notin Uncounted(f)
    OBVIOUS
  <2>1. /\ p \in Proc /\ op[p].kind = "addref" /\ pte[p][op[p].i] = f
        /\ op[p] \in LoopTypes
    BY <1>1 DEF Uncounted, MemoryTypes
  <2>2. op[p].np \in Proc /\ Builds(p, op[p].np)
    BY <1>1, <2>1 DEF Owners, Builds, ChildLoops
  <2>3. /\ op[op[p].np].kind = "idle" /\ op[p].i < op[p].end
        /\ pte[op[p].np][op[p].i] = f
    BY <1>1, <2>1, <2>2 DEF Owners, Fresh
  <2>4. op[p].i \in Page
    BY <2>1, <2>3, MemoryAssumption DEF LoopTypes
  <2> QED
    BY <2>1, <2>2, <2>3, <2>4 DEF Mappings, Uncounted
<1>4. CASE Uncounted(f) = {}
  BY <1>2, <1>4, FS_EmptySet
<1>5. CASE Uncounted(f) # {}
  <2>1. PICK p \in Uncounted(f) : TRUE
    BY <1>5
  <2>2. PICK t : t = twin(p)
    OBVIOUS
  <2>3. t \in Mappings(f) /\ t \notin {g[q] : q \in Uncounted(f)}
    BY <1>3, <2>1, <2>2
  <2>4. g \in Injection(Uncounted(f), Mappings(f) \ {t})
    BY <1>3, <2>3 DEF Injection, IsInjective
  <2>5. Cardinality(Uncounted(f)) <= Cardinality(Mappings(f) \ {t})
    BY <1>2, <2>4, FS_Injection, FS_RemoveElement
  <2>6. PICK S : S = Mappings(f)
    OBVIOUS
  <2>7. Cardinality(S \ {t}) = Cardinality(S) - 1
    BY <1>2, <2>3, <2>6, FS_RemoveElement
  <2> QED
    BY <1>2, <2>5, <2>6, <2>7
<1> QED
  BY <1>4, <1>5

-------------------------------------------------------------------------------
(***************************************************************************)
(* Lemmas: the accounts after a step                                       *)
(***************************************************************************)
Booked == FramesAccounted /\ OneFamily

\* Nothing of it concerns frames, but that mappings may have gone with no frame.
LEMMA BooksKept ==
  ASSUME MemoryInv, ~panicked, UNCHANGED references,
         \A q \in Proc : /\ op'[q].kind = "addref" <=> op[q].kind = "addref"
                         /\ op[q].kind = "addref" =>
                              op'[q].i = op[q].i /\ pte'[q] = pte[q],
         \A q \in Proc, v \in Page : \A f \in Frame : pte'[q][v] = f <=> pte[q][v] = f,
         \A q, r \in Proc : r \in family[q] =>
            r \in family'[q] \/ \A v \in Page : pte[q][v] \notin Frame \/ pte[r][v] \notin Frame
  PROVE  Booked'
<1>1. \A f \in Frame : Uncounted(f)' = Uncounted(f)
  BY UncountedKept
<1>2. \A f \in Frame : Mappings(f)' = Mappings(f)
  BY DEF Mappings
<1>3. FramesAccounted'
  BY <1>1, <1>2 DEF MemoryInv, FramesAccounted
<1>4. OneFamily'
  BY DEF MemoryInv, OneFamily
<1> QED
  BY <1>3, <1>4 DEF Booked

\* A frame of the freelist is mapped where nothing was.
LEMMA BooksAllocate ==
  ASSUME MemoryInv, ~panicked, NEW g \in Frame, Kalloc(g),
         NEW q \in Proc, NEW v \in Page, pte[q][v] = None, op[q].kind # "addref",
         pte' = [pte EXCEPT ![q][v] = g], UNCHANGED family,
         \A p \in Proc : /\ op'[p].kind = "addref" <=> op[p].kind = "addref"
                         /\ op[p].kind = "addref" => op'[p].i = op[p].i
  PROVE  Booked'
<1> USE PageFacts
<1>1. /\ MemoryTypes /\ FramesAccounted /\ OneFamily /\ Families
      /\ references \in [Frame -> Int] /\ g \in Free
  BY DEF MemoryInv, Structure, MemoryTypes, Kalloc
<1>2. \A r \in Proc, w \in Page :
        pte'[r][w] = IF r = q /\ w = v THEN g ELSE pte[r][w]
  BY <1>1 DEF MemoryTypes
<1>3. \A f \in Frame : Uncounted(f)' = Uncounted(f)
  <2>1. \A p \in Proc : p # q => pte'[p] = pte[p]
    BY <1>1 DEF MemoryTypes
  <2> QED
    BY <2>1, UncountedKept
<1>4. Puts(q, v, g)
  BY DEF Puts
<1>5. ASSUME NEW f \in Frame
      PROVE  references'[f] = Cardinality(Mappings(f)') - Cardinality(Uncounted(f)')
  <2>1. /\ Cardinality(Mappings(f)) \in Nat
        /\ f # g => Cardinality(Mappings(f)') = Cardinality(Mappings(f))
        /\ f = g => Cardinality(Mappings(f)') = Cardinality(Mappings(f)) + 1
    BY <1>1, <1>4, MappingCounts
  <2>2. Cardinality(Uncounted(f)) \in Nat
    BY CountsFinite, FS_CardinalityType
  <2>3. references'[f] = IF f = g THEN references[f] + 1 ELSE references[f]
    BY <1>1 DEF Kalloc, Free
  <2>4. references[f] = Cardinality(Mappings(f)) - Cardinality(Uncounted(f))
    BY <1>1 DEF FramesAccounted
  <2> QED
    BY <1>3, <2>1, <2>2, <2>3, <2>4
<1>6. FramesAccounted'
  BY <1>5 DEF FramesAccounted
<1>7. \A r \in Proc, w \in Page : pte[r][w] # g
  <2>1. Mappings(g) = {}
    BY <1>1, FreeUnmapped
  <2>2. \A r \in Proc, w \in Page : pte[r][w] = g => <<r, w>> \in Mappings(g)
    BY DEF Mappings
  <2> QED
    BY <2>1, <2>2
<1>8. OneFamily'
  BY <1>1, <1>2, <1>7 DEF OneFamily, Families
<1> QED
  BY <1>6, <1>8 DEF Booked

\* A mapping goes and its reference with it.
LEMMA BooksRelease ==
  ASSUME MemoryInv, ~panicked, NEW q \in Proc, NEW v \in Page, op[q].kind # "addref",
         pte[q][v] \in Frame, references' = Kfree(pte[q][v]),
         pte' = [pte EXCEPT ![q][v] = None], UNCHANGED family,
         \A p \in Proc : /\ op'[p].kind = "addref" <=> op[p].kind = "addref"
                         /\ op[p].kind = "addref" => op'[p].i = op[p].i
  PROVE  Booked'
<1> USE PageFacts
<1>1. /\ MemoryTypes /\ FramesAccounted /\ OneFamily
      /\ references \in [Frame -> Int]
  BY DEF MemoryInv, MemoryTypes
<1>2. \A r \in Proc, w \in Page :
        pte'[r][w] = IF r = q /\ w = v THEN None ELSE pte[r][w]
  BY <1>1 DEF MemoryTypes
<1>3. \A f \in Frame : Uncounted(f)' = Uncounted(f)
  <2>1. \A p \in Proc : p # q => pte'[p] = pte[p]
    BY <1>1 DEF MemoryTypes
  <2> QED
    BY <2>1, UncountedKept
<1>4. Puts(q, v, None)
  BY DEF Puts
<1>5. ASSUME NEW f \in Frame
      PROVE  references'[f] = Cardinality(Mappings(f)') - Cardinality(Uncounted(f)')
  <2>1. /\ Cardinality(Mappings(f)) \in Nat
        /\ f # pte[q][v] => Cardinality(Mappings(f)') = Cardinality(Mappings(f))
        /\ f = pte[q][v] => Cardinality(Mappings(f)') = Cardinality(Mappings(f)) - 1
    BY <1>1, <1>4, MappingCounts
  <2>2. Cardinality(Uncounted(f)) \in Nat
    BY CountsFinite, FS_CardinalityType
  <2>3. references'[f] = IF f = pte[q][v] THEN references[f] - 1 ELSE references[f]
    BY <1>1 DEF Kfree
  <2>4. references[f] = Cardinality(Mappings(f)) - Cardinality(Uncounted(f))
    BY <1>1 DEF FramesAccounted
  <2> QED
    BY <1>3, <2>1, <2>2, <2>3, <2>4
<1>6. FramesAccounted'
  BY <1>5 DEF FramesAccounted
<1>7. OneFamily'
  BY <1>1, <1>2 DEF OneFamily
<1> QED
  BY <1>6, <1>7 DEF Booked

-------------------------------------------------------------------------------
(***************************************************************************)
(* Lemmas: who works on which table after a step                           *)
(***************************************************************************)

\* What a step may put into a page table.
Placed ==
  \A q \in Proc, v \in Page :
    \/ pte'[q][v] = pte[q][v] \/ pte'[q][v] = None
    \/ pte'[q][v] \in Frame /\ v # SHM_VA
    \/ pte'[q][v] = Shm /\ v = SHM_VA

\* A step that puts SHM only at SHM_VA keeps it there.
LEMMA ShmStays == ShmInPlace /\ Placed => ShmInPlace'
BY PageFacts DEF ShmInPlace, Placed

TypesNext ==
  /\ sz' \in [Proc -> 0 .. MaxSize] /\ pte' \in [Proc -> [Page -> Entries]]
  /\ op' \in [Proc -> LoopTypes] /\ references' \in [Frame -> Int]

\* A running process calls sbrk or shm_get, faults, or goes on with its own loop.
LEMMA OwnStep ==
  ASSUME MemoryTypes, Structure, NEW p \in Proc, state[p] = "running",
         op[p].kind \in OwnLoops \cup {"idle"}, op'[p].kind \in OwnLoops \cup {"idle"},
         op'[p].kind \in OwnLoops => op'[p].np = p,
         \A q \in Proc \ {p} : op'[q] = op[q] /\ pte'[q] = pte[q],
         TypesNext, Placed, UNCHANGED <<state, family>>
  PROVE  MemoryTypes' /\ Structure'
<1> USE DEF TypesNext, Structure
<1>1. MemoryTypes'
  BY DEF MemoryTypes
<1>2. \A q, n \in Proc : /\ Builds(q, n)' <=> Builds(q, n)
                         /\ Builds(q, n) => q # p /\ n # p
  BY DEF Builds, OwnLoops, ChildLoops, Owners
<1>3. Owners'
  BY SMTT(30), <1>2 DEF Owners, OwnLoops, ChildLoops
<1>4. Fresh'
  BY <1>2, SMTT(40) DEF Fresh
<1>5. Families'
  BY <1>2 DEF Families
<1> QED
  BY <1>1, <1>3, <1>4, <1>5, ShmStays

\* A loop that frees the table of its own entry goes on.
LEMMA FreeStep ==
  ASSUME MemoryTypes, Structure, NEW p \in Proc,
         op[p].kind = "free", op'[p].kind = "free", op'[p].np = op[p].np,
         \A q \in Proc \ {p} : op'[q] = op[q] /\ pte'[q] = pte[q],
         TypesNext, Placed, UNCHANGED <<state, family>>
  PROVE  MemoryTypes' /\ Structure'
<1> USE DEF TypesNext, Structure
<1>1. MemoryTypes'
  BY DEF MemoryTypes
<1>2. \A q, n \in Proc : /\ Builds(q, n)' <=> Builds(q, n)
                         /\ Builds(q, n) => q # p /\ n # p
  BY DEF Builds, ChildLoops, Owners
<1>3. Owners'
  BY SMTT(30), <1>2 DEF Owners, OwnLoops, ChildLoops
<1>4. Fresh'
  <2>1. state[p] # "unused"
    BY DEF Owners
  <2> QED
    BY SMTT(30), <1>2, <2>1 DEF Fresh
<1>5. Families'
  BY <1>2 DEF Families
<1> QED
  BY <1>1, <1>3, <1>4, <1>5, ShmStays

\* A loop that builds the table of the child n, or takes it down again, goes on.
LEMMA ChildStep ==
  ASSUME MemoryTypes, Structure, NEW p \in Proc, NEW n \in Proc,
         Builds(p, n), Builds(p, n)',
         op'[p].kind \in {"share", "addref"} => op[p].kind \in {"share", "addref"},
         op'[p].kind \in {"copy", "share"} =>
           \A v \in Page : v >= op'[p].i => pte'[n][v] = None,
         op'[p].kind = "addref" =>
           /\ op'[p].i < op'[p].end /\ pte'[p][op'[p].i] # None
           /\ pte'[n][op'[p].i] = pte'[p][op'[p].i]
           /\ \A v \in Page : v > op'[p].i => pte'[n][v] = None,
         \A q \in Proc \ {p} : op'[q] = op[q],
         \A q \in Proc \ {n} : pte'[q] = pte[q],
         TypesNext, Placed, UNCHANGED <<state, family>>
  PROVE  MemoryTypes' /\ Structure'
<1> USE DEF TypesNext, Structure
<1>1. MemoryTypes'
  BY DEF MemoryTypes
<1>2. /\ state[p] = "running" /\ state[n] = "used" /\ n # p
      /\ \A q \in Proc : Builds(q, n) => q = p
      /\ \A m \in Proc : Builds(p, m) => m = n
      /\ \A m \in Proc : Builds(p, m)' => m = n
      /\ \A q \in Proc, m \in Proc : q # p => (Builds(q, m)' <=> Builds(q, m))
      /\ \A q \in Proc : Builds(q, p) => FALSE
  BY DEF Builds, ChildLoops, Owners
<1>3. Owners'
  <2>1. op[n].kind = "idle" /\ op[p].kind \in ChildLoops /\ op'[p].kind \in ChildLoops
    BY DEF Builds, Owners
  <2> QED
    <3> SUFFICES ASSUME NEW r \in Proc
                 PROVE  /\ op'[r].kind \in OwnLoops => op'[r].np = r /\ state[r] = "running"
                        /\ op'[r].kind = "free" => op'[r].np = r /\ state[r] \in {"used", "zombie"}
                        /\ op'[r].kind \in ChildLoops => op'[r].np \in Proc /\ state[r] = "running"
                        /\ \A m \in Proc : Builds(r, m)' => state[m] = "used" /\ op'[m].kind = "idle"
                        /\ \A q, m \in Proc : Builds(r, m)' /\ Builds(q, m)' => r = q
      BY DEF Owners
    <3>1. \A m \in Proc : Builds(r, m)' => Builds(r, m) /\ m # p
      BY <1>2
    <3>2. CASE r = p
      <4>1. op'[p].np \in Proc
        BY DEF Builds
      <4> QED
        BY <1>2, <2>1, <3>2, <4>1 DEF Owners, OwnLoops, ChildLoops
    <3>3. CASE r # p
      BY <1>2, <3>1, <3>3 DEF Owners
    <3> QED
      BY <3>2, <3>3
<1>4. Fresh'
  <2> SUFFICES ASSUME NEW r \in Proc
               PROVE  /\ state[r] = "unused" =>
                           op'[r].kind = "idle" /\ \A v \in Page : pte'[r][v] = None
                      /\ \A m \in Proc : Builds(r, m)' =>
                           /\ op'[r].kind \in {"copy", "share"} =>
                                \A v \in Page : v >= op'[r].i => pte'[m][v] = None
                           /\ op'[r].kind = "addref" =>
                                /\ op'[r].i < op'[r].end /\ pte'[r][op'[r].i] # None
                                /\ pte'[m][op'[r].i] = pte'[r][op'[r].i]
                                /\ \A v \in Page : v > op'[r].i => pte'[m][v] = None
    BY DEF Fresh
  <2>1. CASE r = p
    BY <1>2, <2>1
  <2>2. CASE r # p
    <3>1. \A m \in Proc : Builds(r, m) => m # n /\ r # n
      BY <1>2, <2>2 DEF Owners, Builds, ChildLoops
    <3> QED
      BY <1>2, <2>2, <3>1 DEF Fresh
  <2> QED
    BY <2>1, <2>2
<1>5. Families'
  BY <1>2 DEF Families
<1> QED
  BY <1>1, <1>3, <1>4, <1>5, ShmStays

-------------------------------------------------------------------------------
(***************************************************************************)
(* The steps                                                               *)
(***************************************************************************)
LEMMA LoopPage ==
  ASSUME HeapsBelowShm, MemoryTypes, NEW p \in Proc, More(p)
  PROVE  op[p].i \in Page /\ op[p].i # SHM_VA
<1>1. op[p].i \in Nat /\ op[p].end \in 0 .. MaxSize
  BY DEF MemoryTypes, LoopTypes
<1> QED
  BY <1>1, PageFacts, MemoryAssumption DEF More, HeapsBelowShm, SHM_VA

\* What the next page of a loop changes.
LEMMA NextPageFacts ==
  ASSUME MemoryTypes, NEW p \in Proc, NextPage(p)
  PROVE  /\ op' \in [Proc -> LoopTypes] /\ \A q \in Proc \ {p} : op'[q] = op[q]
         /\ op'[p].kind = op[p].kind /\ op'[p].np = op[p].np
         /\ op'[p].i = op[p].i + 1 /\ op[p].i \in Nat
<1>1. op[p] \in LoopTypes
  BY DEF MemoryTypes
<1>2. op' = [op EXCEPT ![p] = [op[p] EXCEPT !.i = op[p].i + 1]]
  BY DEF NextPage
<1>3. [op[p] EXCEPT !.i = op[p].i + 1] \in LoopTypes
  BY <1>1 DEF LoopTypes
<1> QED
  BY <1>1, <1>2, <1>3 DEF MemoryTypes, LoopTypes

\* What another loop, or none, changes.
LEMMA SetFacts ==
  ASSUME MemoryTypes, NEW p \in Proc
  PROVE  /\ Idle \in LoopTypes /\ Idle.kind = "idle"
         /\ \A o \in LoopTypes : Set(p, o) =>
              /\ op' \in [Proc -> LoopTypes] /\ op'[p] = o
              /\ \A q \in Proc \ {p} : op'[q] = op[q]
BY MemoryAssumption DEF MemoryTypes, LoopTypes, Set, Idle, Loop

\* The loops that a process runs over its own pages.
LEMMA OwnLoopFacts ==
  ASSUME NEW p \in Proc, NEW kind \in OwnLoops \cup {"free"}, NEW i \in 0 .. MaxSize,
         NEW end \in 0 .. MaxSize, NEW base \in 0 .. MaxSize
  PROVE  /\ Loop(kind, p, i, end, base) \in LoopTypes
         /\ Loop(kind, p, i, end, base).kind = kind /\ Loop(kind, p, i, end, base).np = p
BY DEF Loop, LoopTypes

\* A panic stops everything.
LEMMA PanicStep == MemoryInv /\ Panic => MemoryInv'
BY DEF MemoryInv, Panic, MemoryTypes, FramesAccounted, OneFamily

\* A step of a running process that touches no frame.
LEMMA SizeStep ==
  ASSUME MemoryInv, ~panicked, ~panicked', NEW p \in Proc, state[p] = "running",
         op[p].kind \in OwnLoops \cup {"idle"}, op'[p].kind \in OwnLoops \cup {"idle"},
         op'[p].kind \in OwnLoops => op'[p].np = p,
         op' \in [Proc -> LoopTypes], \A q \in Proc \ {p} : op'[q] = op[q],
         sz' \in [Proc -> 0 .. MaxSize], UNCHANGED <<state, pte, family, references>>
  PROVE  MemoryInv'
<1>1. MemoryTypes /\ Structure
  BY DEF MemoryInv
<1>2. TypesNext /\ Placed
  BY <1>1 DEF TypesNext, Placed, MemoryTypes
<1>3. MemoryTypes' /\ Structure'
  BY <1>1, <1>2, OwnStep
<1>4. Booked'
  BY <1>1, BooksKept DEF OwnLoops
<1> QED
  BY <1>3, <1>4 DEF MemoryInv, Booked

\* sbrk(), eager, lazy or shrinking, changes a size and begins a loop.
LEMMA SbrkStep ==
  ASSUME MemoryInv, NEW p \in Proc, NEW k \in 1 .. MaxSize,
         SbrkLazy(p, k) \/ SbrkGrow(p, k) \/ SbrkShrink(p, k)
  PROVE  MemoryInv'
<1>1. /\ MemoryTypes /\ ~panicked /\ ~panicked'
      /\ state[p] = "running" /\ op[p].kind = "idle" /\ sz[p] \in 0 .. MaxSize
  BY DEF MemoryInv, MemoryTypes, SbrkLazy, SbrkGrow, SbrkShrink, MayCall, Running, In
<1>2. MaxSize \in Nat
  BY MemoryAssumption
<1>3. CASE SbrkLazy(p, k)
  <2>1. sz' \in [Proc -> 0 .. MaxSize] /\ UNCHANGED <<state, pte, family, op, references>>
    BY <1>1, <1>2, <1>3 DEF SbrkLazy, MemoryTypes
  <2> QED
    <3>1. /\ op' \in [Proc -> LoopTypes] /\ op'[p].kind = "idle" /\ "idle" \notin OwnLoops
          /\ \A q \in Proc \ {p} : op'[q] = op[q]
          /\ UNCHANGED <<state, pte, family, references>>
      BY <1>1, <2>1 DEF MemoryTypes, OwnLoops
    <3> QED
      BY <1>1, <2>1, <3>1, SizeStep
<1>4. CASE SbrkGrow(p, k)
  <2>1. PICK o : o = Loop("grow", p, sz[p], sz[p] + k, sz[p])
    OBVIOUS
  <2>2. o \in LoopTypes /\ o.kind = "grow" /\ o.np = p
    BY <1>1, <1>2, <1>4, <2>1, OwnLoopFacts DEF SbrkGrow, OwnLoops
  <2>3. /\ op' \in [Proc -> LoopTypes] /\ op'[p] = o /\ \A q \in Proc \ {p} : op'[q] = op[q]
        /\ UNCHANGED <<state, sz, pte, family, references>>
    BY <1>1, <1>4, <2>1, <2>2, SetFacts DEF SbrkGrow
  <2> QED
    BY <1>1, <2>2, <2>3, SizeStep DEF MemoryTypes, OwnLoops
<1>5. CASE SbrkShrink(p, k)
  <2>1. PICK o : o = Loop("shrink", p, sz[p] - k, sz[p], sz[p] - k)
    OBVIOUS
  <2>2. o \in LoopTypes /\ o.kind = "shrink" /\ o.np = p
    <3>1. sz[p] - k \in 0 .. MaxSize
      BY <1>1, <1>2, <1>5 DEF SbrkShrink
    <3> QED
      BY <1>1, <2>1, <3>1, OwnLoopFacts DEF OwnLoops
  <2>3. /\ op' \in [Proc -> LoopTypes] /\ op'[p] = o /\ \A q \in Proc \ {p} : op'[q] = op[q]
        /\ UNCHANGED <<state, sz, pte, family, references>>
    BY <1>1, <1>5, <2>1, <2>2, SetFacts DEF SbrkShrink
  <2> QED
    BY <1>1, <2>2, <2>3, SizeStep DEF MemoryTypes, OwnLoops
<1> QED
  BY <1>3, <1>4, <1>5

\* The loops of sbrk() end.
LEMMA OwnLoopEnds ==
  ASSUME MemoryInv, NEW p \in Proc, GrowDone(p) \/ GrowFails(p) \/ ShrinkDone(p)
  PROVE  MemoryInv'
<1>1. /\ MemoryTypes /\ ~panicked /\ ~panicked' /\ op[p].kind \in OwnLoops
      /\ op[p] \in LoopTypes /\ op[p].i \in Nat
      /\ op[p].end \in 0 .. MaxSize /\ op[p].base \in 0 .. MaxSize
  BY DEF MemoryInv, MemoryTypes, LoopTypes, OwnLoops, GrowDone, GrowFails, ShrinkDone, In
<1>2. state[p] = "running" /\ MaxSize \in Nat
  BY <1>1, MemoryAssumption DEF MemoryInv, Structure, Owners
<1>3. CASE GrowDone(p) \/ ShrinkDone(p)
  <2>1. sz' \in [Proc -> 0 .. MaxSize] /\ UNCHANGED <<state, pte, family, references>>
    BY <1>1, <1>3 DEF GrowDone, ShrinkDone, MemoryTypes
  <2>2. /\ op' \in [Proc -> LoopTypes] /\ op'[p].kind = "idle"
        /\ \A q \in Proc \ {p} : op'[q] = op[q]
    BY <1>1, <1>3, SetFacts DEF GrowDone, ShrinkDone
  <2> QED
    BY <1>1, <1>2, <2>1, <2>2, SizeStep DEF OwnLoops
<1>4. CASE GrowFails(p)
  <2>1. PICK o : o = Loop("shrink", p, op[p].base, op[p].i, op[p].base)
    OBVIOUS
  <2>2. o \in LoopTypes /\ o.kind = "shrink" /\ o.np = p
    <3>1. op[p].i \in 0 .. MaxSize
      BY <1>1, <1>2, <1>4 DEF GrowFails, More
    <3> QED
      BY <1>1, <2>1, <3>1, OwnLoopFacts DEF OwnLoops
  <2>3. /\ op' \in [Proc -> LoopTypes] /\ op'[p] = o /\ \A q \in Proc \ {p} : op'[q] = op[q]
        /\ UNCHANGED <<state, sz, pte, family, references>>
    BY <1>1, <1>4, <2>1, <2>2, SetFacts DEF GrowFails
  <2> QED
    BY <1>1, <1>2, <2>2, <2>3, SizeStep DEF MemoryTypes, OwnLoops
<1> QED
  BY <1>3, <1>4

\* The page at v of q's table changes to x.
LEMMA PutFacts ==
  ASSUME MemoryTypes, NEW q \in Proc, NEW v \in Page, NEW x \in Entries,
         pte' = [pte EXCEPT ![q][v] = x]
  PROVE  /\ pte' \in [Proc -> [Page -> Entries]]
         /\ \A r \in Proc \ {q} : pte'[r] = pte[r]
         /\ pte'[q][v] = x /\ \A w \in Page \ {v} : pte'[q][w] = pte[q][w]
BY DEF MemoryTypes

\* kalloc() sets the count of the frame.
LEMMA KallocFacts ==
  ASSUME MemoryTypes, NEW g \in Frame, Kalloc(g)
  PROVE  references' \in [Frame -> Int]
BY DEF MemoryTypes, Kalloc

\* A step that maps a frame in the table of the process that runs.
LEMMA OwnPageStep ==
  ASSUME MemoryInv, ~panicked, ~panicked', NEW p \in Proc, state[p] = "running",
         op[p].kind \in {"idle", "grow"}, op'[p].kind = op[p].kind, op'[p].np = op[p].np,
         op' \in [Proc -> LoopTypes], \A q \in Proc \ {p} : op'[q] = op[q],
         NEW v \in Page, v # SHM_VA, pte[p][v] = None, NEW g \in Frame, Kalloc(g),
         pte' = [pte EXCEPT ![p][v] = g], UNCHANGED <<state, sz, family>>
  PROVE  MemoryInv'
<1>1. MemoryTypes /\ Structure
  BY DEF MemoryInv
<1>2. g \in Entries
  BY PageFacts
<1>3. /\ pte' \in [Proc -> [Page -> Entries]] /\ \A q \in Proc \ {p} : pte'[q] = pte[q]
      /\ pte'[p][v] = g /\ \A w \in Page \ {v} : pte'[p][w] = pte[p][w]
  <2>1. pte' = [pte EXCEPT ![p][v] = g]
    OBVIOUS
  <2> QED
    BY ONLY <1>1, <1>2, <2>1, p \in Proc, v \in Page, PutFacts
<1>4. TypesNext /\ Placed
  BY <1>1, <1>3, KallocFacts DEF TypesNext, Placed, MemoryTypes
<1>5. op[p].kind \in OwnLoops => op[p].np = p
  BY <1>1 DEF Structure, Owners
<1>6. MemoryTypes' /\ Structure'
  BY <1>1, <1>3, <1>4, <1>5, OwnStep DEF OwnLoops
<1>7. Booked'
  BY BooksAllocate
<1> QED
  BY <1>6, <1>7 DEF MemoryInv, Booked

\* uvmalloc() maps one page more.
LEMMA GrowPageStep ==
  ASSUME HeapsBelowShm, MemoryInv, NEW p \in Proc, GrowPage(p)
  PROVE  MemoryInv'
<1>1. /\ MemoryTypes /\ ~panicked /\ op[p].kind = "grow" /\ More(p)
      /\ state[p] = "running"
  BY DEF MemoryInv, Structure, Owners, OwnLoops, GrowPage, In
<1>2. CASE pte[p][op[p].i] # None
  BY <1>2, PanicStep DEF GrowPage
<1>3. CASE pte[p][op[p].i] = None
  <2>1. PICK v : v = op[p].i
    OBVIOUS
  <2>2. PICK g \in Frame : Kalloc(g) /\ pte' = [pte EXCEPT ![p][v] = g]
    BY <1>3, <2>1 DEF GrowPage
  <2>3. NextPage(p) /\ UNCHANGED <<state, sz, family, panicked>>
    BY <1>3 DEF GrowPage
  <2>4. v \in Page /\ v # SHM_VA /\ pte[p][v] = None
    BY <1>1, <1>3, <2>1, LoopPage
  <2> QED
    BY <1>1, <2>2, <2>3, <2>4, NextPageFacts, OwnPageStep
<1> QED
  BY <1>2, <1>3

\* vmfault() maps the page that was touched.
LEMMA FaultStep ==
  ASSUME HeapsBelowShm, MemoryInv, NEW p \in Proc, NEW v \in Page, Fault(p, v)
  PROVE  MemoryInv'
<1>1. /\ MemoryTypes /\ ~panicked /\ ~panicked' /\ op[p].kind = "idle"
      /\ state[p] = "running" /\ pte[p][v] = None /\ UNCHANGED <<state, sz, family, op>>
  BY DEF MemoryInv, Fault, MayCall, Running, In
<1>2. PICK g \in Frame : Kalloc(g) /\ pte' = [pte EXCEPT ![p][v] = g]
  BY DEF Fault
<1>3. v # SHM_VA
  <2>1. v < sz[p] /\ sz[p] \in 0 .. MaxSize
    BY <1>1 DEF Fault, MemoryTypes
  <2> QED
    BY <2>1, PageFacts, MemoryAssumption DEF HeapsBelowShm, SHM_VA
<1>4. op' \in [Proc -> LoopTypes]
  BY <1>1 DEF MemoryTypes
<1> QED
  BY <1>1, <1>2, <1>3, <1>4, OwnPageStep

\* The shared page is mapped, without a count.
LEMMA ShmGetStep ==
  ASSUME MemoryInv, NEW p \in Proc, ShmGet(p)
  PROVE  MemoryInv'
<1>1. /\ MemoryTypes /\ Structure /\ ~panicked /\ ~panicked' /\ op[p].kind = "idle"
      /\ state[p] = "running" /\ pte[p][SHM_VA] = None
      /\ pte' = [pte EXCEPT ![p][SHM_VA] = Shm]
      /\ UNCHANGED <<state, sz, family, op, references>>
  BY DEF MemoryInv, ShmGet, MayCall, Running, In
<1>2. /\ pte' \in [Proc -> [Page -> Entries]] /\ \A q \in Proc \ {p} : pte'[q] = pte[q]
      /\ pte'[p][SHM_VA] = Shm /\ \A w \in Page \ {SHM_VA} : pte'[p][w] = pte[p][w]
  <2>1. SHM_VA \in Page /\ Shm \in Entries
    BY PageFacts
  <2> QED
    BY <1>1, <2>1, PutFacts
<1>3. TypesNext /\ Placed
  BY <1>1, <1>2 DEF TypesNext, Placed, MemoryTypes
<1>4. MemoryTypes' /\ Structure'
  BY <1>1, <1>2, <1>3, OwnStep DEF OwnLoops
<1>5. \A q \in Proc, w \in Page : \A f \in Frame : pte'[q][w] = f <=> pte[q][w] = f
  BY <1>1, <1>2, PageFacts
<1>6. Booked'
  BY <1>1, <1>5, BooksKept
<1> QED
  BY <1>1, <1>4, <1>6 DEF MemoryInv, Booked

\* A loop that unmaps goes on to the next page, the table being q's.
LEMMA UnmapOn ==
  ASSUME MemoryInv, ~panicked, NEW p \in Proc, op[p].kind \in Unmapping,
         NEW q \in Proc, q = op[p].np, NextPage(p), TypesNext, Placed,
         \A r \in Proc \ {q} : pte'[r] = pte[r], UNCHANGED <<state, sz, family>>
  PROVE  MemoryTypes' /\ Structure'
<1>1. /\ MemoryTypes /\ Structure
      /\ \A r \in Proc \ {p} : op'[r] = op[r]
      /\ op'[p].kind = op[p].kind /\ op'[p].np = op[p].np
  BY NextPageFacts DEF MemoryInv
<1>2. CASE op[p].kind = "shrink"
  <2>1. q = p /\ state[p] = "running"
    BY <1>1, <1>2 DEF Structure, Owners, OwnLoops
  <2> QED
    BY <1>1, <1>2, <2>1, OwnStep DEF OwnLoops
<1>3. CASE op[p].kind = "free"
  <2>1. q = p
    BY <1>1, <1>3 DEF Structure, Owners
  <2> QED
    BY <1>1, <1>3, <2>1, FreeStep
<1>4. CASE op[p].kind = "undo"
  <2>1. Builds(p, q) /\ Builds(p, q)'
    BY <1>1, <1>4 DEF Builds, ChildLoops
  <2> QED
    BY <1>1, <1>4, <2>1, ChildStep
<1> QED
  BY <1>2, <1>3, <1>4 DEF Unmapping

\* uvmunmap() drops a page with its frame's reference.
LEMMA UnmapPageStep ==
  ASSUME HeapsBelowShm, MemoryInv, NEW p \in Proc, UnmapPage(p)
  PROVE  MemoryInv'
<1>1. /\ MemoryTypes /\ Structure /\ ~panicked /\ ~panicked' /\ op[p].kind \in Unmapping
      /\ More(p) /\ NextPage(p) /\ UNCHANGED <<state, sz, family>>
  BY DEF MemoryInv, UnmapPage
<1>2. op[p].np \in Proc
  BY <1>1 DEF Structure, Owners, Unmapping, OwnLoops, ChildLoops
<1>3. PICK q \in Proc, v \in Page : q = op[p].np /\ v = op[p].i
  BY <1>1, <1>2, LoopPage
<1>4. v # SHM_VA
  BY <1>1, <1>3, LoopPage
<1>5. /\ pte[q][v] # None /\ pte' = [pte EXCEPT ![q][v] = None]
      /\ references' = Released(pte[q][v])
  BY <1>3 DEF UnmapPage, Unmapped
<1>6. pte[q][v] \in Frame
  <2>1. pte[q][v] \in Entries /\ pte[q][v] # Shm
    BY <1>1, <1>4, <1>5 DEF MemoryTypes, Structure, ShmInPlace
  <2> QED
    BY <1>5, <2>1 DEF Entries
<1>7. references' = Kfree(pte[q][v]) /\ references' \in [Frame -> Int]
  <2>1. references \in [Frame -> Int]
    BY <1>1 DEF MemoryTypes
  <2> QED
    BY <1>5, <1>6, <2>1, PageFacts DEF Released, Kfree
<1>8. /\ pte' \in [Proc -> [Page -> Entries]] /\ \A r \in Proc \ {q} : pte'[r] = pte[r]
      /\ pte'[q][v] = None /\ \A w \in Page \ {v} : pte'[q][w] = pte[q][w]
  <2>1. MemoryTypes /\ None \in Entries
    BY <1>1, PageFacts
  <2>2. pte' = [pte EXCEPT ![q][v] = None]
    BY <1>5
  <2> QED
    BY ONLY <2>1, <2>2, q \in Proc, v \in Page, PutFacts
<1>9. /\ op' \in [Proc -> LoopTypes] /\ \A r \in Proc \ {p} : op'[r] = op[r]
      /\ op'[p].kind = op[p].kind
  BY <1>1, NextPageFacts
<1>10. TypesNext /\ Placed
  BY <1>1, <1>7, <1>8, <1>9 DEF TypesNext, Placed, MemoryTypes
<1>11. MemoryTypes' /\ Structure'
  BY <1>1, <1>3, <1>8, <1>10, UnmapOn
<1>12. op[p].kind # "addref" /\ op[q].kind # "addref"
  BY <1>1, <1>3 DEF Structure, Owners, Unmapping, Builds, OwnLoops, ChildLoops
<1>13. Booked'
  BY <1>1, <1>5, <1>6, <1>7, <1>9, <1>12, BooksRelease
<1> QED
  BY <1>1, <1>11, <1>13 DEF MemoryInv, Booked

\* uvmunmap() goes over a page that is not mapped.
LEMMA UnmapHoleStep ==
  ASSUME MemoryInv, NEW p \in Proc, UnmapHole(p)
  PROVE  MemoryInv'
<1>1. /\ MemoryTypes /\ Structure /\ ~panicked /\ op[p].kind \in Unmapping
  BY DEF MemoryInv, UnmapHole
<1>2. CASE Panic
  BY <1>2, PanicStep
<1>3. CASE NextPage(p) /\ UNCHANGED <<state, sz, pte, family, references, panicked>>
  <2>1. PICK q \in Proc : q = op[p].np
    BY <1>1 DEF Structure, Owners, Unmapping, OwnLoops, ChildLoops
  <2>2. /\ op' \in [Proc -> LoopTypes] /\ \A r \in Proc \ {p} : op'[r] = op[r]
        /\ op'[p].kind = op[p].kind
    BY <1>1, <1>3, NextPageFacts
  <2>3. TypesNext /\ Placed
    BY <1>1, <1>3, <2>2 DEF TypesNext, Placed, MemoryTypes
  <2>4. MemoryTypes' /\ Structure'
    BY <1>1, <1>3, <2>1, <2>3, UnmapOn
  <2>5. Booked'
    BY <1>1, <1>3, <2>2, BooksKept DEF Unmapping
  <2> QED
    BY <1>1, <1>3, <2>4, <2>5 DEF MemoryInv, Booked
<1> QED
  BY <1>2, <1>3 DEF UnmapHole

\* What is known of a loop that copies or shares the pages of p.
LEMMA ChildFacts ==
  ASSUME MemoryInv, ~panicked, NEW p \in Proc, op[p].kind \in ChildLoops
  PROVE  /\ MemoryTypes /\ Structure
         /\ \E n \in Proc : /\ n = op[p].np /\ Builds(p, n) /\ n # p
                            /\ state[n] = "used" /\ op[n].kind = "idle"
         /\ state[p] = "running" /\ op[p].i \in Nat /\ op[p].end \in 0 .. MaxSize
         /\ op[p] \in LoopTypes
<1>1. op[p].np \in Proc /\ state[p] = "running" /\ Builds(p, op[p].np)
  BY DEF MemoryInv, Structure, Owners, Builds
<1>2. state[op[p].np] = "used" /\ op[op[p].np].kind = "idle"
  BY <1>1 DEF MemoryInv, Structure, Owners
<1> QED
  BY <1>1, <1>2 DEF MemoryInv, MemoryTypes, LoopTypes

\* The copy for a child goes over a page that is not mapped.
LEMMA SkipHoleStep ==
  ASSUME MemoryInv, NEW p \in Proc, SkipHole(p)
  PROVE  MemoryInv'
<1>1. /\ ~panicked /\ ~panicked' /\ op[p].kind \in {"copy", "share"} /\ NextPage(p)
      /\ UNCHANGED <<state, sz, pte, family, references>>
  BY DEF SkipHole
<1>2. PICK n \in Proc : n = op[p].np /\ Builds(p, n)
  BY <1>1, ChildFacts DEF ChildLoops
<1>3. MemoryTypes /\ Structure /\ op[p].i \in Nat
  BY <1>1, ChildFacts DEF ChildLoops
<1>4. /\ op' \in [Proc -> LoopTypes] /\ \A r \in Proc \ {p} : op'[r] = op[r]
      /\ op'[p].kind = op[p].kind /\ op'[p].np = n /\ op'[p].i = op[p].i + 1
  BY <1>1, <1>2, <1>3, NextPageFacts
<1>5. \A v \in Page : v >= op'[p].i => pte[n][v] = None
  BY <1>1, <1>2, <1>3, <1>4, PageFacts DEF Structure, Fresh
<1>6. TypesNext /\ Placed
  BY <1>1, <1>3, <1>4 DEF TypesNext, Placed, MemoryTypes
<1>7. Builds(p, n)'
  BY <1>2, <1>4 DEF Builds
<1>8. MemoryTypes' /\ Structure'
  BY <1>1, <1>2, <1>3, <1>4, <1>5, <1>6, <1>7, ChildStep
<1>9. Booked'
  BY <1>1, <1>4, BooksKept
<1> QED
  BY <1>1, <1>8, <1>9 DEF MemoryInv, Booked

\* uvmcopy() gives the child a frame of its own.
LEMMA CopyPageStep ==
  ASSUME HeapsBelowShm, MemoryInv, NEW p \in Proc, CopyPage(p)
  PROVE  MemoryInv'
<1>1. /\ ~panicked /\ ~panicked' /\ op[p].kind = "copy" /\ More(p) /\ NextPage(p)
      /\ UNCHANGED <<state, sz, family>>
  BY DEF CopyPage, In
<1>2. /\ MemoryTypes /\ Structure /\ op[p].i \in Nat
      /\ \E n \in Proc : n = op[p].np /\ Builds(p, n) /\ op[n].kind = "idle"
  BY <1>1, ChildFacts DEF ChildLoops
<1>3. PICK n \in Proc, v \in Page :
        n = op[p].np /\ Builds(p, n) /\ v = op[p].i /\ v # SHM_VA /\ op[n].kind = "idle"
  BY <1>1, <1>2, LoopPage
<1>4. PICK g \in Frame : Kalloc(g) /\ pte' = [pte EXCEPT ![n][v] = g]
  BY <1>3 DEF CopyPage
<1>5. \A w \in Page : w >= v => pte[n][w] = None
  BY <1>1, <1>2, <1>3 DEF Structure, Fresh
<1>6. /\ pte' \in [Proc -> [Page -> Entries]] /\ \A r \in Proc \ {n} : pte'[r] = pte[r]
      /\ pte'[n][v] = g /\ \A w \in Page \ {v} : pte'[n][w] = pte[n][w]
  <2>1. MemoryTypes /\ g \in Entries
    BY <1>2, PageFacts
  <2>2. pte' = [pte EXCEPT ![n][v] = g]
    BY <1>4
  <2> QED
    BY ONLY <2>1, <2>2, n \in Proc, v \in Page, PutFacts
<1>7. /\ op' \in [Proc -> LoopTypes] /\ \A r \in Proc \ {p} : op'[r] = op[r]
      /\ op'[p].kind = op[p].kind /\ op'[p].np = n /\ op'[p].i = op[p].i + 1
  BY <1>1, <1>2, <1>3, NextPageFacts
<1>8. \A w \in Page : w >= op'[p].i => pte'[n][w] = None
  BY <1>3, <1>5, <1>6, <1>7, PageFacts
<1>9. TypesNext /\ Placed
  BY <1>1, <1>2, <1>3, <1>4, <1>6, <1>7, KallocFacts DEF TypesNext, Placed, MemoryTypes
<1>10. Builds(p, n)'
  BY <1>3, <1>7 DEF Builds
<1>11. MemoryTypes' /\ Structure'
  BY <1>1, <1>2, <1>3, <1>6, <1>7, <1>8, <1>9, <1>10, ChildStep
<1>12. pte[n][v] = None
  BY <1>2, <1>3, <1>5 DEF Page
<1>13. Booked'
  BY <1>1, <1>3, <1>4, <1>7, <1>12, BooksAllocate, ZenonT(40)
<1> QED
  BY <1>1, <1>11, <1>13 DEF MemoryInv, Booked

\* clone() maps the parent's frame in the thread before it counts it.
LEMMA SharePageStep ==
  ASSUME HeapsBelowShm, MemoryInv, NEW p \in Proc, SharePage(p)
  PROVE  MemoryInv'
<1> USE PageFacts
<1>1. /\ ~panicked /\ ~panicked' /\ op[p].kind = "share" /\ More(p)
      /\ op' = [op EXCEPT ![p].kind = "addref"] /\ UNCHANGED <<state, sz, family, references>>
  BY DEF SharePage, In
<1>2. /\ MemoryTypes /\ Structure /\ op[p].i \in Nat /\ op[p] \in LoopTypes
      /\ \E n \in Proc : n = op[p].np /\ Builds(p, n) /\ op[n].kind = "idle" /\ n # p
  BY <1>1, ChildFacts DEF ChildLoops
<1>3. PICK n \in Proc, v \in Page : /\ n = op[p].np /\ Builds(p, n) /\ n # p
                                    /\ op[n].kind = "idle" /\ v = op[p].i /\ v # SHM_VA
  BY <1>1, <1>2, LoopPage
<1>4. PICK f : f = pte[p][v]
  OBVIOUS
<1>5. pte' = [pte EXCEPT ![n][v] = f] /\ f \in Frame
  <2>1. pte' = [pte EXCEPT ![n][v] = f] /\ f # None
    BY <1>3, <1>4 DEF SharePage
  <2>2. f \in Entries /\ f # Shm
    BY <1>2, <1>3, <1>4, <2>1, ZenonT(40) DEF MemoryTypes, Structure, ShmInPlace
  <2> QED
    BY <2>1, <2>2 DEF Entries
<1>6. \A w \in Page : w >= v => pte[n][w] = None
  BY <1>1, <1>2, <1>3 DEF Structure, Fresh
<1>7. /\ pte' \in [Proc -> [Page -> Entries]] /\ \A r \in Proc \ {n} : pte'[r] = pte[r]
      /\ pte'[n][v] = f /\ \A w \in Page \ {v} : pte'[n][w] = pte[n][w]
  <2>1. MemoryTypes /\ f \in Entries
    BY <1>2, <1>5
  <2>2. pte' = [pte EXCEPT ![n][v] = f]
    BY <1>5
  <2> QED
    BY ONLY <2>1, <2>2, n \in Proc, v \in Page, PutFacts
<1>8. /\ op' \in [Proc -> LoopTypes] /\ \A r \in Proc \ {p} : op'[r] = op[r]
      /\ op'[p].kind = "addref" /\ op'[p].np = n /\ op'[p].i = op[p].i
      /\ op'[p].end = op[p].end
  <2>1. [op[p] EXCEPT !.kind = "addref"] \in LoopTypes
    BY <1>2 DEF LoopTypes, ChildLoops
  <2> QED
    BY <1>1, <1>2, <1>3, <2>1 DEF MemoryTypes, LoopTypes
<1>9. TypesNext /\ Placed
  BY <1>1, <1>2, <1>3, <1>5, <1>7, <1>8 DEF TypesNext, Placed, MemoryTypes
<1>10. Builds(p, n)'
  BY <1>3, <1>8 DEF Builds, ChildLoops
<1>11. MemoryTypes' /\ Structure'
  <2>1. /\ op'[p].i < op'[p].end /\ pte'[p][op'[p].i] # None
        /\ pte'[n][op'[p].i] = pte'[p][op'[p].i]
        /\ \A w \in Page : w > op'[p].i => pte'[n][w] = None
    BY <1>1, <1>3, <1>4, <1>5, <1>6, <1>7, <1>8 DEF More
  <2> QED
    BY <1>1, <1>2, <1>3, <1>7, <1>8, <1>9, <1>10, <2>1, ChildStep
<1>12. ASSUME NEW g \in Frame
       PROVE  references'[g] = Cardinality(Mappings(g)') - Cardinality(Uncounted(g)')
  <2>1. PICK U, V : U = Uncounted(g) /\ V = Uncounted(g)'
    OBVIOUS
  <2>2. IsFiniteSet(U) /\ Cardinality(U) \in Nat
    BY <2>1, CountsFinite, FS_CardinalityType
  <2>3. \A q \in Proc \ {p} : q \in V <=> q \in U
    <3>1. \A q \in Proc : op[q].kind = "addref" => pte'[q] = pte[q]
      BY <1>3, <1>7
    <3> QED
      BY <1>8, <2>1, <3>1 DEF Uncounted
  <2>4. p \notin U /\ (p \in V <=> g = f) /\ U \subseteq Proc /\ V \subseteq Proc
    BY <1>1, <1>3, <1>4, <1>7, <1>8, <2>1 DEF Uncounted
  <2>5. Cardinality(V) = IF g = f THEN Cardinality(U) + 1 ELSE Cardinality(U)
    <3>1. CASE g = f
      <4>1. V = U \cup {p}
        BY <2>3, <2>4, <3>1
      <4> QED
        BY <2>2, <2>4, <3>1, <4>1, FS_AddElement
    <3>2. CASE g # f
      <4>1. V = U
        <5>1. \A q \in Proc : q \in V <=> q \in U
          BY <2>3, <2>4, <3>2
        <5> QED
          BY <2>4, <5>1
      <4> QED
        BY <3>2, <4>1
    <3> QED
      BY <3>1, <3>2
  <2>6. /\ Cardinality(Mappings(g)) \in Nat
        /\ g # f => Cardinality(Mappings(g)') = Cardinality(Mappings(g))
        /\ g = f => Cardinality(Mappings(g)') = Cardinality(Mappings(g)) + 1
    <3>1. Puts(n, v, f) /\ f \in Entries
      BY <1>5 DEF Puts
    <3>2. pte[n][v] = None
      BY <1>3, <1>6 DEF Page
    <3> QED
      BY <1>2, <3>1, <3>2, MappingCounts
  <2>7. references'[g] = Cardinality(Mappings(g)) - Cardinality(U)
    BY <1>1, <2>1 DEF MemoryInv, FramesAccounted
  <2> QED
    BY <2>1, <2>2, <2>5, <2>6, <2>7
<1>13. OneFamily'
  <2>1. n \in family[p]
    BY <1>1, <1>2, <1>3 DEF Structure, Families
  <2>2. \A r \in Proc, w \in Page : pte[r][w] = f => r \in family[p] /\ w = v
    BY <1>3, <1>4, <1>5 DEF MemoryInv, OneFamily
  <2>3. \A r \in Proc : r \in family[p] => n \in family[r] /\ r \in family[n]
    BY <1>2, <2>1 DEF Structure, Families
  <2>4. n \in family[n]
    BY <1>2 DEF Structure, Families
  <2>5. \A r \in Proc, w \in Page :
          pte'[r][w] = IF r = n /\ w = v THEN f ELSE pte[r][w]
    BY <1>7
  <2> QED
    BY <1>1, <2>2, <2>3, <2>4, <2>5 DEF MemoryInv, OneFamily
<1> QED
  BY <1>1, <1>11, <1>12, <1>13 DEF MemoryInv, FramesAccounted

\* Then it counts it.
LEMMA AddRefStep ==
  ASSUME HeapsBelowShm, MemoryInv, NEW p \in Proc, AddRef(p)
  PROVE  MemoryInv'
<1> USE PageFacts
<1>1. ~panicked /\ op[p].kind = "addref"
  BY DEF AddRef, In
<1>2. /\ MemoryTypes /\ Structure /\ op[p].i \in Nat /\ op[p] \in LoopTypes
      /\ op[p].end \in 0 .. MaxSize
      /\ \E n \in Proc : n = op[p].np /\ Builds(p, n) /\ op[n].kind = "idle" /\ n # p
  BY <1>1, ChildFacts DEF ChildLoops
<1>3. PICK n \in Proc : n = op[p].np /\ Builds(p, n) /\ n # p /\ op[n].kind = "idle"
  BY <1>2
<1>4. /\ op[p].i < op[p].end /\ pte[p][op[p].i] # None
      /\ \A w \in Page : w > op[p].i => pte[n][w] = None
  BY <1>1, <1>2, <1>3 DEF Structure, Fresh
<1>5. PICK v \in Page : v = op[p].i /\ v # SHM_VA
  <2>1. More(p)
    BY <1>4 DEF More
  <2> QED
    BY <1>2, <2>1, LoopPage
<1>6. PICK f \in Frame : f = pte[p][v]
  <2>1. pte[p][v] \in Entries /\ pte[p][v] # None
    BY <1>2, <1>4, <1>5 DEF MemoryTypes
  <2>2. pte[p][v] # Shm
    BY <1>2, <1>5, <2>1 DEF Structure, ShmInPlace
  <2> QED
    BY <2>1, <2>2 DEF Entries
<1>7. CASE Panic
  BY <1>7, PanicStep
<1>8. CASE ~Panic
  <2>1. /\ references' = [references EXCEPT ![f] = @ + 1]
        /\ op' = [op EXCEPT ![p].kind = "share", ![p].i = @ + 1]
        /\ UNCHANGED <<state, sz, pte, family, panicked>>
    BY <1>5, <1>6, <1>8 DEF AddRef
  <2>2. /\ op' \in [Proc -> LoopTypes] /\ \A r \in Proc \ {p} : op'[r] = op[r]
        /\ op'[p].kind = "share" /\ op'[p].np = n /\ op'[p].i = op[p].i + 1
    <3>1. [op[p] EXCEPT !.kind = "share", !.i = op[p].i + 1] \in LoopTypes
      <4>1. PICK o : o = [op[p] EXCEPT !.kind = "share"]
        OBVIOUS
      <4>2. o \in LoopTypes /\ o.i = op[p].i
        BY <1>2, <4>1 DEF LoopTypes, ChildLoops
      <4>3. [o EXCEPT !.i = op[p].i + 1] \in LoopTypes
        BY <1>2, <4>2 DEF LoopTypes
      <4> QED
        BY <4>1, <4>3
    <3> QED
      BY <1>2, <1>3, <2>1, <3>1 DEF MemoryTypes, LoopTypes
  <2>3. references' \in [Frame -> Int] /\ references \in [Frame -> Int]
    BY <1>2, <2>1 DEF MemoryTypes
  <2>4. TypesNext /\ Placed
    BY <1>2, <2>1, <2>2, <2>3 DEF TypesNext, Placed, MemoryTypes
  <2>5. Builds(p, n)'
    BY <2>2 DEF Builds, ChildLoops
  <2>6. MemoryTypes' /\ Structure'
    <3>1. \A w \in Page : w >= op'[p].i => pte'[n][w] = None
      BY <1>2, <1>4, <2>1, <2>2
    <3> QED
      BY <1>1, <1>2, <1>3, <2>1, <2>2, <2>4, <2>5, <3>1, ChildStep
  <2>7. ASSUME NEW g \in Frame
        PROVE  references'[g] = Cardinality(Mappings(g)') - Cardinality(Uncounted(g)')
    <3>1. PICK U, V : U = Uncounted(g) /\ V = Uncounted(g)'
      OBVIOUS
    <3>2. IsFiniteSet(U) /\ Cardinality(U) \in Nat
      BY <3>1, CountsFinite, FS_CardinalityType
    <3>3. \A q \in Proc \ {p} : q \in V <=> q \in U
      BY <2>1, <2>2, <3>1 DEF Uncounted
    <3>4. p \notin V /\ (p \in U <=> g = f) /\ U \subseteq Proc /\ V \subseteq Proc
      BY <1>1, <1>5, <1>6, <2>2, <3>1 DEF Uncounted
    <3>5. Cardinality(V) = IF g = f THEN Cardinality(U) - 1 ELSE Cardinality(U)
      <4>1. CASE g = f
        <5>1. V = U \ {p}
          BY <3>3, <3>4, <4>1
        <5> QED
          BY <3>2, <3>4, <4>1, <5>1, FS_RemoveElement
      <4>2. CASE g # f
        <5>1. V = U
          BY <3>3, <3>4, <4>2
        <5> QED
          BY <4>2, <5>1
      <4> QED
        BY <4>1, <4>2
    <3>6. Mappings(g)' = Mappings(g) /\ Cardinality(Mappings(g)) \in Nat
      BY <2>1, CountsFinite, FS_CardinalityType DEF Mappings
    <3>7. references[g] = Cardinality(Mappings(g)) - Cardinality(U)
      BY <1>1, <3>1 DEF MemoryInv, FramesAccounted
    <3>8. references'[g] = IF g = f THEN references[g] + 1 ELSE references[g]
      BY <2>1, <2>3
    <3> QED
      BY <3>1, <3>2, <3>5, <3>6, <3>7, <3>8
  <2>8. OneFamily'
    BY <2>1 DEF MemoryInv, OneFamily
  <2> QED
    BY <1>1, <2>1, <2>6, <2>7, <2>8 DEF MemoryInv, FramesAccounted
<1> QED
  BY <1>7, <1>8

\* A loop of p ends, and the child n runs or is freed.
LEMMA ChildEnds ==
  ASSUME MemoryTypes, Structure, NEW p \in Proc, NEW n \in Proc, Builds(p, n),
         op'[p].kind = "idle", state'[n] \in {"used", "running"},
         \/ op'[n].kind = "idle"
         \/ op'[n].kind = "free" /\ op'[n].np = n /\ state'[n] = "used",
         \A q \in Proc \ {p, n} : op'[q] = op[q],
         \A q \in Proc \ {n} : pte'[q] = pte[q] /\ state'[q] = state[q],
         TypesNext, Placed, state' \in [Proc -> States], UNCHANGED family
  PROVE  MemoryTypes' /\ Structure'
<1> USE DEF TypesNext, Structure
<1>1. MemoryTypes'
  BY DEF MemoryTypes
<1>2. /\ state[p] = "running" /\ state[n] = "used" /\ n # p /\ op[n].kind = "idle"
      /\ op[p].kind \in ChildLoops
  BY SMTT(30) DEF Builds, Owners
<1>3. /\ \A m \in Proc : ~Builds(p, m)' /\ ~Builds(n, m)' /\ ~Builds(n, m)
      /\ \A q \in Proc \ {p, n}, m \in Proc : Builds(q, m)' <=> Builds(q, m)
      /\ \A q, m \in Proc : Builds(q, m) => m # p
      /\ \A q \in Proc \ {p}, m \in Proc : Builds(q, m) => m # n
  BY <1>2 DEF Builds, ChildLoops, Owners
<1>4. Owners'
  <2> SUFFICES ASSUME NEW r \in Proc
               PROVE  /\ op'[r].kind \in OwnLoops => op'[r].np = r /\ state'[r] = "running"
                      /\ op'[r].kind = "free" => op'[r].np = r /\ state'[r] \in {"used", "zombie"}
                      /\ op'[r].kind \in ChildLoops => op'[r].np \in Proc /\ state'[r] = "running"
                      /\ \A m \in Proc : Builds(r, m)' => state'[m] = "used" /\ op'[m].kind = "idle"
                      /\ \A q, m \in Proc : Builds(r, m)' /\ Builds(q, m)' => r = q
    BY DEF Owners
  <2>1. CASE r \in {p, n}
    BY <1>2, <1>3, <2>1 DEF Owners, OwnLoops, ChildLoops
  <2>2. CASE r \notin {p, n}
    <3>1. \A m \in Proc : Builds(r, m)' => /\ Builds(r, m) /\ m \notin {p, n}
                                           /\ state'[m] = "used" /\ op'[m].kind = "idle"
      BY <1>3, <2>2 DEF Owners
    <3>2. \A q, m \in Proc : Builds(r, m)' /\ Builds(q, m)' => r = q
      BY <1>3, <3>1 DEF Owners
    <3> QED
      BY <2>2, <3>1, <3>2 DEF Owners
  <2> QED
    BY <2>1, <2>2
<1>5. Fresh'
  <2> SUFFICES ASSUME NEW r \in Proc
               PROVE  /\ state'[r] = "unused" =>
                           op'[r].kind = "idle" /\ \A v \in Page : pte'[r][v] = None
                      /\ \A m \in Proc : Builds(r, m)' =>
                           /\ op'[r].kind \in {"copy", "share"} =>
                                \A v \in Page : v >= op'[r].i => pte'[m][v] = None
                           /\ op'[r].kind = "addref" =>
                                /\ op'[r].i < op'[r].end /\ pte'[r][op'[r].i] # None
                                /\ pte'[m][op'[r].i] = pte'[r][op'[r].i]
                                /\ \A v \in Page : v > op'[r].i => pte'[m][v] = None
    BY DEF Fresh
  <2>1. CASE r \in {p, n}
    BY <1>2, <1>3, <2>1
  <2>2. CASE r \notin {p, n}
    <3>1. \A m \in Proc : Builds(r, m)' => Builds(r, m) /\ m # n
      BY <1>3, <2>2
    <3> QED
      BY SMTT(30), <2>2, <3>1 DEF Fresh
  <2> QED
    BY <2>1, <2>2
<1>6. Families'
  BY <1>2, <1>3 DEF Families
<1> QED
  BY <1>1, <1>4, <1>5, <1>6, ShmStays

\* The child has all its pages and runs.
LEMMA ChildDoneStep ==
  ASSUME MemoryInv, NEW p \in Proc, ChildDone(p)
  PROVE  MemoryInv'
<1> USE PageFacts
<1>1. ~panicked /\ op[p].kind \in {"copy", "share"}
  BY DEF ChildDone
<1>2. /\ MemoryTypes /\ Structure /\ state[p] = "running"
      /\ \E n \in Proc : n = op[p].np /\ Builds(p, n) /\ op[n].kind = "idle" /\ n # p
  BY <1>1, ChildFacts DEF ChildLoops
<1>3. PICK n \in Proc : n = op[p].np /\ Builds(p, n) /\ n # p /\ op[n].kind = "idle"
  BY <1>2
<1>4. CASE Panic
  BY <1>4, PanicStep
<1>5. CASE ~Panic
  <2>1. /\ pte[p][SHM_VA] = None \/ pte[n][SHM_VA] = None
        /\ pte' = IF pte[p][SHM_VA] = None THEN pte
                  ELSE [pte EXCEPT ![n][SHM_VA] =
                          IF op[p].kind = "copy" THEN Shm ELSE pte[p][SHM_VA]]
        /\ sz' = [sz EXCEPT ![n] = sz[p]] /\ state' = [state EXCEPT ![n] = "running"]
        /\ Set(p, Idle) /\ UNCHANGED <<family, references, panicked>>
    BY <1>3, <1>5 DEF ChildDone
  <2>2. pte[p][SHM_VA] \in {None, Shm}
    BY <1>2 DEF MemoryTypes, Structure, ShmInPlace
  <2>3. /\ pte' \in [Proc -> [Page -> Entries]] /\ \A q \in Proc \ {n} : pte'[q] = pte[q]
        /\ \A w \in Page : pte'[n][w] = pte[n][w] \/ (w = SHM_VA /\ pte'[n][w] = Shm /\ pte[n][w] = None)
    <3>1. CASE pte[p][SHM_VA] = None
      BY <1>2, <2>1, <3>1 DEF MemoryTypes
    <3>2. CASE pte[p][SHM_VA] # None
      <4>1. pte' = [pte EXCEPT ![n][SHM_VA] = Shm] /\ pte[n][SHM_VA] = None
        BY <2>1, <2>2, <3>2
      <4> QED
        <5>1. /\ pte' \in [Proc -> [Page -> Entries]] /\ \A r \in Proc \ {n} : pte'[r] = pte[r]
              /\ pte'[n][SHM_VA] = Shm
              /\ \A w \in Page \ {SHM_VA} : pte'[n][w] = pte[n][w]
          <6>1. MemoryTypes /\ SHM_VA \in Page /\ Shm \in Entries
            BY <1>2
          <6>2. pte' = [pte EXCEPT ![n][SHM_VA] = Shm]
            BY <4>1
          <6> HIDE PageFacts
          <6> QED
            BY <6>1, <6>2, PutFacts
        <5> QED
          BY <4>1, <5>1
    <3> QED
      BY <3>1, <3>2
  <2>4. /\ op' \in [Proc -> LoopTypes] /\ op'[p].kind = "idle"
        /\ \A q \in Proc \ {p} : op'[q] = op[q]
    BY <1>2, <2>1, SetFacts
  <2>5. /\ sz' \in [Proc -> 0 .. MaxSize] /\ references' \in [Frame -> Int]
        /\ state' \in [Proc -> States] /\ state'[n] = "running"
        /\ \A q \in Proc \ {n} : state'[q] = state[q]
    BY <1>2, <2>1 DEF MemoryTypes, States
  <2>6. TypesNext /\ Placed
    BY <2>3, <2>4, <2>5 DEF TypesNext, Placed
  <2>7. MemoryTypes' /\ Structure'
    BY <1>2, <1>3, <2>1, <2>3, <2>4, <2>5, <2>6, ChildEnds
  <2>8. \A q \in Proc, w \in Page : \A f \in Frame : pte'[q][w] = f <=> pte[q][w] = f
    BY <2>3
  <2>9. \A q \in Proc : /\ op'[q].kind = "addref" <=> op[q].kind = "addref"
                        /\ op[q].kind = "addref" => op'[q].i = op[q].i /\ pte'[q] = pte[q]
    BY <1>1, <1>3, <2>3, <2>4
  <2>10. Booked'
    BY <1>1, <2>1, <2>8, <2>9, BooksKept
  <2> QED
    BY <1>1, <2>1, <2>7, <2>10 DEF MemoryInv, Booked
<1> QED
  BY <1>4, <1>5

\* The pages of a child that failed are gone.
LEMMA UndoDoneStep ==
  ASSUME MemoryInv, NEW p \in Proc, UndoDone(p)
  PROVE  MemoryInv'
<1>1. ~panicked /\ op[p].kind = "undo" /\ UNCHANGED <<state, sz, pte, family, references, panicked>>
  BY DEF UndoDone, In
<1>2. /\ MemoryTypes /\ Structure /\ state[p] = "running"
      /\ \E n \in Proc : /\ n = op[p].np /\ Builds(p, n) /\ op[n].kind = "idle" /\ n # p
                         /\ state[n] = "used"
  BY <1>1, ChildFacts DEF ChildLoops
<1>3. PICK n \in Proc : /\ n = op[p].np /\ Builds(p, n) /\ n # p /\ op[n].kind = "idle"
                        /\ state[n] = "used"
  BY <1>2
<1>4. PICK o : o = Loop("free", n, 0, sz[n], 0)
  OBVIOUS
<1>5. o \in LoopTypes /\ o.kind = "free" /\ o.np = n
  <2>1. sz[n] \in 0 .. MaxSize /\ 0 \in 0 .. MaxSize
    BY <1>2, MemoryAssumption DEF MemoryTypes
  <2> QED
    BY <1>4, <2>1, OwnLoopFacts
<1>6. /\ op' \in [Proc -> LoopTypes] /\ op'[p].kind = "idle" /\ op'[n] = o
      /\ \A q \in Proc \ {p, n} : op'[q] = op[q]
  <2>1. op' = [op EXCEPT ![p] = Idle, ![n] = o]
    BY <1>3, <1>4 DEF UndoDone
  <2> QED
    BY <1>2, <1>3, <1>5, <2>1, SetFacts DEF MemoryTypes
<1>7. TypesNext /\ Placed
  BY <1>1, <1>2, <1>6 DEF TypesNext, Placed, MemoryTypes
<1>8. MemoryTypes' /\ Structure'
  BY <1>1, <1>2, <1>3, <1>5, <1>6, <1>7, ChildEnds DEF MemoryTypes
<1>9. \A q \in Proc : /\ op'[q].kind = "addref" <=> op[q].kind = "addref"
                      /\ op[q].kind = "addref" => op'[q].i = op[q].i /\ pte'[q] = pte[q]
  BY <1>1, <1>3, <1>5, <1>6
<1>10. Booked'
  BY <1>1, <1>9, BooksKept
<1> QED
  BY <1>1, <1>8, <1>10 DEF MemoryInv, Booked

\* No memory for the child: what it has is taken back.
LEMMA ChildFailsStep ==
  ASSUME MemoryInv, NEW p \in Proc, ChildFails(p)
  PROVE  MemoryInv'
<1>1. /\ ~panicked /\ ~panicked' /\ op[p].kind \in {"copy", "share"} /\ More(p)
      /\ UNCHANGED <<state, sz, pte, family, references>>
  BY DEF ChildFails
<1>2. /\ MemoryTypes /\ Structure /\ op[p].i \in Nat /\ op[p].end \in 0 .. MaxSize
      /\ \E n \in Proc : n = op[p].np /\ Builds(p, n)
  BY <1>1, ChildFacts DEF ChildLoops
<1>3. PICK n \in Proc : n = op[p].np /\ Builds(p, n)
  BY <1>2
<1>4. PICK o : o = Loop("undo", n, 0, op[p].i, 0)
  OBVIOUS
<1>5. o \in LoopTypes /\ o.kind = "undo" /\ o.np = n
  <2>1. op[p].i \in 0 .. MaxSize /\ 0 \in 0 .. MaxSize
    BY <1>1, <1>2, MemoryAssumption DEF More
  <2> QED
    BY <1>4, <2>1 DEF Loop, LoopTypes, ChildLoops
<1>6. op' \in [Proc -> LoopTypes] /\ op'[p] = o /\ \A q \in Proc \ {p} : op'[q] = op[q]
  <2>1. Set(p, o)
    BY <1>3, <1>4 DEF ChildFails
  <2> QED
    BY <1>2, <1>5, <2>1, SetFacts
<1>7. TypesNext /\ Placed
  BY <1>1, <1>2, <1>6 DEF TypesNext, Placed, MemoryTypes
<1>8. Builds(p, n)'
  BY <1>5, <1>6 DEF Builds, ChildLoops
<1>9. MemoryTypes' /\ Structure'
  BY <1>1, <1>2, <1>3, <1>5, <1>6, <1>7, <1>8, ChildStep
<1>10. Booked'
  BY <1>1, <1>5, <1>6, BooksKept
<1> QED
  BY <1>1, <1>9, <1>10 DEF MemoryInv, Booked

\* A child begins on an unused entry without a page.
LEMMA ChildBegins ==
  ASSUME MemoryTypes, Structure, NEW p \in Proc, NEW n \in Proc,
         state[p] = "running", op[p].kind = "idle", state[n] = "unused",
         op'[p].kind \in {"copy", "share"}, op'[p].np = n,
         \A q \in Proc \ {p} : op'[q] = op[q],
         state' = [state EXCEPT ![n] = "used"], UNCHANGED pte,
         TypesNext, family' \in [Proc -> SUBSET Proc], Families'
  PROVE  MemoryTypes' /\ Structure'
<1> USE DEF TypesNext, Structure
<1>1. /\ state' \in [Proc -> States] /\ state'[n] = "used"
      /\ \A q \in Proc \ {n} : state'[q] = state[q]
  BY DEF MemoryTypes, States
<1>2. MemoryTypes' /\ Placed
  BY <1>1 DEF MemoryTypes, Placed
<1>3. /\ n # p /\ op[n].kind = "idle" /\ \A v \in Page : pte[n][v] = None
      /\ \A m \in Proc : ~Builds(p, m) /\ (Builds(p, m)' <=> m = n)
      /\ \A q \in Proc \ {p}, m \in Proc : Builds(q, m)' <=> Builds(q, m)
      /\ \A q, m \in Proc : Builds(q, m) => m # p /\ m # n /\ q # n
  <2>1. n # p /\ op[n].kind = "idle" /\ \A v \in Page : pte[n][v] = None
    BY DEF Fresh
  <2>2. \A q, m \in Proc : Builds(q, m) => state[m] = "used"
    BY DEF Owners
  <2> QED
    BY <2>1, <2>2 DEF Builds, ChildLoops
<1>4. Owners'
  <2> SUFFICES ASSUME NEW r \in Proc
               PROVE  /\ op'[r].kind \in OwnLoops => op'[r].np = r /\ state'[r] = "running"
                      /\ op'[r].kind = "free" => op'[r].np = r /\ state'[r] \in {"used", "zombie"}
                      /\ op'[r].kind \in ChildLoops => op'[r].np \in Proc /\ state'[r] = "running"
                      /\ \A m \in Proc : Builds(r, m)' => state'[m] = "used" /\ op'[m].kind = "idle"
                      /\ \A q, m \in Proc : Builds(r, m)' /\ Builds(q, m)' => r = q
    BY DEF Owners
  <2>1. \A m \in Proc : Builds(r, m)' => state'[m] = "used" /\ op'[m].kind = "idle"
    BY <1>1, <1>3 DEF Owners
  <2>2. \A q, m \in Proc : Builds(r, m)' /\ Builds(q, m)' => r = q
    BY <1>3 DEF Owners
  <2>3. CASE r = p
    BY <1>1, <1>3, <2>1, <2>2, <2>3 DEF OwnLoops, ChildLoops
  <2>4. CASE r # p
    <3>1. r = n => op[r].kind = "idle" /\ op'[r].kind = "idle"
      BY <1>3, <2>4
    <3> QED
      BY <1>1, <2>1, <2>2, <2>4, <3>1 DEF Owners, OwnLoops, ChildLoops
  <2> QED
    BY <2>3, <2>4
<1>5. Fresh'
  <2> SUFFICES ASSUME NEW r \in Proc
               PROVE  /\ state'[r] = "unused" =>
                           op'[r].kind = "idle" /\ \A v \in Page : pte'[r][v] = None
                      /\ \A m \in Proc : Builds(r, m)' =>
                           /\ op'[r].kind \in {"copy", "share"} =>
                                \A v \in Page : v >= op'[r].i => pte'[m][v] = None
                           /\ op'[r].kind = "addref" =>
                                /\ op'[r].i < op'[r].end /\ pte'[r][op'[r].i] # None
                                /\ pte'[m][op'[r].i] = pte'[r][op'[r].i]
                                /\ \A v \in Page : v > op'[r].i => pte'[m][v] = None
    BY DEF Fresh
  <2>1. CASE r = p
    BY <1>1, <1>3, <2>1
  <2>2. CASE r # p
    BY <1>1, <1>3, <2>2 DEF Fresh
  <2> QED
    BY <2>1, <2>2
<1> QED
  BY <1>2, <1>4, <1>5, ShmStays

\* fork() and clone() begin.
LEMMA ForkStep ==
  ASSUME MemoryInv, NEW p \in Proc, NEW np \in Proc, Fork(p, np) \/ Clone(p, np)
  PROVE  MemoryInv'
<1>1. /\ MemoryTypes /\ Structure /\ ~panicked /\ ~panicked'
      /\ state[p] = "running" /\ op[p].kind = "idle" /\ state[np] = "unused"
      /\ state' = [state EXCEPT ![np] = "used"] /\ UNCHANGED <<pte, references>>
      /\ sz[p] \in 0 .. MaxSize
  BY DEF MemoryInv, MemoryTypes, Fork, Clone, Begin, MayCall, Running, In
<1>2. PICK kind \in {"copy", "share"} : op' = [op EXCEPT ![p] = Loop(kind, np, 0, sz[p], 0)]
  BY DEF Fork, Clone, Begin
<1>3. /\ op' \in [Proc -> LoopTypes] /\ op'[p].kind = kind /\ op'[p].np = np
      /\ \A q \in Proc \ {p} : op'[q] = op[q]
  <2>1. PICK o : o = Loop(kind, np, 0, sz[p], 0)
    OBVIOUS
  <2>2. o \in LoopTypes /\ o.kind = kind /\ o.np = np
    BY <1>1, <2>1, MemoryAssumption DEF Loop, LoopTypes, ChildLoops
  <2> QED
    BY <1>1, <1>2, <2>1, <2>2 DEF MemoryTypes
<1>4. sz' \in [Proc -> 0 .. MaxSize] /\ references' \in [Frame -> Int]
  BY <1>1 DEF MemoryTypes, Fork, Clone
<1>5. TypesNext
  BY <1>1, <1>3, <1>4 DEF TypesNext, MemoryTypes
<1>6. /\ \A m \in Proc : ~Builds(p, m) /\ (Builds(p, m)' => m = np)
      /\ \A q \in Proc \ {p}, m \in Proc : Builds(q, m)' <=> Builds(q, m)
  BY <1>1, <1>3 DEF Builds, ChildLoops
<1>7. /\ family' \in [Proc -> SUBSET Proc] /\ Families'
      /\ \A q, r \in Proc : r \in family[q] => r \in family'[q]
  <2>1. /\ state'[np] # "unused" /\ np # p
        /\ \A q \in Proc \ {np} : state'[q] = state[q]
    BY <1>1 DEF MemoryTypes
  <2>2. CASE Fork(p, np)
    <3>1. op'[p].kind = "copy" /\ UNCHANGED family
      <4>1. op'[p] = Loop("copy", np, 0, sz[p], 0)
        BY <1>1, <2>2 DEF Fork, Begin, MemoryTypes
      <4> QED
        BY <2>2, <4>1 DEF Fork, Loop
    <3>2. Families'
      BY <1>1, <1>3, <1>6, <2>1, <3>1 DEF Structure, Families
    <3> QED
      BY <1>1, <3>1, <3>2 DEF MemoryTypes
  <2>3. CASE Clone(p, np)
    <3>1. PICK kin : kin = family[p] \cup {np}
      OBVIOUS
    <3>2. family' = [q \in Proc |-> IF q \in kin THEN kin ELSE family[q]] /\ kin \subseteq Proc
      BY <1>1, <2>3, <3>1 DEF Clone, MemoryTypes
    <3>3. /\ p \in kin /\ np \in kin /\ family[np] = {np}
          /\ \A q \in Proc : q \in family[q]
          /\ \A q \in Proc : \A r \in family[q] : family[r] = family[q]
      BY <1>1, <3>1 DEF Structure, Families
    <3>4. \A q \in Proc \ kin : \A r \in family[q] : r \notin kin
      BY <3>1, <3>3
    <3>5. \A q \in kin : state'[q] # "unused"
      <4>1. ASSUME NEW q \in family[p], state[q] = "unused"
            PROVE  FALSE
        <5>1. q \in Proc
          BY <1>1 DEF MemoryTypes
        <5>2. family[q] = {q} /\ family[q] = family[p] /\ p \in family[p]
          BY <1>1, <3>3, <4>1, <5>1 DEF Structure, Families
        <5> QED
          BY <1>1, <4>1, <5>2
      <4> QED
        BY <2>1, <3>1, <3>2, <4>1
    <3>6. \A q, r \in Proc : r \in family[q] => r \in family'[q]
      <4>1. \A q \in family[p] : family[q] \subseteq kin
        BY <3>1, <3>3
      <4>2. family[np] \subseteq kin
        BY <3>3
      <4> QED
        BY <3>1, <3>2, <4>1, <4>2
    <3>7. family' \in [Proc -> SUBSET Proc]
      BY <1>1, <3>2 DEF MemoryTypes
    <3>8. ASSUME NEW q \in Proc
          PROVE  /\ q \in family'[q]
                 /\ \A r \in family'[q] : family'[r] = family'[q]
                 /\ state'[q] = "unused" => family'[q] = {q}
                 /\ \A n \in Proc : Builds(q, n)' /\ op'[q].kind \in {"share", "addref"} =>
                      n \in family'[q]
      <4>1. q \in family'[q] /\ \A r \in family'[q] : family'[r] = family'[q]
        BY <1>1, <3>2, <3>3, <3>4 DEF MemoryTypes
      <4>2. state'[q] = "unused" => family'[q] = {q}
        BY <1>1, <2>1, <3>2, <3>3, <3>5 DEF Structure, Families
      <4>3. \A n \in Proc : Builds(q, n)' /\ op'[q].kind \in {"share", "addref"} =>
              n \in family'[q]
        <5>1. CASE q = p
          BY <1>6, <3>2, <3>3, <5>1
        <5>2. CASE q # p
          BY <1>1, <1>3, <1>6, <3>6, <5>2 DEF Structure, Families
        <5> QED
          BY <5>1, <5>2
      <4> QED
        BY <4>1, <4>2, <4>3
    <3>9. Families'
      BY <3>8 DEF Families
    <3> QED
      BY <3>6, <3>7, <3>9
  <2> QED
    BY <2>2, <2>3
<1>8. MemoryTypes' /\ Structure'
  BY <1>1, <1>3, <1>5, <1>7, ChildBegins
<1>9. Booked'
  BY <1>1, <1>3, <1>7, BooksKept
<1> QED
  BY <1>1, <1>8, <1>9 DEF MemoryInv, Booked

\* A step of an entry that nobody builds: it exits, or its table is freed.
LEMMA AloneStep ==
  ASSUME MemoryTypes, Structure, NEW p \in Proc,
         op[p].kind \in {"idle", "free"}, state[p] # "used" \/ op[p].kind = "free",
         op'[p].kind \in {"idle", "free"},
         op'[p].kind = "free" => op'[p].np = p /\ state'[p] \in {"used", "zombie"},
         state'[p] = "unused" => op'[p].kind = "idle" /\ \A v \in Page : pte'[p][v] = None,
         \A q \in Proc \ {p} : op'[q] = op[q] /\ pte'[q] = pte[q] /\ state'[q] = state[q],
         TypesNext, Placed, state' \in [Proc -> States],
         family' \in [Proc -> SUBSET Proc], Families'
  PROVE  MemoryTypes' /\ Structure'
<1> USE DEF TypesNext, Structure
<1>1. MemoryTypes'
  BY DEF MemoryTypes
<1>2. \A q, n \in Proc : /\ Builds(q, n)' <=> Builds(q, n)
                         /\ Builds(q, n) => q # p /\ n # p
  <2>1. \A q, n \in Proc : Builds(q, n) => q # p /\ n # p
    <3>1. \A q, n \in Proc : Builds(q, n) => state[n] = "used" /\ op[n].kind = "idle"
      BY DEF Owners
    <3>2. \A n \in Proc : ~Builds(p, n)
      BY DEF Builds, ChildLoops
    <3> QED
      BY <3>1, <3>2
  <2>2. \A q \in Proc \ {p}, n \in Proc : Builds(q, n)' <=> Builds(q, n)
    BY DEF Builds
  <2>3. \A n \in Proc : ~Builds(p, n)'
    BY DEF Builds, ChildLoops
  <2> QED
    BY <2>1, <2>2, <2>3
<1>3. Owners'
  <2> SUFFICES ASSUME NEW r \in Proc
               PROVE  /\ op'[r].kind \in OwnLoops => op'[r].np = r /\ state'[r] = "running"
                      /\ op'[r].kind = "free" => op'[r].np = r /\ state'[r] \in {"used", "zombie"}
                      /\ op'[r].kind \in ChildLoops => op'[r].np \in Proc /\ state'[r] = "running"
                      /\ \A m \in Proc : Builds(r, m)' => state'[m] = "used" /\ op'[m].kind = "idle"
                      /\ \A q, m \in Proc : Builds(r, m)' /\ Builds(q, m)' => r = q
    BY DEF Owners
  <2>1. \A m \in Proc : Builds(r, m)' => state'[m] = "used" /\ op'[m].kind = "idle"
    BY <1>2 DEF Owners
  <2>2. \A q, m \in Proc : Builds(r, m)' /\ Builds(q, m)' => r = q
    BY <1>2 DEF Owners
  <2>3. CASE r = p
    BY <2>1, <2>2, <2>3 DEF OwnLoops, ChildLoops
  <2>4. CASE r # p
    BY <2>1, <2>2, <2>4 DEF Owners
  <2> QED
    BY <2>3, <2>4
<1>4. Fresh'
  <2> SUFFICES ASSUME NEW r \in Proc
               PROVE  /\ state'[r] = "unused" =>
                           op'[r].kind = "idle" /\ \A v \in Page : pte'[r][v] = None
                      /\ \A m \in Proc : Builds(r, m)' =>
                           /\ op'[r].kind \in {"copy", "share"} =>
                                \A v \in Page : v >= op'[r].i => pte'[m][v] = None
                           /\ op'[r].kind = "addref" =>
                                /\ op'[r].i < op'[r].end /\ pte'[r][op'[r].i] # None
                                /\ pte'[m][op'[r].i] = pte'[r][op'[r].i]
                                /\ \A v \in Page : v > op'[r].i => pte'[m][v] = None
    BY DEF Fresh
  <2>1. CASE r = p
    BY <1>2, <2>1
  <2>2. CASE r # p
    <3>1. \A m \in Proc : Builds(r, m)' => Builds(r, m) /\ m # p
      BY <1>2
    <3>2. /\ state'[r] = state[r] /\ op'[r] = op[r] /\ pte'[r] = pte[r]
          /\ \A m \in Proc : Builds(r, m)' => pte'[m] = pte[m]
      BY <2>2, <3>1
    <3>3. /\ state[r] = "unused" => op[r].kind = "idle" /\ \A v \in Page : pte[r][v] = None
          /\ \A m \in Proc : Builds(r, m) =>
               /\ op[r].kind \in {"copy", "share"} =>
                    \A v \in Page : v >= op[r].i => pte[m][v] = None
               /\ op[r].kind = "addref" =>
                    /\ op[r].i < op[r].end /\ pte[r][op[r].i] # None
                    /\ pte[m][op[r].i] = pte[r][op[r].i]
                    /\ \A v \in Page : v > op[r].i => pte[m][v] = None
      BY DEF Fresh
    <3> QED
      BY <3>1, <3>2, <3>3
  <2> QED
    BY <2>1, <2>2
<1> QED
  BY <1>1, <1>3, <1>4, ShmStays

\* A process becomes a zombie with its pages.
LEMMA ExitStep ==
  ASSUME MemoryInv, NEW p \in Proc, Exit(p)
  PROVE  MemoryInv'
<1>1. /\ MemoryTypes /\ Structure /\ ~panicked /\ ~panicked'
      /\ op[p].kind = "idle" /\ state[p] = "running"
      /\ UNCHANGED <<sz, pte, family, op, references>>
  BY DEF MemoryInv, Exit, MayCall, Running, In
<1>2. /\ state' \in [Proc -> States] /\ state'[p] = "zombie"
      /\ \A q \in Proc \ {p} : state'[q] = state[q]
  BY <1>1 DEF Exit, MemoryTypes, States
<1>3. TypesNext /\ Placed
  BY <1>1 DEF TypesNext, Placed, MemoryTypes
<1>4. Families'
  BY <1>1, <1>2 DEF Structure, Families, Builds
<1>5. MemoryTypes' /\ Structure'
  BY <1>1, <1>2, <1>3, <1>4, AloneStep DEF MemoryTypes
<1>6. Booked'
  BY <1>1, BooksKept
<1> QED
  BY <1>1, <1>5, <1>6 DEF MemoryInv, Booked

\* freeproc() begins to drop the pages of a zombie.
LEMMA FreeProcStep ==
  ASSUME MemoryInv, NEW p \in Proc, FreeProc(p)
  PROVE  MemoryInv'
<1> USE PageFacts
<1>1. /\ MemoryTypes /\ Structure /\ ~panicked /\ ~panicked'
      /\ op[p].kind = "idle" /\ state[p] = "zombie" /\ sz[p] \in 0 .. MaxSize
      /\ pte' = [pte EXCEPT ![p][SHM_VA] = None]
      /\ UNCHANGED <<state, sz, family, references>>
  BY DEF MemoryInv, MemoryTypes, FreeProc, In, Unmapped
<1>2. PICK o : o = Loop("free", p, 0, sz[p], 0)
  OBVIOUS
<1>3. o \in LoopTypes /\ o.kind = "free" /\ o.np = p
  BY SMTT(30), <1>1, <1>2, OwnLoopFacts, MemoryAssumption
<1>4. op' \in [Proc -> LoopTypes] /\ op'[p] = o /\ \A q \in Proc \ {p} : op'[q] = op[q]
  BY <1>1, <1>2, <1>3, SetFacts DEF FreeProc
<1>5. /\ pte' \in [Proc -> [Page -> Entries]] /\ \A r \in Proc \ {p} : pte'[r] = pte[r]
      /\ pte'[p][SHM_VA] = None /\ \A w \in Page \ {SHM_VA} : pte'[p][w] = pte[p][w]
  <2>1. SHM_VA \in Page /\ None \in Entries
    OBVIOUS
  <2> HIDE PageFacts
  <2> QED
    BY <1>1, <2>1, PutFacts
<1>6. TypesNext /\ Placed
  BY <1>1, <1>4, <1>5 DEF TypesNext, Placed, MemoryTypes
<1>7. Families'
  <2>1. \A n \in Proc : ~Builds(p, n) /\ ~Builds(p, n)'
    BY <1>1, <1>3, <1>4 DEF Builds, ChildLoops
  <2>2. \A q \in Proc \ {p}, n \in Proc : Builds(q, n)' <=> Builds(q, n)
    BY <1>4 DEF Builds
  <2> QED
    BY <1>1, <1>4, <2>1, <2>2 DEF Structure, Families
<1>8. MemoryTypes' /\ Structure'
  BY SMTT(30), <1>1, <1>3, <1>4, <1>5, <1>6, <1>7, AloneStep DEF MemoryTypes
<1>9. \A q \in Proc, w \in Page : \A f \in Frame : pte'[q][w] = f <=> pte[q][w] = f
  <2>1. pte[p][SHM_VA] \notin Frame
    BY <1>1 DEF Structure, ShmInPlace
  <2> QED
    BY <1>5, <2>1
<1>10. Booked'
  BY <1>1, <1>3, <1>4, <1>5, <1>9, BooksKept
<1> QED
  BY <1>1, <1>8, <1>10 DEF MemoryInv, Booked

\* Its entry is unused when none is left.
LEMMA FreeDoneStep ==
  ASSUME MemoryInv, NEW p \in Proc, FreeDone(p)
  PROVE  MemoryInv'
<1>1. MemoryTypes /\ Structure /\ ~panicked /\ op[p].kind = "free"
  BY DEF MemoryInv, FreeDone, In
<1>2. CASE \E v \in Page : pte[p][v] # None
  BY <1>2, PanicStep DEF FreeDone
<1>3. CASE \A v \in Page : pte[p][v] = None
  <2>1. /\ state' = [state EXCEPT ![p] = "unused"] /\ sz' = [sz EXCEPT ![p] = 0]
        /\ family' = [q \in Proc |-> IF q = p THEN {p} ELSE family[q] \ {p}]
        /\ Set(p, Idle) /\ UNCHANGED <<pte, references, panicked>>
    BY <1>3 DEF FreeDone
  <2>2. /\ op' \in [Proc -> LoopTypes] /\ op'[p].kind = "idle"
        /\ \A q \in Proc \ {p} : op'[q] = op[q]
    BY <1>1, <2>1, SetFacts
  <2>3. /\ sz' \in [Proc -> 0 .. MaxSize] /\ references' \in [Frame -> Int]
        /\ pte' \in [Proc -> [Page -> Entries]]
        /\ state' \in [Proc -> States] /\ state'[p] = "unused"
        /\ \A q \in Proc \ {p} : state'[q] = state[q]
        /\ family' \in [Proc -> SUBSET Proc] /\ family'[p] = {p}
        /\ \A q \in Proc \ {p} : family'[q] = family[q] \ {p}
    BY <1>1, <2>1, MemoryAssumption DEF MemoryTypes, States
  <2>4. TypesNext /\ Placed
    BY <2>1, <2>2, <2>3 DEF TypesNext, Placed
  <2>5. Families'
    <3>1. \A q, n \in Proc : Builds(q, n)' => Builds(q, n) /\ q # p /\ n # p
      <4>1. \A n \in Proc : ~Builds(p, n)'
        BY <2>2 DEF Builds, ChildLoops
      <4>2. \A q \in Proc \ {p}, n \in Proc : Builds(q, n)' => Builds(q, n)
        BY <2>2 DEF Builds
      <4>3. \A q \in Proc : ~Builds(q, p)
        BY <1>1 DEF Structure, Owners
      <4> QED
        BY <4>1, <4>2, <4>3
    <3>2. \A q \in Proc : q \in family[q] /\ \A r \in family[q] : family[r] = family[q]
      BY <1>1 DEF Structure, Families
    <3>3. ASSUME NEW q \in Proc
          PROVE  /\ q \in family'[q]
                 /\ \A r \in family'[q] : family'[r] = family'[q]
                 /\ state'[q] = "unused" => family'[q] = {q}
                 /\ \A n \in Proc : Builds(q, n)' /\ op'[q].kind \in {"share", "addref"} =>
                      n \in family'[q]
      <4>1. CASE q = p
        BY <2>3, <3>1, <4>1
      <4>2. CASE q # p
        <5>1. q \in family'[q] /\ family[q] \subseteq Proc
          BY <1>1, <2>3, <3>2, <4>2 DEF MemoryTypes
        <5>2. \A r \in family'[q] : family'[r] = family'[q]
          <6> SUFFICES ASSUME NEW r \in family'[q]
                       PROVE  family'[r] = family'[q]
            OBVIOUS
          <6>1. r \in family[q] /\ r # p /\ r \in Proc
            BY <2>3, <4>2, <5>1
          <6>2. family[r] = family[q]
            BY <3>2, <6>1
          <6> QED
            BY <2>3, <4>2, <6>1, <6>2
        <5>3. state'[q] = "unused" => family'[q] = {q}
          BY <1>1, <2>3, <4>2 DEF Structure, Families
        <5>4. \A n \in Proc : Builds(q, n)' /\ op'[q].kind \in {"share", "addref"} =>
                n \in family'[q]
          BY <1>1, <2>2, <2>3, <3>1, <4>2 DEF Structure, Families
        <5> QED
          BY <5>1, <5>2, <5>3, <5>4
      <4> QED
        BY <4>1, <4>2
    <3> QED
      BY <3>3 DEF Families
  <2>6. MemoryTypes' /\ Structure'
    BY <1>1, <1>3, <2>1, <2>2, <2>3, <2>4, <2>5, AloneStep
  <2>7. \A q, r \in Proc : r \in family[q] =>
          r \in family'[q] \/ \A v \in Page : pte[q][v] \notin Frame \/ pte[r][v] \notin Frame
    BY <1>3, <2>3, PageFacts
  <2>8. Booked'
    BY <1>1, <2>1, <2>2, <2>7, BooksKept
  <2> QED
    BY <1>1, <2>1, <2>6, <2>8 DEF MemoryInv, Booked
<1> QED
  BY <1>2, <1>3

-------------------------------------------------------------------------------
\* The initial states satisfy the invariant.
LEMMA MemoryStarts == HeapsBelowShm /\ Init => MemoryInv
<1> SUFFICES ASSUME HeapsBelowShm, Init
             PROVE  MemoryInv
  OBVIOUS
<1> USE PageFacts, MemoryAssumption
<1>1. PICK f \in Frame :
        /\ state = [p \in Proc |-> IF p = InitProc THEN "running" ELSE "unused"]
        /\ sz = [p \in Proc |-> IF p = InitProc THEN 1 ELSE 0]
        /\ pte = [p \in Proc |->
                    [v \in Page |-> IF p = InitProc /\ v = 0 THEN f ELSE None]]
        /\ family = [p \in Proc |-> {p}]
        /\ op = [p \in Proc |-> Idle]
        /\ references = [g \in Frame |-> IF g = f THEN 1 ELSE 0]
  BY DEF Init
<1>2. 0 \in Page /\ 0 # SHM_VA /\ Idle \in LoopTypes /\ Idle.kind = "idle"
  BY DEF HeapsBelowShm, SHM_VA, Idle, Loop, LoopTypes
<1>3. MemoryTypes
  BY <1>1, <1>2 DEF MemoryTypes, States
<1>4. Structure
  <2>1. ShmInPlace
    BY <1>1, <1>2 DEF ShmInPlace
  <2>2. \A p, n \in Proc : ~Builds(p, n)
    BY <1>1, <1>2 DEF Builds, ChildLoops
  <2>3. Owners
    BY <1>1, <1>2, <2>2 DEF Owners, OwnLoops, ChildLoops
  <2>4. Fresh
    BY <1>1, <1>2, <2>2 DEF Fresh
  <2>5. Families
    BY <1>1, <2>2 DEF Families
  <2> QED
    BY <2>1, <2>3, <2>4, <2>5 DEF Structure
<1>5. ASSUME NEW g \in Frame
      PROVE  references[g] = Cardinality(Mappings(g)) - Cardinality(Uncounted(g))
  <2>1. Uncounted(g) = {}
    BY <1>1, <1>2 DEF Uncounted
  <2>2. CASE g = f
    <3>1. Mappings(g) = {<<InitProc, 0>>}
      BY <1>1, <1>2, <2>2 DEF Mappings
    <3> QED
      <4>1. Cardinality({<<InitProc, 0>>}) = 1 /\ Cardinality({}) = 0
        BY FS_EmptySet, FS_Singleton
      <4>2. references[g] = 1
        BY <1>1, <2>2
      <4> QED
        BY <2>1, <3>1, <4>1, <4>2
  <2>3. CASE g # f
    <3>1. Mappings(g) = {}
      BY <1>1, <2>3 DEF Mappings
    <3> QED
      BY <1>1, <2>1, <2>3, <3>1, FS_EmptySet
  <2> QED
    BY <2>2, <2>3
<1>6. OneFamily
  BY <1>1 DEF OneFamily
<1> QED
  BY <1>3, <1>4, <1>5, <1>6 DEF MemoryInv, FramesAccounted

\* Every step keeps it.
LEMMA MemoryStep == HeapsBelowShm /\ MemoryInv /\ [Next]_vars => MemoryInv'
<1> SUFFICES ASSUME HeapsBelowShm, MemoryInv, [Next]_vars
             PROVE  MemoryInv'
  OBVIOUS
<1>1. CASE UNCHANGED vars
  BY <1>1 DEF vars, MemoryInv, MemoryTypes, Structure, ShmInPlace, Owners, Fresh,
              Families, Builds, FramesAccounted, Mappings, Uncounted, OneFamily
<1>2. CASE Next
  <2>1. PICK p \in Proc : Calls(p) \/ Loops(p)
    BY <1>2 DEF Next, Step
  <2>2. CASE Calls(p)
    BY <2>2, ShmGetStep, ExitStep, FreeProcStep, FaultStep, SbrkStep, ForkStep DEF Calls
  <2>3. CASE Loops(p)
    BY <2>3, GrowPageStep, OwnLoopEnds, UnmapPageStep, UnmapHoleStep, SkipHoleStep,
       CopyPageStep, SharePageStep, AddRefStep, ChildDoneStep, ChildFailsStep,
       UndoDoneStep, FreeDoneStep
    DEF Loops
  <2> QED
    BY <2>1, <2>2, <2>3
<1> QED
  BY <1>1, <1>2

(***************************************************************************)
(* However many processes fork, clone, grow, shrink and exit at once, and  *)
(* wherever they run out of memory: a frame has as many references as page *)
(* tables map it (kalloc.c), so that none is freed while it is mapped and  *)
(* none is lost, until the kernel panics.                                  *)
(***************************************************************************)
THEOREM ReferencesCountMappings ==
  ASSUME HeapsBelowShm
  PROVE  Spec => []FramesAccounted
<1>1. MemoryInv => FramesAccounted
  BY DEF MemoryInv
<1> QED
  BY <1>1, MemoryStarts, MemoryStep, PTL DEF Spec

(***************************************************************************)
(* Two processes map the same frame only if one was cloned from the other, *)
(* directly or not, and at the same address: what fork() copies is nobody  *)
(* else's, and a frame from the freelist belongs to one process (vm.c,     *)
(* uvmcopy(), uvmshare()).                                                 *)
(***************************************************************************)
THEOREM FramesStayInTheFamily ==
  ASSUME HeapsBelowShm
  PROVE  Spec => []OnlyThreadsShare
<1>1. MemoryInv => OnlyThreadsShare
  BY DEF MemoryInv, OneFamily, OnlyThreadsShare, Mappings
<1> QED
  BY <1>1, MemoryStarts, MemoryStep, PTL DEF Spec

-------------------------------------------------------------------------------
(***************************************************************************)
(* No panic: where a page table has entries                                *)
(***************************************************************************)
Empty(p, v) == pte[p][v] = None
Runs(p) == op[p].kind \in {"idle"} \cup ChildLoops /\ state[p] \in {"running", "zombie"}

\* Where the table of p, or of the child that p takes down, has no entries: above
\* the heap but for SHM_VA, and where a loop has unmapped already.
Reaches(p) ==
  LET l == op[p] IN
    /\ l.i <= l.end
    /\ Runs(p) => \A v \in Page : v >= sz[p] /\ v # SHM_VA => Empty(p, v)
    /\ l.kind \in {"copy", "share", "addref"} => l.end = sz[p]
    /\ l.kind = "grow" =>
         /\ l.base = sz[p] /\ l.base <= l.i
         /\ \A v \in Page : v >= l.i /\ v # SHM_VA => Empty(p, v)
    /\ l.kind = "shrink" =>
         /\ l.base <= l.i
         /\ \A v \in Page :
              (l.base <= v /\ v < l.i) \/ (v >= l.end /\ v # SHM_VA) => Empty(p, v)
    /\ l.kind = "free" => \A v \in Page : v < l.i \/ v >= l.end => Empty(p, v)
    /\ l.kind = "undo" => \A v \in Page : v < l.i \/ v >= l.end => Empty(l.np, v)

\* Where it has entries in the kernel of Assignment 4: everywhere in the heap.
Filled(p) ==
  LET l == op[p] IN
    /\ l.kind \notin {"share", "addref"}
    /\ state[p] = "unused" => sz[p] = 0
    /\ Runs(p) => \A v \in Page : v < sz[p] => ~Empty(p, v)
    /\ l.kind = "grow" => \A v \in Page : v < l.i => ~Empty(p, v)
    /\ l.kind = "shrink" =>
         \A v \in Page : v < l.base \/ (l.i <= v /\ v < l.end) => ~Empty(p, v)
    /\ l.kind = "free" => \A v \in Page : l.i <= v /\ v < l.end => ~Empty(p, v)
    /\ l.kind \in ChildLoops => sz[l.np] = 0
    /\ l.kind = "copy" => \A v \in Page : v < l.i => ~Empty(l.np, v)
    /\ l.kind = "undo" => \A v \in Page : l.i <= v /\ v < l.end => ~Empty(l.np, v)

Known(p) == Reaches(p) /\ (kernel = "A4" => Filled(p))

PanicFreeInv ==
  /\ kernel \in {"A7", "A4"} /\ ~panicked
  /\ MemoryInv
  /\ \A p \in Proc : Known(p)

\* What is known of the others is known after a step of p, which may concern the
\* table and the entry of its child n, or of p alone when n is p.
LEMMA OthersKnown ==
  ASSUME PanicFreeInv, MemoryInv', ~panicked', UNCHANGED kernel,
         NEW p \in Proc, NEW n \in Proc,
         \A q \in Proc \ {p, n} : /\ op'[q] = op[q] /\ pte'[q] = pte[q]
                                  /\ sz'[q] = sz[q] /\ state'[q] = state[q],
         \A q \in Proc \ {p, n} : ~Builds(q, p) /\ ~Builds(q, n),
         Known(p)', Known(n)'
  PROVE  PanicFreeInv'
<1>1. ASSUME NEW q \in Proc \ {p, n}
      PROVE  Known(q)'
  <2>1. Known(q) /\ op'[q] = op[q] /\ pte'[q] = pte[q] /\ sz'[q] = sz[q]
        /\ state'[q] = state[q]
    BY DEF PanicFreeInv
  <2>2. op[q].kind \in ChildLoops =>
          pte'[op[q].np] = pte[op[q].np] /\ sz'[op[q].np] = sz[op[q].np]
    BY DEF PanicFreeInv, MemoryInv, Structure, Owners, Builds
  <2>3. Reaches(q)'
    BY <2>1, <2>2 DEF Known, Reaches, Runs, Empty, ChildLoops
  <2>4. Filled(q) => Filled(q)'
    BY <2>1, <2>2 DEF Filled, Runs, Empty, ChildLoops
  <2> QED
    BY <2>1, <2>3, <2>4 DEF Known
<1> QED
  BY <1>1 DEF PanicFreeInv

\* Nobody works on the table of a process that runs, or whose own loop runs.
LEMMA NotBuilt ==
  ASSUME PanicFreeInv, NEW p \in Proc, state[p] # "used" \/ op[p].kind # "idle"
  PROVE  \A q \in Proc : ~Builds(q, p)
BY DEF PanicFreeInv, MemoryInv, Structure, Owners

\* A step of p over its own table.
LEMMA OwnKnown ==
  ASSUME PanicFreeInv, MemoryInv', ~panicked', UNCHANGED kernel, NEW p \in Proc,
         state[p] # "used" \/ op[p].kind # "idle",
         \A q \in Proc \ {p} : /\ op'[q] = op[q] /\ pte'[q] = pte[q]
                               /\ sz'[q] = sz[q] /\ state'[q] = state[q],
         Known(p)'
  PROVE  PanicFreeInv'
BY NotBuilt, OthersKnown

\* The types of what a step of p reads.
LEMMA KnownTypes ==
  ASSUME PanicFreeInv, NEW p \in Proc
  PROVE  /\ MemoryTypes /\ Structure /\ op[p] \in LoopTypes
         /\ op[p].i \in Nat /\ op[p].end \in 0 .. MaxSize /\ op[p].base \in 0 .. MaxSize
         /\ sz[p] \in 0 .. MaxSize /\ MaxSize \in Nat /\ PAGES \in Nat /\ SHM_VA = PAGES - 1
         /\ Page = 0 .. PAGES - 1 /\ Reaches(p) /\ (kernel = "A4" => Filled(p))
BY MemoryAssumption DEF PanicFreeInv, MemoryInv, MemoryTypes, LoopTypes, SHM_VA, Page, Known

\* sbrk() and the ends of its loops.
LEMMA SbrkKnown ==
  ASSUME HeapsBelowShm, PanicFreeInv, MemoryInv', UNCHANGED kernel, kernel = "A4" => kernel \notin LazyKernels,
         NEW p \in Proc,
         \/ \E k \in 1 .. MaxSize : SbrkLazy(p, k) \/ SbrkGrow(p, k) \/ SbrkShrink(p, k)
         \/ GrowDone(p) \/ GrowFails(p) \/ ShrinkDone(p)
  PROVE  PanicFreeInv'
<1> USE KnownTypes
<1> USE DEF Known, Reaches, Filled, Runs, Empty, ChildLoops
<1>1. /\ ~panicked' /\ UNCHANGED <<state, pte>>
      /\ \A q \in Proc \ {p} : op'[q] = op[q] /\ sz'[q] = sz[q]
  BY DEF PanicFreeInv, MemoryTypes, SbrkLazy, SbrkGrow, SbrkShrink, GrowDone, GrowFails, ShrinkDone, Set
<1>2. state[p] = "running"
  BY DEF PanicFreeInv, Structure, Owners, OwnLoops, SbrkLazy, SbrkGrow, SbrkShrink, GrowDone, GrowFails, ShrinkDone,
         MayCall, Running, In
<1>3. CASE \E k \in 1 .. MaxSize : SbrkLazy(p, k)
  <2>1. PICK k \in 1 .. MaxSize : SbrkLazy(p, k)
    BY <1>3
  <2>2. /\ op' = op /\ op[p].kind = "idle" /\ sz'[p] = sz[p] + k /\ kernel # "A4"
    BY <2>1 DEF SbrkLazy, MayCall, In, MemoryTypes
  <2>3. Known(p)'
    BY <1>1, <1>2, <2>2
  <2> QED
    BY <1>1, <1>2, <2>3, OwnKnown
<1>4. CASE \E k \in 1 .. MaxSize : SbrkGrow(p, k)
  <2>1. PICK k \in 1 .. MaxSize : SbrkGrow(p, k)
    BY <1>4
  <2>2. /\ op[p].kind = "idle" /\ sz' = sz
        /\ op'[p] = Loop("grow", p, sz[p], sz[p] + k, sz[p])
    BY <2>1 DEF SbrkGrow, MayCall, In, MemoryTypes, Set
  <2>3. Known(p)'
    BY <1>1, <1>2, <2>2 DEF Loop
  <2> QED
    BY <1>1, <1>2, <2>3, OwnKnown
<1>5. CASE \E k \in 1 .. MaxSize : SbrkShrink(p, k)
  <2>1. PICK k \in 1 .. MaxSize : SbrkShrink(p, k)
    BY <1>5
  <2>2. /\ op[p].kind = "idle" /\ sz' = sz /\ k <= sz[p]
        /\ op'[p] = Loop("shrink", p, sz[p] - k, sz[p], sz[p] - k)
    BY <2>1 DEF SbrkShrink, MayCall, In, MemoryTypes, Set
  <2>3. Known(p)'
    BY <1>1, <1>2, <2>2 DEF Loop
  <2> QED
    BY <1>1, <1>2, <2>3, OwnKnown
<1>6. CASE GrowDone(p)
  <2>1. /\ op[p].kind = "grow" /\ sz'[p] = op[p].end /\ op[p].i >= op[p].end
        /\ op'[p] = Idle
    BY <1>6 DEF GrowDone, In, MemoryTypes, Set, More
  <2>2. Known(p)'
    BY <1>1, <1>2, <2>1 DEF Idle, Loop
  <2> QED
    BY <1>1, <1>2, <2>2, OwnKnown
<1>7. CASE GrowFails(p)
  <2>1. /\ op[p].kind = "grow" /\ sz' = sz
        /\ op'[p] = Loop("shrink", p, op[p].base, op[p].i, op[p].base)
    BY <1>7 DEF GrowFails, In, MemoryTypes, Set
  <2>2. Known(p)'
    BY <1>1, <1>2, <2>1 DEF Loop
  <2> QED
    BY <1>1, <1>2, <2>2, OwnKnown
<1>8. CASE ShrinkDone(p)
  <2>1. /\ op[p].kind = "shrink" /\ sz'[p] = op[p].base /\ op[p].i >= op[p].end
        /\ op'[p] = Idle
    BY <1>8 DEF ShrinkDone, In, MemoryTypes, Set, More
  <2>2. Known(p)'
    BY <1>1, <1>2, <2>1 DEF Idle, Loop
  <2> QED
    BY <1>1, <1>2, <2>2, OwnKnown
<1> QED
  BY <1>3, <1>4, <1>5, <1>6, <1>7, <1>8

\* uvmalloc() finds no page mapped where it maps one.
LEMMA GrowPageKnown ==
  ASSUME HeapsBelowShm, PanicFreeInv, MemoryInv', UNCHANGED kernel, NEW p \in Proc, GrowPage(p)
  PROVE  PanicFreeInv'
<1> USE KnownTypes
<1>1. op[p].kind = "grow" /\ More(p) /\ state[p] = "running" /\ op[p].i \in Page /\ op[p].i # SHM_VA
  BY LoopPage DEF GrowPage, In, Structure, Owners, OwnLoops
<1>2. pte[p][op[p].i] = None
  BY <1>1 DEF Reaches, Empty
<1>3. PICK g \in Frame : pte' = [pte EXCEPT ![p][op[p].i] = g]
  BY <1>2 DEF GrowPage
<1>4. NextPage(p) /\ UNCHANGED <<state, sz, panicked>>
  BY <1>2 DEF GrowPage
<1>5. g \in Entries /\ g # None
  BY PageFacts
<1>6. /\ \A q \in Proc \ {p} : pte'[q] = pte[q] /\ op'[q] = op[q]
      /\ pte'[p][op[p].i] = g /\ \A w \in Page \ {op[p].i} : pte'[p][w] = pte[p][w]
  <2>1. PICK v \in Page : v = op[p].i
    BY <1>1
  <2>2. MemoryTypes /\ pte' = [pte EXCEPT ![p][v] = g]
    BY <1>3, <2>1
  <2>3. /\ \A q \in Proc \ {p} : pte'[q] = pte[q]
        /\ pte'[p][v] = g /\ \A w \in Page \ {v} : pte'[p][w] = pte[p][w]
    BY ONLY <1>5, <2>2, p \in Proc, v \in Page, PutFacts
  <2> QED
    BY <1>4, <2>1, <2>3, NextPageFacts
<1>7. op'[p] = [op[p] EXCEPT !.i = op[p].i + 1]
  BY <1>4 DEF NextPage, MemoryTypes
<1>8. /\ op'[p].kind = "grow" /\ op'[p].i = op[p].i + 1 /\ op'[p].end = op[p].end /\ op'[p].base = op[p].base
  BY <1>1, <1>7 DEF LoopTypes
<1>9. Known(p)'
  <2>1. op'[p].kind \notin {"idle"} \cup ChildLoops
    BY <1>8 DEF ChildLoops
  <2>2. Reaches(p)'
    BY <1>1, <1>4, <1>6, <1>8, <2>1 DEF Reaches, Runs, Empty, More
  <2>3. ASSUME kernel = "A4"
        PROVE  Filled(p)'
    BY <1>1, <1>4, <1>5, <1>6, <1>8, <2>1, <2>3 DEF Filled, Runs, Empty
  <2> QED
    BY <2>2, <2>3 DEF Known
<1> QED
  BY <1>1, <1>4, <1>6, <1>9, OwnKnown DEF PanicFreeInv

\* Page faults and shm_get.
LEMMA TouchKnown ==
  ASSUME HeapsBelowShm, PanicFreeInv, MemoryInv', UNCHANGED kernel, NEW p \in Proc,
         ShmGet(p) \/ \E v \in Page : Fault(p, v)
  PROVE  PanicFreeInv'
<1> USE KnownTypes
<1>1. /\ op[p].kind = "idle" /\ state[p] = "running" /\ UNCHANGED <<state, sz, op, panicked>>
  BY DEF ShmGet, Fault, MayCall, Running, In
<1>2. PICK v \in Page, x \in Entries :
        /\ pte' = [pte EXCEPT ![p][v] = x] /\ x # None /\ (v = SHM_VA \/ v < sz[p])
  <2>1. CASE ShmGet(p)
    BY <2>1, PageFacts DEF ShmGet
  <2>2. CASE \E v \in Page : Fault(p, v)
    BY <2>2, PageFacts DEF Fault
  <2> QED
    BY <2>1, <2>2
<1>3. /\ \A q \in Proc \ {p} : pte'[q] = pte[q]
      /\ pte'[p][v] = x /\ \A w \in Page \ {v} : pte'[p][w] = pte[p][w]
  <2>1. MemoryTypes
    OBVIOUS
  <2>2. pte' = [pte EXCEPT ![p][v] = x]
    BY <1>2
  <2> QED
    BY ONLY <2>1, <2>2, p \in Proc, v \in Page, x \in Entries, PutFacts
<1>4. Known(p)'
  BY <1>1, <1>2, <1>3 DEF Known, Reaches, Filled, Runs, Empty, ChildLoops
<1> QED
  BY <1>1, <1>3, <1>4, OwnKnown DEF PanicFreeInv

\* exit() changes no page.
LEMMA ExitKnown ==
  ASSUME HeapsBelowShm, PanicFreeInv, MemoryInv', UNCHANGED kernel, NEW p \in Proc, Exit(p)
  PROVE  PanicFreeInv'
<1> USE KnownTypes
<1>1. /\ op[p].kind = "idle" /\ state[p] = "running" /\ UNCHANGED <<sz, pte, op, panicked>>
      /\ state'[p] = "zombie" /\ \A q \in Proc \ {p} : state'[q] = state[q]
  BY DEF Exit, MayCall, Running, In, MemoryTypes
<1>2. Known(p)'
  BY <1>1 DEF Known, Reaches, Filled, Runs, Empty, ChildLoops
<1> QED
  BY <1>1, <1>2, OwnKnown DEF PanicFreeInv

\* freeproc() begins with the page at SHM_VA.
LEMMA FreeProcKnown ==
  ASSUME HeapsBelowShm, PanicFreeInv, MemoryInv', UNCHANGED kernel, NEW p \in Proc, FreeProc(p)
  PROVE  PanicFreeInv'
<1> USE KnownTypes
<1>1. /\ op[p].kind = "idle" /\ state[p] = "zombie" /\ UNCHANGED <<sz, state, panicked>>
      /\ Set(p, Loop("free", p, 0, sz[p], 0)) /\ pte' = [pte EXCEPT ![p][SHM_VA] = None]
  BY DEF FreeProc, In, Unmapped
<1>2. /\ op'[p] = Loop("free", p, 0, sz[p], 0) /\ \A q \in Proc \ {p} : op'[q] = op[q]
  BY <1>1 DEF Set, MemoryTypes
<1>3. /\ \A q \in Proc \ {p} : pte'[q] = pte[q]
      /\ pte'[p][SHM_VA] = None /\ \A w \in Page \ {SHM_VA} : pte'[p][w] = pte[p][w]
  <2>1. MemoryTypes /\ SHM_VA \in Page /\ None \in Entries
    BY PageFacts
  <2>2. pte' = [pte EXCEPT ![p][SHM_VA] = None]
    BY <1>1
  <2> QED
    BY ONLY <2>1, <2>2, p \in Proc, PutFacts
<1>4. Known(p)'
  BY <1>1, <1>2, <1>3, PageFacts DEF Known, Reaches, Filled, Runs, Empty, ChildLoops, Loop, HeapsBelowShm
<1> QED
  BY <1>1, <1>2, <1>3, <1>4, OwnKnown DEF PanicFreeInv

\* At the end freewalk() finds an empty table.
LEMMA FreeDoneKnown ==
  ASSUME HeapsBelowShm, PanicFreeInv, MemoryInv', UNCHANGED kernel, NEW p \in Proc, FreeDone(p)
  PROVE  PanicFreeInv'
<1> USE KnownTypes
<1>1. op[p].kind = "free" /\ op[p].i >= op[p].end
  BY DEF FreeDone, In, More
<1>2. \A v \in Page : pte[p][v] = None
  BY <1>1 DEF Reaches, Empty
<1>3. /\ UNCHANGED <<pte, panicked>> /\ Set(p, Idle)
      /\ state' = [state EXCEPT ![p] = "unused"] /\ sz' = [sz EXCEPT ![p] = 0]
  BY <1>2 DEF FreeDone
<1>4. /\ op'[p] = Idle /\ state'[p] = "unused" /\ sz'[p] = 0
      /\ \A q \in Proc \ {p} : op'[q] = op[q] /\ state'[q] = state[q] /\ sz'[q] = sz[q]
  BY <1>3 DEF Set, MemoryTypes
<1>5. Known(p)'
  BY <1>3, <1>4 DEF Known, Reaches, Filled, Runs, Empty, ChildLoops, Idle, Loop
<1> QED
  BY <1>1, <1>3, <1>4, <1>5, OwnKnown DEF PanicFreeInv

\* A step of p over the table of the child n.
LEMMA ChildKnown ==
  ASSUME PanicFreeInv, MemoryInv', ~panicked', UNCHANGED kernel,
         NEW p \in Proc, NEW n \in Proc, Builds(p, n),
         \A q \in Proc \ {p, n} : /\ op'[q] = op[q] /\ pte'[q] = pte[q]
                                  /\ sz'[q] = sz[q] /\ state'[q] = state[q],
         Known(p)', Known(n)'
  PROVE  PanicFreeInv'
<1>1. state[p] = "running" /\ \A q \in Proc : Builds(q, n) => q = p
  BY DEF PanicFreeInv, MemoryInv, Structure, Owners, Builds
<1>2. \A q \in Proc : ~Builds(q, p)
  BY <1>1, NotBuilt
<1> QED
  BY <1>1, <1>2, OthersKnown

\* Nothing but the types is known of a child before it runs.
LEMMA ChildQuiet ==
  ASSUME PanicFreeInv, NEW n \in Proc, op'[n] = op[n], state'[n] = state[n], UNCHANGED kernel,
         op[n].kind = "idle", state[n] = "used"
  PROVE  Known(n)'
BY KnownTypes DEF Known, Reaches, Filled, Runs, ChildLoops

\* uvmunmap(), the sparse one or not, finds every page it must find.
LEMMA UnmapKnown ==
  ASSUME HeapsBelowShm, PanicFreeInv, MemoryInv', UNCHANGED kernel, NEW p \in Proc,
         UnmapPage(p) \/ UnmapHole(p)
  PROVE  PanicFreeInv'
<1> USE KnownTypes
<1>0. /\ op[p].i \in Nat /\ op[p].end \in Nat /\ op[p].base \in Nat /\ sz[p] \in Nat
      /\ PAGES \in Nat /\ SHM_VA = PAGES - 1 /\ Page = 0 .. PAGES - 1
      /\ Reaches(p) /\ (kernel = "A4" => Filled(p))
  OBVIOUS
<1>1. op[p].kind \in Unmapping /\ More(p)
  BY DEF UnmapPage, UnmapHole
<1>2. PICK q \in Proc, v \in Page : q = op[p].np /\ v = op[p].i /\ v # SHM_VA
  BY <1>1, LoopPage DEF Structure, Owners, Unmapping, OwnLoops, ChildLoops
<1>3. /\ op[p].kind \in {"shrink", "free"} => q = p
      /\ op[p].kind = "shrink" => state[p] = "running"
      /\ op[p].kind = "undo" =>
           Builds(p, q) /\ op[q].kind = "idle" /\ state[q] = "used" /\ q # p
  BY <1>2 DEF Structure, Owners, OwnLoops, Builds, ChildLoops
<1>4. kernel = "A4" => pte[q][v] # None
  BY <1>1, <1>2, <1>3 DEF Filled, Empty, Unmapping, More
<1>5. /\ NextPage(p) /\ UNCHANGED <<state, sz, panicked>>
      /\ \A r \in Proc \ {q} : pte'[r] = pte[r]
      /\ pte'[q][v] = None /\ \A w \in Page \ {v} : pte'[q][w] = pte[q][w]
  <2>1. CASE UnmapPage(p)
    <3>1. MemoryTypes /\ None \in Entries /\ pte' = [pte EXCEPT ![q][v] = None]
      BY <1>2, <2>1, PageFacts DEF UnmapPage, Unmapped
    <3>2. /\ \A r \in Proc \ {q} : pte'[r] = pte[r]
          /\ pte'[q][v] = None /\ \A w \in Page \ {v} : pte'[q][w] = pte[q][w]
      BY ONLY <3>1, q \in Proc, v \in Page, PutFacts
    <3> QED
      BY <2>1, <3>2 DEF UnmapPage
  <2>2. CASE UnmapHole(p)
    BY <1>2, <1>4, <2>2 DEF UnmapHole, PanicFreeInv
  <2> QED
    BY <2>1, <2>2
<1>6. /\ op'[p].kind = op[p].kind /\ op'[p].i = v + 1 /\ op'[p].end = op[p].end
      /\ op'[p].base = op[p].base /\ op'[p].np = q /\ \A r \in Proc \ {p} : op'[r] = op[r]
  <2>1. op'[p] = [op[p] EXCEPT !.i = op[p].i + 1]
    BY <1>5 DEF NextPage, MemoryTypes
  <2> QED
    BY <1>2, <1>5, <2>1, NextPageFacts DEF LoopTypes
<1>7. CASE op[p].kind = "undo"
  <2>1. pte'[p] = pte[p] /\ state[p] = "running"
    BY <1>3, <1>5, <1>7 DEF Structure, Owners, Builds, ChildLoops
  <2>2. Reaches(p)'
    <3> HIDE KnownTypes
    <3>1. v < op[p].end /\ (\A w \in Page : w < v \/ w >= op[p].end => Empty(q, w))
      BY <1>0, <1>1, <1>2, <1>7 DEF Reaches, More
    <3> QED
      BY <1>0, <1>2, <1>3, <1>5, <1>6, <1>7, <2>1, <3>1 DEF Reaches, Runs, Empty, ChildLoops
  <2>3. Filled(p) => Filled(p)'
    BY <1>1, <1>2, <1>3, <1>5, <1>6, <1>7, <2>1 DEF Filled, Runs, Empty, ChildLoops, More
  <2>4. Known(q)'
    BY <1>3, <1>5, <1>6, <1>7, ChildQuiet
  <2> QED
    BY <1>3, <1>5, <1>6, <1>7, <2>2, <2>3, <2>4, ChildKnown DEF PanicFreeInv, Known
<1>8. CASE op[p].kind # "undo"
  <2>1. q = p /\ op[p].kind \in {"shrink", "free"}
    BY <1>1, <1>3, <1>8 DEF Unmapping
  <2>2. v < op[p].end
    BY <1>1, <1>2 DEF More
  <2>3. Reaches(p)' /\ (Filled(p) => Filled(p)')
    <3> HIDE KnownTypes
    <3>1. CASE op[p].kind = "shrink"
      <4>1. Reaches(p)'
        BY <1>0, <1>2, <1>5, <1>6, <2>1, <2>2, <3>1 DEF Reaches, Runs, Empty, ChildLoops
      <4>2. Filled(p) => Filled(p)'
        BY <1>0, <1>2, <1>3, <1>5, <1>6, <2>1, <2>2, <3>1 DEF Filled, Reaches, Runs, Empty, ChildLoops
      <4> QED
        BY <4>1, <4>2
    <3>2. CASE op[p].kind = "free"
      <4>1. Reaches(p)'
        BY <1>0, <1>2, <1>5, <1>6, <2>1, <2>2, <3>2 DEF Reaches, Runs, Empty, ChildLoops
      <4>2. Filled(p) => Filled(p)'
        BY <1>0, <1>2, <1>5, <1>6, <2>1, <2>2, <3>2 DEF Filled, Runs, Empty, ChildLoops
      <4> QED
        BY <4>1, <4>2
    <3> QED
      BY <2>1, <3>1, <3>2
  <2> QED
    BY <1>5, <1>6, <2>1, <2>3, OwnKnown DEF PanicFreeInv, Known
<1> QED
  BY <1>7, <1>8

\* What is known of a parent and its child.
LEMMA ParentFacts ==
  ASSUME PanicFreeInv, NEW p \in Proc, op[p].kind \in ChildLoops
  PROVE  \E n \in Proc : /\ n = op[p].np /\ Builds(p, n) /\ n # p
                         /\ state[n] = "used" /\ op[n].kind = "idle" /\ state[p] = "running"
                         /\ op[p].kind \in {"copy", "share"} =>
                              \A v \in Page : v >= op[p].i => Empty(n, v)
                         /\ op[p].kind = "addref" => op[p].i < op[p].end
                         /\ op[p].kind = "addref" =>
                              \A v \in Page : v > op[p].i => Empty(n, v)
                         /\ op[p].kind = "addref" => ~Empty(p, op[p].i)
<1>1. PICK n \in Proc : /\ n = op[p].np /\ Builds(p, n) /\ n # p
                        /\ state[n] = "used" /\ op[n].kind = "idle" /\ state[p] = "running"
  BY ChildFacts DEF PanicFreeInv
<1> QED
  BY <1>1 DEF PanicFreeInv, MemoryInv, Structure, Fresh, Empty

\* The loops of fork() and clone() go on to the next page.
LEMMA ChildPageKnown ==
  ASSUME HeapsBelowShm, PanicFreeInv, MemoryInv', UNCHANGED kernel, NEW p \in Proc,
         SkipHole(p) \/ CopyPage(p) \/ SharePage(p)
  PROVE  PanicFreeInv'
<1> USE KnownTypes
<1>0. /\ op[p].i \in Nat /\ op[p].end \in Nat /\ op[p].base \in Nat /\ sz[p] \in Nat
      /\ PAGES \in Nat /\ SHM_VA = PAGES - 1 /\ Page = 0 .. PAGES - 1
      /\ Reaches(p) /\ (kernel = "A4" => Filled(p))
  OBVIOUS
<1>1. op[p].kind \in {"copy", "share"} /\ More(p) /\ UNCHANGED <<state, sz, panicked>>
  BY DEF SkipHole, CopyPage, SharePage, In
<1>2. PICK n \in Proc : /\ n = op[p].np /\ Builds(p, n) /\ n # p
                        /\ state[n] = "used" /\ op[n].kind = "idle" /\ state[p] = "running"
  BY <1>1, ParentFacts DEF ChildLoops
<1>3. PICK v \in Page : v = op[p].i
  BY <1>1, LoopPage
<1>4. PICK x \in Entries :
        /\ \A q \in Proc \ {n} : pte'[q] = pte[q]
        /\ pte'[n][v] = x /\ \A w \in Page \ {v} : pte'[n][w] = pte[n][w]
        /\ pte[p][v] # None => x # None
  <2>1. CASE SkipHole(p)
    BY <1>3, <2>1, PageFacts DEF SkipHole, MemoryTypes
  <2>2. CASE CopyPage(p) \/ SharePage(p)
    <3>1. PICK x \in Entries : x # None /\ pte' = [pte EXCEPT ![n][v] = x]
      <4>1. CASE CopyPage(p)
        BY <1>2, <1>3, <4>1, PageFacts DEF CopyPage
      <4>2. CASE SharePage(p)
        <5>1. pte[p][v] \in Entries /\ pte[p][v] # None
          BY <1>3, <4>2 DEF SharePage, MemoryTypes
        <5> QED
          BY <1>2, <1>3, <4>2, <5>1 DEF SharePage
      <4> QED
        BY <2>2, <4>1, <4>2
    <3>2. MemoryTypes
      OBVIOUS
    <3>3. /\ \A q \in Proc \ {n} : pte'[q] = pte[q]
          /\ pte'[n][v] = x /\ \A w \in Page \ {v} : pte'[n][w] = pte[n][w]
      BY ONLY <3>1, <3>2, n \in Proc, v \in Page, PutFacts
    <3> QED
      BY <3>1, <3>3
  <2> QED
    BY <2>1, <2>2
<1>5. /\ op'[p].end = op[p].end /\ op'[p].np = n /\ \A q \in Proc \ {p} : op'[q] = op[q]
      /\ op[p].kind = "copy" => op'[p].kind = "copy" /\ op'[p].i = v + 1
      /\ op[p].kind = "share" => \/ op'[p].kind = "share" /\ op'[p].i = v + 1
                                 \/ op'[p].kind = "addref" /\ op'[p].i = v
  <2>1. CASE NextPage(p)
    <3>1. op'[p] = [op[p] EXCEPT !.i = op[p].i + 1]
      BY <2>1 DEF NextPage, MemoryTypes
    <3>2. op[p] \in LoopTypes
      OBVIOUS
    <3>3. /\ op'[p].kind = op[p].kind /\ op'[p].i = v + 1 /\ op'[p].end = op[p].end
          /\ op'[p].np = n
      BY ONLY <1>2, <1>3, <3>1, <3>2 DEF LoopTypes
    <3>4. \A q \in Proc \ {p} : op'[q] = op[q]
      BY <2>1, NextPageFacts
    <3> QED
      BY ONLY <1>1, <3>3, <3>4
  <2>2. CASE SharePage(p)
    <3>1. op'[p] = [op[p] EXCEPT !.kind = "addref"] /\ \A q \in Proc \ {p} : op'[q] = op[q]
          /\ op[p].kind = "share"
      BY <2>2 DEF SharePage, In, MemoryTypes
    <3> QED
      BY <1>2, <1>3, <3>1 DEF LoopTypes
  <2> QED
    BY <2>1, <2>2 DEF SkipHole, CopyPage
<1>6. Reaches(p)'
  BY <1>1, <1>2, <1>3, <1>4, <1>5 DEF Reaches, Runs, Empty, ChildLoops, More
<1>7. Filled(p) => Filled(p)'
  <2> SUFFICES ASSUME Filled(p)
               PROVE  Filled(p)'
    OBVIOUS
  <2>1. op[p].kind = "copy" /\ pte[p][v] # None
    BY <1>1, <1>2, <1>3 DEF Filled, Reaches, Runs, Empty, ChildLoops, More
  <2> HIDE KnownTypes
  <2> QED
    BY <1>0, <1>1, <1>2, <1>3, <1>4, <1>5, <2>1 DEF Filled, Runs, Empty, ChildLoops
<1>8. Known(n)'
  BY <1>1, <1>2, <1>5, ChildQuiet
<1> QED
  BY <1>1, <1>2, <1>4, <1>5, <1>6, <1>7, <1>8, ChildKnown DEF PanicFreeInv, Known

\* kaddref() finds the frame in use: the parent maps it.
LEMMA AddRefKnown ==
  ASSUME HeapsBelowShm, PanicFreeInv, MemoryInv', UNCHANGED kernel, NEW p \in Proc, AddRef(p)
  PROVE  PanicFreeInv'
<1> USE KnownTypes
<1>0. /\ op[p].i \in Nat /\ op[p].end \in Nat /\ op[p].base \in Nat /\ sz[p] \in Nat
      /\ PAGES \in Nat /\ SHM_VA = PAGES - 1 /\ Page = 0 .. PAGES - 1
      /\ Reaches(p) /\ (kernel = "A4" => Filled(p))
  OBVIOUS
<1>1. op[p].kind = "addref"
  BY DEF AddRef, In
<1>2. PICK n \in Proc : /\ n = op[p].np /\ Builds(p, n) /\ n # p
                        /\ state[n] = "used" /\ op[n].kind = "idle" /\ state[p] = "running"
                        /\ op[p].i < op[p].end /\ ~Empty(p, op[p].i)
  BY <1>1, ParentFacts DEF ChildLoops
<1>3. op[p].i \in Page
  BY <1>2, MemoryAssumption
<1>4. pte[p][op[p].i] \notin Free
  <2>1. ASSUME pte[p][op[p].i] \in Free
        PROVE  <<p, op[p].i>> \in Mappings(pte[p][op[p].i])
    BY <1>3 DEF Mappings
  <2> QED
    BY <2>1, FreeUnmapped DEF PanicFreeInv
<1>5. UNCHANGED <<state, sz, pte, panicked>> /\ op' = [op EXCEPT ![p].kind = "share", ![p].i = @ + 1]
  BY <1>4 DEF AddRef
<1>6. /\ op'[p] = [op[p] EXCEPT !.kind = "share", !.i = @ + 1]
      /\ \A q \in Proc \ {p} : op'[q] = op[q]
  BY <1>5 DEF MemoryTypes
<1>7. op'[p].kind = "share" /\ op'[p].i = op[p].i + 1 /\ op'[p].end = op[p].end
  BY <1>6 DEF LoopTypes
<1>8. Known(p)'
  <2> HIDE KnownTypes
  <2>1. UNCHANGED kernel /\ kernel # "A4"
    BY <1>0, <1>1 DEF Filled
  <2>2. Reaches(p)'
    BY <1>0, <1>1, <1>2, <1>5, <1>7 DEF Reaches, Runs, Empty, ChildLoops
  <2> QED
    BY <2>1, <2>2 DEF Known
<1>9. Known(n)'
  BY <1>2, <1>5, <1>6, ChildQuiet
<1> QED
  BY <1>2, <1>5, <1>6, <1>8, <1>9, ChildKnown DEF PanicFreeInv

\* The shared page is mapped in a table that does not have it, and the child's
\* heap is as far as the loop has come.
LEMMA ChildDoneKnown ==
  ASSUME HeapsBelowShm, PanicFreeInv, MemoryInv', UNCHANGED kernel, NEW p \in Proc, ChildDone(p)
  PROVE  PanicFreeInv'
<1> USE KnownTypes
<1>0. /\ op[p].i \in Nat /\ op[p].end \in 0 .. MaxSize /\ sz[p] \in Nat
      /\ PAGES \in Nat /\ SHM_VA = PAGES - 1 /\ Page = 0 .. PAGES - 1 /\ MaxSize < PAGES
      /\ Reaches(p) /\ (kernel = "A4" => Filled(p)) /\ UNCHANGED kernel
      /\ MaxSize \in Nat /\ SHM_VA \in Page
  BY PageFacts DEF HeapsBelowShm
<1>1. op[p].kind \in {"copy", "share"} /\ op[p].i = op[p].end /\ op[p].end = sz[p]
  BY <1>0 DEF ChildDone, More, Reaches
<1>2. PICK n \in Proc : /\ n = op[p].np /\ Builds(p, n) /\ n # p
                        /\ state[n] = "used" /\ op[n].kind = "idle" /\ state[p] = "running"
                        /\ \A v \in Page : v >= op[p].i => Empty(n, v)
  BY <1>1, ParentFacts DEF ChildLoops
<1>3. SHM_VA >= op[p].i
  BY <1>0, <1>1
<1>4. pte[n][SHM_VA] = None
  BY <1>0, <1>2, <1>3 DEF Empty
<1>5. /\ pte' = IF pte[p][SHM_VA] = None THEN pte
                ELSE [pte EXCEPT ![n][SHM_VA] =
                        IF op[p].kind = "copy" THEN Shm ELSE pte[p][SHM_VA]]
      /\ sz' = [sz EXCEPT ![n] = sz[p]] /\ state' = [state EXCEPT ![n] = "running"]
      /\ Set(p, Idle) /\ UNCHANGED panicked
  BY <1>2, <1>4 DEF ChildDone
<1>6. /\ sz'[n] = sz[p] /\ state'[n] = "running" /\ op'[p] = Idle /\ op'[n] = op[n]
      /\ \A q \in Proc \ {n} : sz'[q] = sz[q] /\ state'[q] = state[q]
      /\ \A q \in Proc \ {p} : op'[q] = op[q]
  BY <1>2, <1>5 DEF MemoryTypes, Set
<1>7. /\ \A q \in Proc \ {n} : pte'[q] = pte[q]
      /\ \A w \in Page \ {SHM_VA} : pte'[n][w] = pte[n][w]
  <2>1. MemoryTypes
    OBVIOUS
  <2> QED
    BY ONLY <1>5, <2>1, n \in Proc DEF MemoryTypes
<1> HIDE KnownTypes
<1>8. Known(p)'
  BY <1>0, <1>1, <1>2, <1>6, <1>7 DEF Known, Reaches, Filled, Runs, Empty, ChildLoops, Idle, Loop
<1>9. Known(n)'
  <2>1. Reaches(n) /\ (kernel = "A4" => Filled(n)) /\ kernel' = kernel
    BY KnownTypes
  <2>2. Reaches(n)'
    BY <1>0, <1>1, <1>2, <1>6, <1>7, <2>1 DEF Reaches, Runs, Empty, ChildLoops
  <2>3. kernel = "A4" => Filled(n)'
    <3> SUFFICES ASSUME kernel = "A4"
                 PROVE  Filled(n)'
      OBVIOUS
    <3>1. op[p].kind = "copy" /\ \A v \in Page : v < op[p].i => ~Empty(n, v)
      BY <1>0, <1>1, <1>2 DEF Filled
    <3>2. \A v \in Page : v < sz[p] => ~Empty(n, v)'
      BY <1>0, <1>1, <1>7, <3>1 DEF Empty
    <3> QED
      BY <1>2, <1>6, <2>1, <3>2 DEF Filled, Runs, Empty, ChildLoops
  <2> QED
    BY <2>1, <2>2, <2>3 DEF Known
<1> QED
  BY <1>2, <1>5, <1>6, <1>7, <1>8, <1>9, ChildKnown DEF PanicFreeInv

\* Out of memory in fork() or clone().
LEMMA ChildFailsKnown ==
  ASSUME HeapsBelowShm, PanicFreeInv, MemoryInv', UNCHANGED kernel, NEW p \in Proc,
         ChildFails(p) \/ UndoDone(p)
  PROVE  PanicFreeInv'
<1> USE KnownTypes
<1>0. /\ op[p].i \in Nat /\ op[p].end \in Nat /\ sz[p] \in Nat
      /\ PAGES \in Nat /\ SHM_VA = PAGES - 1 /\ Page = 0 .. PAGES - 1
      /\ Reaches(p) /\ (kernel = "A4" => Filled(p)) /\ UNCHANGED kernel
      /\ UNCHANGED <<state, sz, pte, panicked>>
  BY DEF ChildFails, UndoDone
<1>1. PICK n \in Proc : /\ n = op[p].np /\ Builds(p, n) /\ n # p
                        /\ state[n] = "used" /\ op[n].kind = "idle" /\ state[p] = "running"
                        /\ op[p].kind \in {"copy", "share"} =>
                             \A v \in Page : v >= op[p].i => Empty(n, v)
  BY ParentFacts DEF ChildLoops, ChildFails, UndoDone, In
<1>2. sz[n] \in Nat
  OBVIOUS
<1>3. CASE ChildFails(p)
  <2>1. /\ op'[p] = Loop("undo", n, 0, op[p].i, 0) /\ op[p].kind \in {"copy", "share"}
        /\ \A q \in Proc \ {p} : op'[q] = op[q]
    BY <1>1, <1>3 DEF ChildFails, Set, MemoryTypes
  <2> HIDE KnownTypes
  <2>2. Known(p)'
    BY <1>0, <1>1, <2>1 DEF Known, Reaches, Filled, Runs, Empty, ChildLoops, Loop
  <2>3. Known(n)'
    BY <1>0, <1>1, <2>1, ChildQuiet
  <2> QED
    BY <1>0, <1>1, <2>1, <2>2, <2>3, ChildKnown DEF PanicFreeInv
<1>4. CASE UndoDone(p)
  <2>1. /\ op'[p] = Idle /\ op'[n] = Loop("free", n, 0, sz[n], 0) /\ op[p].kind = "undo"
        /\ op[p].i >= op[p].end /\ \A q \in Proc \ {p, n} : op'[q] = op[q]
    BY <1>1, <1>4 DEF UndoDone, MemoryTypes, In, More
  <2> HIDE KnownTypes
  <2>2. Known(p)'
    BY <1>0, <1>1, <2>1 DEF Known, Reaches, Filled, Runs, Empty, ChildLoops, Idle, Loop
  <2>3. \A v \in Page : Empty(n, v)
    BY <1>0, <1>1, <2>1 DEF Reaches
  <2>4. kernel = "A4" => sz[n] = 0
    BY <1>0, <1>1, <2>1 DEF Filled, ChildLoops
  <2>5. Known(n)'
    BY <1>0, <1>1, <1>2, <2>1, <2>3, <2>4 DEF Known, Reaches, Filled, Runs, Empty, ChildLoops, Loop
  <2> QED
    BY <1>0, <1>1, <2>1, <2>2, <2>5, ChildKnown DEF PanicFreeInv
<1> QED
  BY <1>3, <1>4

\* fork() and clone() begin with a child that has nothing.
LEMMA BeginKnown ==
  ASSUME HeapsBelowShm, PanicFreeInv, MemoryInv', UNCHANGED kernel,
         NEW p \in Proc, NEW n \in Proc, Fork(p, n) \/ Clone(p, n)
  PROVE  PanicFreeInv'
<1> USE KnownTypes
<1>0. /\ op[p].i \in Nat /\ op[p].end \in Nat /\ sz[p] \in Nat
      /\ PAGES \in Nat /\ SHM_VA = PAGES - 1 /\ Page = 0 .. PAGES - 1
      /\ Reaches(p) /\ (kernel = "A4" => Filled(p)) /\ UNCHANGED kernel
      /\ Reaches(n) /\ (kernel = "A4" => Filled(n))
      /\ UNCHANGED <<pte, panicked>>
  BY DEF Fork, Clone
<1>1. /\ state[p] = "running" /\ op[p].kind = "idle" /\ state[n] = "unused" /\ n # p
      /\ op[n].kind = "idle" /\ \A v \in Page : Empty(n, v)
  BY DEF Fork, Clone, Begin, MayCall, Running, In, Structure, Fresh, Empty
<1>2. PICK kind \in {"copy", "share"} :
        /\ op'[p] = Loop(kind, n, 0, sz[p], 0) /\ \A q \in Proc \ {p} : op'[q] = op[q]
        /\ state'[n] = "used" /\ \A q \in Proc \ {n} : state'[q] = state[q]
        /\ \A q \in Proc \ {n} : sz'[q] = sz[q]
        /\ kernel = "A4" => kind = "copy" /\ sz'[n] = sz[n]
  BY <1>1 DEF Fork, Clone, Begin, MemoryTypes
<1>3. \A q \in Proc : ~Builds(q, p) /\ ~Builds(q, n)
  BY <1>1, NotBuilt
<1> HIDE KnownTypes
<1>4. Known(p)'
  BY <1>0, <1>1, <1>2 DEF Known, Reaches, Filled, Runs, Empty, ChildLoops, Loop
<1>5. Known(n)'
  BY <1>0, <1>1, <1>2 DEF Known, Reaches, Filled, Runs, ChildLoops
<1> QED
  BY <1>0, <1>1, <1>2, <1>3, <1>4, <1>5, OthersKnown DEF PanicFreeInv

\* The initial states: the page of init is its heap.
LEMMA PanicFreeStarts == HeapsBelowShm /\ Init => PanicFreeInv
<1> SUFFICES ASSUME HeapsBelowShm, Init
             PROVE  PanicFreeInv
  OBVIOUS
<1> USE PageFacts, MemoryAssumption
<1>1. PICK f \in Frame :
        /\ state = [p \in Proc |-> IF p = InitProc THEN "running" ELSE "unused"]
        /\ sz = [p \in Proc |-> IF p = InitProc THEN 1 ELSE 0]
        /\ pte = [p \in Proc |->
                    [v \in Page |-> IF p = InitProc /\ v = 0 THEN f ELSE None]]
        /\ op = [p \in Proc |-> Idle]
  BY DEF Init
<1>2. ASSUME NEW p \in Proc
      PROVE  Known(p)
  <2>1. /\ op[p] = Idle /\ sz[p] = IF p = InitProc THEN 1 ELSE 0
        /\ state[p] = IF p = InitProc THEN "running" ELSE "unused"
        /\ \A v \in Page : pte[p][v] = IF p = InitProc /\ v = 0 THEN f ELSE None
    BY <1>1
  <2> QED
    BY <2>1 DEF Known, Reaches, Filled, Runs, Empty, ChildLoops, Idle, Loop
<1>3. kernel \in {"A7", "A4"} /\ ~panicked
  BY DEF Init
<1> QED
  BY <1>2, <1>3, MemoryStarts DEF PanicFreeInv

\* Every step keeps it, where a heap of Assignment 4 has no holes.
LEMMA PanicFreeStep ==
  HeapsBelowShm /\ "A4" \notin LazyKernels /\ PanicFreeInv /\ [Next]_vars => PanicFreeInv'
<1> SUFFICES ASSUME HeapsBelowShm, "A4" \notin LazyKernels, PanicFreeInv, [Next]_vars
             PROVE  PanicFreeInv'
  OBVIOUS
<1>1. MemoryInv'
  BY MemoryStep DEF PanicFreeInv
<1>2. CASE UNCHANGED vars
  BY <1>1, <1>2 DEF vars, PanicFreeInv, Known, Reaches, Filled, Runs, Empty
<1>3. CASE Next
  <2>1. PICK p \in Proc : UNCHANGED kernel /\ (Calls(p) \/ Loops(p))
    BY <1>3 DEF Next, Step
  <2>2. CASE Calls(p)
    BY <1>1, <2>1, <2>2, SbrkKnown, TouchKnown, ExitKnown, FreeProcKnown, BeginKnown DEF Calls
  <2>3. CASE Loops(p)
    BY <1>1, <2>1, <2>3, SbrkKnown, GrowPageKnown, UnmapKnown, ChildPageKnown, AddRefKnown,
       ChildDoneKnown, ChildFailsKnown, FreeDoneKnown
    DEF Loops
  <2> QED
    BY <2>1, <2>2, <2>3
<1> QED
  BY <1>2, <1>3

(***************************************************************************)
(* The kernel of Assignment 7 never panics over the memory of its          *)
(* processes, whatever they do at once and wherever memory runs short: no  *)
(* page is mapped twice, no freed frame is shared, and a page table that   *)
(* freewalk() frees is empty.  Neither does that of Assignment 4 as long   *)
(* as nobody calls sbrklazy(); the run MemoryA4Lazy shows that it does     *)
(* otherwise (vm.c, proc.c, kalloc.c).                                     *)
(***************************************************************************)
THEOREM MemoryNeverPanics ==
  ASSUME HeapsBelowShm, "A4" \notin LazyKernels
  PROVE  Spec => []NoPanic
<1>1. PanicFreeInv => NoPanic
  BY DEF PanicFreeInv, NoPanic
<1> QED
  BY <1>1, PanicFreeStarts, PanicFreeStep, PTL DEF Spec
===============================================================================
