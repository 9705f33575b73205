--------------------------- MODULE KernelMemoryProofs ---------------------------
(***************************************************************************)
(* For page tables and pages of every size, and whatever kalloc() refuses  *)
(* in the middle of a call: no page is lost or freed twice, neither kernel *)
(* panics, and the memory that a process sees is that of PageMap.  Assumed *)
(* is, as in MemoryProofs, that no heap reaches the page of shared memory  *)
(* and that nobody calls sbrklazy() in the kernel of Assignment 4, whose   *)
(* uvmunmap() panics on a hole.                                            *)
(***************************************************************************)
EXTENDS KernelMemory, MemoryProofs, WellFoundedInduction, SequenceTheorems

\* The program image, text, guard page and stack, and the heap end below SHM_VA.
ImagesBelowShm == 3 <= Tables!SHM_VA /\ Tables!RoundUp(TableMaxSize) <= Tables!SHM_VA

-------------------------------------------------------------------------------
(***************************************************************************)
(* The inductive invariant                                                 *)
(***************************************************************************)
KernelPages == {Tables!TRAMPOLINE, Tables!TRAPFRAME}
PagesBelow(n) == 0 .. n - 1
HeapPages(s) == PagesBelow(Tables!RoundUp(s))

Own(pages) == {v \in DOMAIN pages : pages[v].kind = "own"}

\* Whose page an entry is depends on where it is mapped.
IsEntry(v, e) ==
  /\ e = [kind |-> e.kind, w |-> e.w, u |-> e.u, bytes |-> e.bytes]
  /\ v \in PagesBelow(Tables!MAXVA)
  /\ e.kind = "own" <=> v < Tables!SHM_VA
  /\ e.kind = "shared" <=> v = Tables!SHM_VA

\* A page table in which walk() finds every page that is mapped.
IsTable(t) ==
  /\ IsFiniteSet(t.tables)
  /\ IsFiniteSet(DOMAIN t.pte) /\ t.pte = [v \in DOMAIN t.pte |-> t.pte[v]]
  /\ \A v \in DOMAIN t.pte : IsEntry(v, t.pte[v]) /\ Tables!Path(v) \subseteq t.tables

\* The page table of a process of the given size.  Only the kernel of
\* Assignment 7 lets the heap have holes.
IsSpace(t, s) ==
  /\ IsTable(t)
  /\ s \in Nat /\ Tables!RoundUp(s) <= Tables!SHM_VA
  /\ KernelPages \subseteq DOMAIN t.pte
  /\ DOMAIN t.pte \subseteq HeapPages(s) \cup {Tables!SHM_VA} \cup KernelPages
  /\ kernel # "A7" => HeapPages(s) \subseteq DOMAIN t.pte

IsEmpty(t) == t.tables = {} /\ t.pte = <<>>

TablesInv ==
  /\ kernel \in Kernels
  /\ crashed = FALSE
  /\ used \in Int
  /\ pagetable = [p \in TableProc |-> pagetable[p]]
  /\ size = [p \in TableProc |-> size[p]]
  /\ \A p \in TableProc :
       /\ pagetable[p] = [tables |-> pagetable[p].tables, pte |-> pagetable[p].pte]
       /\ IsEmpty(pagetable[p]) \/ IsSpace(pagetable[p], size[p])
  /\ Tables!PagesAccounted
-------------------------------------------------------------------------------
(***************************************************************************)
(* Addresses and pages, and the numbers of elements of sets                *)
(***************************************************************************)
LEMMA DivisionFacts ==
  ASSUME NEW P \in Nat \ {0}, NEW a \in Int
  PROVE  /\ a \div P \in Int
         /\ P * (a \div P) <= a /\ a < P * (a \div P) + P
  OBVIOUS

LEMMA DivisionGrows ==
  ASSUME NEW P \in Nat \ {0}, NEW a \in Int, NEW b \in Int, a <= b
  PROVE  a \div P <= b \div P
  OBVIOUS

LEMMA DivisionIs ==
  ASSUME NEW P \in Nat \ {0}, NEW a \in Int, NEW q \in Int,
         P * q <= a, a < P * q + P
  PROVE  a \div P = q
  OBVIOUS

LEMMA AddressFacts ==
  ASSUME NEW a \in Nat
  PROVE  /\ Tables!PageOf(a) \in Nat /\ Tables!RoundUp(a) \in Nat
         /\ \A b \in Nat : a <= b => /\ Tables!RoundUp(a) <= Tables!RoundUp(b)
                                     /\ Tables!PageOf(a) <= Tables!PageOf(b)
         /\ \A b \in Nat : a < b => Tables!PageOf(a) < Tables!RoundUp(b)
         /\ a * PGSIZE \in Nat
         /\ Tables!PageOf(a * PGSIZE) = a /\ Tables!RoundUp(a * PGSIZE) = a
<1>1. PGSIZE \in Nat \ {0}
  BY TablesAssumption
<1>2. ASSUME NEW b \in Nat
      PROVE  Tables!PageOf(b) \in Nat /\ Tables!RoundUp(b) \in Nat
  <2>1. 0 \div PGSIZE = 0
    BY <1>1, DivisionIs
  <2>2. 0 \div PGSIZE <= b \div PGSIZE
    BY <1>1, DivisionGrows
  <2>3. 0 \div PGSIZE <= (b + PGSIZE - 1) \div PGSIZE
    BY <1>1, DivisionGrows
  <2>4. b \div PGSIZE \in Int /\ (b + PGSIZE - 1) \div PGSIZE \in Int
    BY <1>1, DivisionFacts
  <2> QED
    BY <2>1, <2>2, <2>3, <2>4 DEF Tables!PageOf, Tables!RoundUp
<1>3. ASSUME NEW b \in Nat, a <= b
      PROVE  /\ Tables!RoundUp(a) <= Tables!RoundUp(b)
             /\ Tables!PageOf(a) <= Tables!PageOf(b)
  BY <1>1, <1>3, DivisionGrows DEF Tables!PageOf, Tables!RoundUp
<1>4. ASSUME NEW b \in Nat, a < b
      PROVE  Tables!PageOf(a) < Tables!RoundUp(b)
  <2>1. (a + PGSIZE) \div PGSIZE <= (b + PGSIZE - 1) \div PGSIZE
    BY <1>1, <1>4, DivisionGrows
  <2>2. PICK q \in Int : q = a \div PGSIZE
    BY <1>1, DivisionFacts
  <2>3. PGSIZE * q <= a /\ a < PGSIZE * q + PGSIZE
    BY <1>1, <2>2, DivisionFacts
  <2>4. PGSIZE * (q + 1) = PGSIZE * q + PGSIZE
    BY <1>1
  <2>5. (a + PGSIZE) \div PGSIZE = q + 1
    BY <1>1, <2>3, <2>4, DivisionIs
  <2> QED
    BY <1>1, <2>1, <2>2, <2>5, DivisionFacts DEF Tables!PageOf, Tables!RoundUp
<1>5. a * PGSIZE \in Nat /\ PGSIZE * a = a * PGSIZE
  BY <1>1
<1>6. (a * PGSIZE) \div PGSIZE = a
  BY <1>1, <1>5, DivisionIs
<1>7. (a * PGSIZE + PGSIZE - 1) \div PGSIZE = a
  BY <1>1, <1>5, DivisionIs
<1> QED
  BY <1>2, <1>3, <1>4, <1>5, <1>6, <1>7 DEF Tables!PageOf, Tables!RoundUp

\* The operators that PageTables takes from FiniteSets are those of the theorems.
LEMMA CountsAgree ==
  ASSUME NEW S
  PROVE  Tables!Cardinality(S) = Cardinality(S)
  BY DEF Tables!Cardinality, Cardinality

LEMMA CountDifference ==
  ASSUME NEW S, IsFiniteSet(S), NEW T
  PROVE  /\ IsFiniteSet(S \ T) /\ IsFiniteSet(S \cap T)
         /\ Cardinality(S) \in Nat /\ Cardinality(S \ T) \in Nat
         /\ Cardinality(S \cap T) \in Nat
         /\ Cardinality(S \ T) = Cardinality(S) - Cardinality(S \cap T)
<1>1. IsFiniteSet(S \ T) /\ IsFiniteSet(S \cap T)
  BY FS_Difference, FS_Intersection
<1> QED
  BY <1>1, FS_Difference, FS_CardinalityType

LEMMA CountUnion ==
  ASSUME NEW S, IsFiniteSet(S), NEW T, IsFiniteSet(T), S \cap T = {}
  PROVE  /\ IsFiniteSet(S \cup T)
         /\ Cardinality(S) \in Nat /\ Cardinality(T) \in Nat
         /\ Cardinality(S \cup T) = Cardinality(S) + Cardinality(T)
<1>1. Cardinality(S \cap T) = 0
  BY FS_EmptySet
<1>2. Cardinality(S) \in Nat /\ Cardinality(T) \in Nat
  BY FS_CardinalityType
<1>3. /\ IsFiniteSet(S \cup T)
      /\ Cardinality(S \cup T) = Cardinality(S) + Cardinality(T) - Cardinality(S \cap T)
  BY FS_Union
<1> QED
  BY <1>1, <1>2, <1>3

LEMMA LeastNumber ==
  ASSUME NEW W \in SUBSET Nat, W # {}
  PROVE  \E k \in W : \A j \in W : k <= j
<1>1. PICK k \in W : \A j \in W : <<j, k>> \notin OpToRel(<, Nat)
  BY NatLessThanWellFounded, WFMin
<1>2. \A j \in W : ~(j < k)
  BY <1>1 DEF OpToRel
<1> QED
  BY <1>2

\* What goes up one step at a time from 0 arrives at n.
LEMMA Arrives ==
  ASSUME NEW n \in Nat, NEW S \in SUBSET (0 .. n), 0 \in S,
         \A i \in 1 .. n : i - 1 \in S => i \in S
  PROVE  n \in S
<1> SUFFICES ASSUME n \notin S
             PROVE  FALSE
  OBVIOUS
<1> DEFINE W == (0 .. n) \ S
<1>1. W \in SUBSET Nat /\ W # {}
  OBVIOUS
<1> HIDE DEF W
<1>2. PICK k \in W : \A j \in W : k <= j
  BY <1>1, LeastNumber
<1>3. k \in 1 .. n /\ k - 1 \in S
  BY <1>2 DEF W
<1> QED
  BY <1>2, <1>3 DEF W

-------------------------------------------------------------------------------
(***************************************************************************)
(* The allocator, and pages mapped one by one                              *)
(***************************************************************************)
\* A call at work that has not met a panic.
IsWork(m) ==
  /\ IsTable(m)
  /\ m.used \in Int /\ m.ok \in BOOLEAN /\ m.panic = FALSE
  /\ m = [tables |-> m.tables, pte |-> m.pte, used |-> m.used, left |-> m.left,
          ok |-> m.ok, nomem |-> m.nomem, panic |-> m.panic, bytes |-> m.bytes]

Mapped(m) == DOMAIN m.pte

\* The pages off the freelist that the page table does not account for.
Others(m) == m.used - (Cardinality(m.tables) + Cardinality(Own(m.pte)))

LEMMA WorkCounts ==
  ASSUME NEW m, IsWork(m)
  PROVE  /\ IsFiniteSet(m.tables) /\ IsFiniteSet(Own(m.pte))
         /\ Cardinality(m.tables) \in Nat /\ Cardinality(Own(m.pte)) \in Nat
         /\ Others(m) \in Int
         /\ Own(m.pte) = {v \in Mapped(m) : v < Tables!SHM_VA}
<1>1. IsFiniteSet(m.tables) /\ IsFiniteSet(Own(m.pte))
  BY FS_Subset DEF IsWork, IsTable, Own
<1>2. Cardinality(m.tables) \in Nat /\ Cardinality(Own(m.pte)) \in Nat
  BY <1>1, FS_CardinalityType
<1>3. Own(m.pte) = {v \in Mapped(m) : v < Tables!SHM_VA}
  BY DEF Own, Mapped, IsWork, IsTable, IsEntry
<1> QED
  BY <1>1, <1>2, <1>3 DEF Others, IsWork

LEMMA FreeFacts ==
  ASSUME NEW m, IsWork(m), NEW n \in Int
  PROVE  LET r == Tables!Kfree(m, n)
         IN /\ IsWork(r) /\ Others(r) = Others(m) - n
            /\ r.tables = m.tables /\ r.pte = m.pte /\ r.ok = m.ok
<1> DEFINE r == Tables!Kfree(m, n)
<1>1. r = [tables |-> m.tables, pte |-> m.pte, used |-> m.used - n, left |-> m.left,
           ok |-> m.ok, nomem |-> m.nomem, panic |-> m.panic, bytes |-> m.bytes]
  BY DEF IsWork, Tables!Kfree
<1>2. /\ r.tables = m.tables /\ r.pte = m.pte /\ r.used = m.used - n /\ r.left = m.left
      /\ r.ok = m.ok /\ r.nomem = m.nomem /\ r.panic = m.panic /\ r.bytes = m.bytes
  BY <1>1
<1> HIDE DEF r
<1>3. IsWork(r)
  BY <1>1, <1>2 DEF IsWork, IsTable
<1>4. /\ m.used \in Int
      /\ Cardinality(m.tables) \in Nat /\ Cardinality(Own(m.pte)) \in Nat
  BY WorkCounts DEF IsWork
<1>5. Others(r) = Others(m) - n
  BY <1>2, <1>4 DEF Others
<1> QED
  BY <1>2, <1>3, <1>5 DEF r

LEMMA AllocFacts ==
  ASSUME NEW m, IsWork(m), m.ok
  PROVE  LET r == Tables!Kalloc(m)
         IN /\ IsWork(r) /\ Others(r) = (IF r.ok THEN Others(m) + 1 ELSE Others(m))
            /\ r.tables = m.tables /\ r.pte = m.pte
<1> DEFINE r == Tables!Kalloc(m)
<1>1. \E u, l, o, e :
        /\ r = [tables |-> m.tables, pte |-> m.pte, used |-> u, left |-> l,
                ok |-> o, nomem |-> e, panic |-> m.panic, bytes |-> m.bytes]
        /\ o \in BOOLEAN /\ u = (IF o THEN m.used + 1 ELSE m.used)
  <2>1. CASE m.left = 0
    <3>1. r = [tables |-> m.tables, pte |-> m.pte, used |-> m.used, left |-> m.left,
               ok |-> FALSE, nomem |-> TRUE, panic |-> m.panic, bytes |-> m.bytes]
      BY <2>1 DEF IsWork, Tables!Kalloc
    <3> QED
      BY <3>1
  <2>2. CASE m.left # 0
    <3>1. r = [tables |-> m.tables, pte |-> m.pte, used |-> m.used + 1,
               left |-> m.left - 1, ok |-> m.ok, nomem |-> m.nomem,
               panic |-> m.panic, bytes |-> m.bytes]
      BY <2>2 DEF IsWork, Tables!Kalloc
    <3> QED
      BY <3>1
  <2> QED
    BY <2>1, <2>2
<1>2. PICK u, l, o, e :
        /\ r = [tables |-> m.tables, pte |-> m.pte, used |-> u, left |-> l,
                ok |-> o, nomem |-> e, panic |-> m.panic, bytes |-> m.bytes]
        /\ o \in BOOLEAN /\ u = (IF o THEN m.used + 1 ELSE m.used)
  BY <1>1
<1> HIDE DEF r
<1>3. /\ r.tables = m.tables /\ r.pte = m.pte /\ r.used = u /\ r.left = l
      /\ r.ok = o /\ r.nomem = e /\ r.panic = m.panic /\ r.bytes = m.bytes
  BY <1>2
<1>4. IsWork(r)
  BY <1>2, <1>3 DEF IsWork, IsTable
<1>5. /\ m.used \in Int
      /\ Cardinality(m.tables) \in Nat /\ Cardinality(Own(m.pte)) \in Nat
  BY WorkCounts DEF IsWork
<1>6. Others(r) = (IF r.ok THEN Others(m) + 1 ELSE Others(m))
  BY <1>2, <1>3, <1>5 DEF Others
<1> QED
  BY <1>2, <1>3, <1>4, <1>6 DEF r

LEMMA PathFinite ==
  ASSUME NEW v
  PROVE  IsFiniteSet(Tables!Path(v)) /\ <<>> \in Tables!Path(v)
<1>1. \A a, b, c : IsFiniteSet({a, b, c})
  <2> TAKE a, b, c
  <2>1. IsFiniteSet({a}) /\ IsFiniteSet({b}) /\ IsFiniteSet({c})
    BY FS_Singleton
  <2>2. IsFiniteSet({a} \cup {b})
    BY <2>1, FS_Union
  <2>3. IsFiniteSet(({a} \cup {b}) \cup {c})
    BY <2>1, <2>2, FS_Union
  <2>4. ({a} \cup {b}) \cup {c} = {a, b, c}
    OBVIOUS
  <2> QED
    BY <2>3, <2>4
<1> QED
  BY <1>1 DEF Tables!Path

\* Whatever kalloc() gives, walk() loses none of it.
LEMMA WalkFacts ==
  ASSUME NEW m, IsWork(m), NEW v
  PROVE  LET r == Tables!Walk(m, v)
         IN /\ IsWork(r) /\ Others(r) = Others(m)
            /\ r.pte = m.pte /\ m.tables \subseteq r.tables
            /\ r.ok => Tables!Path(v) \subseteq r.tables
<1> DEFINE r == Tables!Walk(m, v)
           missing == Tables!Path(v) \ m.tables
<1>1. \E got, l, e :
        /\ got \subseteq missing
        /\ r = [tables |-> m.tables \cup got, pte |-> m.pte,
                used |-> m.used + Cardinality(got), left |-> l,
                ok |-> (got = missing), nomem |-> e, panic |-> m.panic, bytes |-> m.bytes]
  <2> DEFINE got == {t \in missing :
                       Tables!Cardinality({s \in missing : Len(s) <= Len(t)}) <= m.left}
  <2>1. r = [tables |-> m.tables \cup got, pte |-> m.pte,
             used |-> m.used + Tables!Cardinality(got),
             left |-> m.left - Tables!Cardinality(got),
             ok |-> (got = missing), nomem |-> (got # missing),
             panic |-> m.panic, bytes |-> m.bytes]
    <3>1. PICK o, e : o = (got = missing) /\ e = (got # missing)
      OBVIOUS
    <3>2. r = [m EXCEPT !.tables = @ \cup got,
                        !.used = @ + Tables!Cardinality(got),
                        !.left = @ - Tables!Cardinality(got),
                        !.ok = o, !.nomem = e]
      BY <3>1 DEF Tables!Walk
    <3> HIDE DEF got, missing, r
    <3>3. r = [tables |-> m.tables \cup got, pte |-> m.pte,
               used |-> m.used + Tables!Cardinality(got),
               left |-> m.left - Tables!Cardinality(got),
               ok |-> o, nomem |-> e, panic |-> m.panic, bytes |-> m.bytes]
      BY <3>2 DEF IsWork
    <3> QED
      BY <3>1, <3>3
  <2>2. got \subseteq missing
    OBVIOUS
  <2> HIDE DEF got, r, missing
  <2> QED
    BY <2>1, <2>2, CountsAgree
<1>2. PICK got, l, e :
        /\ got \subseteq missing
        /\ r = [tables |-> m.tables \cup got, pte |-> m.pte,
                used |-> m.used + Cardinality(got), left |-> l,
                ok |-> (got = missing), nomem |-> e, panic |-> m.panic, bytes |-> m.bytes]
  BY <1>1
<1> HIDE DEF r
<1>3. /\ r.tables = m.tables \cup got /\ r.pte = m.pte
      /\ r.used = m.used + Cardinality(got) /\ r.left = l
      /\ r.ok = (got = missing) /\ r.nomem = e /\ r.panic = m.panic /\ r.bytes = m.bytes
  BY <1>2
<1>4. /\ IsFiniteSet(m.tables \cup got) /\ Cardinality(got) \in Nat
      /\ Cardinality(m.tables \cup got) = Cardinality(m.tables) + Cardinality(got)
  <2>1. IsFiniteSet(m.tables) /\ m.tables \cap got = {}
    BY <1>2 DEF IsWork, IsTable
  <2>2. IsFiniteSet(got)
    BY <1>2, PathFinite, FS_Subset
  <2> HIDE DEF missing
  <2> QED
    BY <2>1, <2>2, CountUnion
<1>5. IsWork(r)
  <2>1. IsTable(r)
    BY <1>3, <1>4 DEF IsWork, IsTable
  <2>2. r.ok \in BOOLEAN
    BY <1>3
  <2>3. r = [tables |-> r.tables, pte |-> r.pte, used |-> r.used, left |-> r.left,
             ok |-> r.ok, nomem |-> r.nomem, panic |-> r.panic, bytes |-> r.bytes]
    BY <1>2, <1>3
  <2> QED
    BY <1>3, <1>4, <2>1, <2>2, <2>3 DEF IsWork
<1>6. Others(r) = Others(m)
  <2>1. /\ m.used \in Int
        /\ Cardinality(m.tables) \in Nat /\ Cardinality(Own(m.pte)) \in Nat
    BY WorkCounts DEF IsWork
  <2> QED
    BY <1>3, <1>4, <2>1 DEF Others
<1>7. r.ok => Tables!Path(v) \subseteq r.tables
  BY <1>2, <1>3
<1> QED
  BY <1>3, <1>5, <1>6, <1>7 DEF r

\* An entry for the page v that may be put where nothing is mapped.
LEMMA MappagesFacts ==
  ASSUME NEW m, IsWork(m), NEW v, NEW e, IsEntry(v, e), v \notin Mapped(m)
  PROVE  LET r == Tables!Mappages(m, v, e)
         IN /\ IsWork(r)
            /\ r.ok => /\ Mapped(r) = Mapped(m) \cup {v}
                       /\ Others(r) = (IF v < Tables!SHM_VA THEN Others(m) - 1
                                                            ELSE Others(m))
            /\ ~r.ok => r.pte = m.pte /\ Others(r) = Others(m)
            /\ m.tables \subseteq r.tables
<1> DEFINE r == Tables!Mappages(m, v, e)
           w == Tables!Walk(m, v)
<1>1. /\ IsWork(w) /\ Others(w) = Others(m)
      /\ w.pte = m.pte /\ m.tables \subseteq w.tables
      /\ w.ok => Tables!Path(v) \subseteq w.tables
  BY WalkFacts
<1>2. CASE ~w.ok
  <2>1. r = w
    BY <1>2 DEF Tables!Mappages, Tables!Then
  <2> QED
    BY <1>1, <1>2, <2>1
<1>3. CASE w.ok
  <2> DEFINE new == [u \in DOMAIN w.pte \cup {v} |-> IF u = v THEN e ELSE w.pte[u]]
  <2>1. r = [tables |-> w.tables, pte |-> new, used |-> w.used, left |-> w.left,
             ok |-> w.ok, nomem |-> w.nomem, panic |-> FALSE, bytes |-> w.bytes]
    <3> HIDE DEF w
    <3>1. r = [Tables!PanicIf(v \in DOMAIN w.pte, w) EXCEPT !.pte = new]
      <4>1. r = [Tables!PanicIf(v \in DOMAIN w.pte, w) EXCEPT
                   !.pte = [u \in DOMAIN @ \cup {v} |-> IF u = v THEN e ELSE @[u]]]
        BY <1>3 DEF Tables!Mappages, Tables!Then, w
      <4>2. Tables!PanicIf(v \in DOMAIN w.pte, w).pte = w.pte
        BY <1>1 DEF Tables!PanicIf, IsWork
      <4> QED
        BY <4>1, <4>2
    <3>2. Tables!PanicIf(v \in DOMAIN w.pte, w)
            = [tables |-> w.tables, pte |-> w.pte, used |-> w.used, left |-> w.left,
               ok |-> w.ok, nomem |-> w.nomem, panic |-> FALSE, bytes |-> w.bytes]
      BY <1>1 DEF Tables!PanicIf, IsWork, Mapped
    <3>3. PICK q : q = Tables!PanicIf(v \in DOMAIN w.pte, w)
      OBVIOUS
    <3>4. r = [q EXCEPT !.pte = new]
      BY <3>1, <3>3
    <3>5. q = [tables |-> w.tables, pte |-> w.pte, used |-> w.used, left |-> w.left,
               ok |-> w.ok, nomem |-> w.nomem, panic |-> FALSE, bytes |-> w.bytes]
      BY <3>2, <3>3
    <3> HIDE DEF r, new
    <3> QED
      BY ONLY <3>4, <3>5
  <2>2. /\ r.tables = w.tables /\ r.pte = new /\ r.used = w.used /\ r.left = w.left
        /\ r.ok = w.ok /\ r.nomem = w.nomem /\ r.panic = FALSE /\ r.bytes = w.bytes
    BY <2>1
  <2> HIDE DEF r, w
  <2>3. Mapped(r) = Mapped(m) \cup {v}
    BY <1>1, <2>2 DEF Mapped
  <2>4. IsTable(r)
    <3>1. IsFiniteSet(Mapped(m) \cup {v})
      BY FS_AddElement DEF IsWork, IsTable, Mapped
    <3>2. r.pte = [u \in DOMAIN r.pte |-> r.pte[u]]
      BY <2>2
    <3>3. \A u \in DOMAIN r.pte : IsEntry(u, r.pte[u])
      BY <1>1, <2>2 DEF IsWork, IsTable
    <3>4. \A u \in DOMAIN r.pte : Tables!Path(u) \subseteq r.tables
      BY <1>1, <1>3, <2>2 DEF IsWork, IsTable
    <3> QED
      BY <1>1, <2>2, <2>3, <3>1, <3>2, <3>3, <3>4 DEF IsWork, IsTable, Mapped
  <2>5. IsWork(r)
    BY <1>1, <2>1, <2>2, <2>4 DEF IsWork
  <2>6. Others(r) = (IF v < Tables!SHM_VA THEN Others(m) - 1 ELSE Others(m))
    <3>1. Own(r.pte) = IF v < Tables!SHM_VA THEN Own(m.pte) \cup {v} ELSE Own(m.pte)
      BY <2>3, <2>5, WorkCounts DEF Mapped
    <3>2. v \notin Own(m.pte)
      BY DEF Own, Mapped
    <3>3. /\ IsFiniteSet(Own(m.pte)) /\ Cardinality(Own(m.pte)) \in Nat
          /\ Cardinality(w.tables) \in Nat /\ w.used \in Int
      BY <1>1, WorkCounts DEF IsWork
    <3>4. Cardinality(Own(m.pte) \cup {v}) = Cardinality(Own(m.pte)) + 1
      BY <3>2, <3>3, FS_AddElement
    <3>5. Others(m) = w.used - (Cardinality(w.tables) + Cardinality(Own(m.pte)))
      BY <1>1 DEF Others
    <3>6. Others(r) = w.used - (Cardinality(w.tables) + Cardinality(Own(r.pte)))
      BY <2>2 DEF Others
    <3> QED
      BY <3>1, <3>3, <3>4, <3>5, <3>6
  <2>7. r.ok
    BY <1>3, <2>2
  <2> QED
    BY <1>1, <2>2, <2>3, <2>5, <2>6, <2>7 DEF r
<1> QED
  BY <1>2, <1>3, <1>1

\* The new page is freed when there is none for the page table.
LEMMA MapNewFacts ==
  ASSUME NEW m, IsWork(m), m.ok, NEW v, NEW e, IsEntry(v, e), v < Tables!SHM_VA,
         v \notin Mapped(m)
  PROVE  LET r == Tables!MapNew(m, v, e)
         IN /\ IsWork(r) /\ Others(r) = Others(m)
            /\ Mapped(r) = (IF r.ok THEN Mapped(m) \cup {v} ELSE Mapped(m))
<1> DEFINE r == Tables!MapNew(m, v, e)
           k == Tables!Kalloc(m)
           w == Tables!Mappages(k, v, e)
<1>1. /\ IsWork(k) /\ Others(k) = (IF k.ok THEN Others(m) + 1 ELSE Others(m))
      /\ k.pte = m.pte
  BY AllocFacts
<1>2. CASE ~k.ok
  <2>1. r = k
    BY <1>2 DEF Tables!MapNew, Tables!Then
  <2> HIDE DEF r, k
  <2> QED
    BY <1>1, <1>2, <2>1 DEF Mapped, r
<1>3. CASE k.ok
  <2>1. v \notin Mapped(k) /\ Mapped(k) = Mapped(m)
    BY <1>1 DEF Mapped
  <2>2. /\ IsWork(w)
        /\ w.ok => Mapped(w) = Mapped(k) \cup {v} /\ Others(w) = Others(k) - 1
        /\ ~w.ok => w.pte = k.pte /\ Others(w) = Others(k)
    <3> HIDE DEF k
    <3> QED
      BY <1>1, <2>1, MappagesFacts
  <2>3. r = IF w.ok THEN w ELSE Tables!Kfree(w, 1)
    BY <1>3 DEF Tables!MapNew, Tables!Then, Tables!OrUndo
  <2>4. Others(m) \in Int
    BY WorkCounts
  <2> HIDE DEF r, w, k
  <2>5. CASE w.ok
    BY <1>1, <1>3, <2>1, <2>2, <2>3, <2>4, <2>5 DEF r
  <2>6. CASE ~w.ok
    <3>1. /\ IsWork(r) /\ Others(r) = Others(w) - 1
          /\ r.pte = w.pte /\ r.ok = w.ok
      BY <2>2, <2>3, <2>6, FreeFacts
    <3> QED
      BY <1>1, <1>3, <2>1, <2>2, <2>4, <2>6, <3>1 DEF Mapped, r
  <2> QED
    BY <2>5, <2>6
<1> QED
  BY <1>2, <1>3

-------------------------------------------------------------------------------
(***************************************************************************)
(* Pages unmapped                                                          *)
(***************************************************************************)
\* Pages of the process are freed, those of the kernel and the shared one not.
LEMMA UnmapFacts ==
  ASSUME NEW m, IsWork(m), NEW pages, pages \subseteq Mapped(m), NEW do_free \in BOOLEAN,
         \A v \in pages : do_free <=> v < Tables!SHM_VA
  PROVE  LET r == Tables!Uvmunmap(m, pages, do_free)
         IN /\ IsWork(r) /\ Others(r) = Others(m)
            /\ Mapped(r) = Mapped(m) \ pages
            /\ r.ok = m.ok /\ r.tables = m.tables
<1> DEFINE r == Tables!Uvmunmap(m, pages, do_free)
           left == [v \in DOMAIN m.pte \ pages |-> m.pte[v]]
           freed == IF do_free THEN pages ELSE {}
           k == Tables!Kfree(m, Cardinality(freed))
<1>1. /\ IsFiniteSet(freed) /\ Cardinality(freed) \in Nat
      /\ freed = Own(m.pte) \cap pages
  <2>1. freed = Own(m.pte) \cap pages
    BY WorkCounts DEF Mapped
  <2>2. IsFiniteSet(freed)
    BY <2>1, WorkCounts, CountDifference, ZenonT(30)
  <2> QED
    BY <2>1, <2>2, FS_CardinalityType
<1>2. r = [Tables!PanicIf(pages # pages, k) EXCEPT !.pte = [v \in DOMAIN @ \ pages |-> @[v]]]
  <2>1. pages \cap DOMAIN m.pte = pages
    BY DEF Mapped
  <2>2. {v \in pages : do_free /\ m.pte[v].kind # "shared"} = freed
    BY DEF IsWork, IsTable, IsEntry, Mapped
  <2>3. Tables!Cardinality(freed) = Cardinality(freed)
    BY CountsAgree
  <2> HIDE DEF freed, k
  <2>4. r = [Tables!PanicIf(pages # pages, Tables!Kfree(m, Tables!Cardinality(freed)))
               EXCEPT !.pte = [v \in DOMAIN @ \ pages |-> @[v]]]
    BY <2>1, <2>2 DEF Tables!Uvmunmap
  <2> HIDE DEF r
  <2> QED
    BY <2>3, <2>4 DEF k
<1>3. /\ IsWork(k) /\ Others(k) = Others(m) - Cardinality(freed)
      /\ k.tables = m.tables /\ k.pte = m.pte /\ k.ok = m.ok
  <2> HIDE DEF freed
  <2> QED
    BY <1>1, FreeFacts
<1> HIDE DEF r, k, freed
<1>4. r = [tables |-> m.tables, pte |-> left, used |-> k.used, left |-> k.left,
           ok |-> m.ok, nomem |-> k.nomem, panic |-> FALSE, bytes |-> k.bytes]
  <2>1. PICK q : q = Tables!PanicIf(pages # pages, k)
    OBVIOUS
  <2>2. q = [tables |-> m.tables, pte |-> m.pte, used |-> k.used, left |-> k.left,
             ok |-> m.ok, nomem |-> k.nomem, panic |-> FALSE, bytes |-> k.bytes]
    BY <1>3, <2>1 DEF Tables!PanicIf, IsWork
  <2>3. r = [q EXCEPT !.pte = [v \in DOMAIN @ \ pages |-> @[v]]]
    BY <1>2, <2>1
  <2>4. q.pte = m.pte
    BY <2>2
  <2>5. r = [q EXCEPT !.pte = left]
    BY <2>3, <2>4
  <2> HIDE DEF left
  <2> QED
    BY ONLY <2>2, <2>5
<1>5. /\ r.tables = m.tables /\ r.pte = left /\ r.used = k.used /\ r.left = k.left
      /\ r.ok = m.ok /\ r.nomem = k.nomem /\ r.panic = FALSE /\ r.bytes = k.bytes
  BY <1>4
<1>6. IsWork(r)
  <2>1. IsTable(r)
    <3>1. IsFiniteSet(DOMAIN m.pte \ pages)
      BY CountDifference DEF IsWork, IsTable
    <3> QED
      BY <1>5, <3>1 DEF IsWork, IsTable
  <2> QED
    BY <1>3, <1>4, <1>5, <2>1 DEF IsWork
<1>7. Mapped(r) = Mapped(m) \ pages
  BY <1>5 DEF Mapped
<1>8. Others(r) = Others(m)
  <2>1. Own(r.pte) = Own(m.pte) \ pages
    BY <1>6, <1>7, WorkCounts DEF Mapped
  <2>2. /\ Cardinality(Own(r.pte)) = Cardinality(Own(m.pte)) - Cardinality(freed)
        /\ Cardinality(Own(m.pte)) \in Nat
    BY <1>1, <2>1, WorkCounts, CountDifference
  <2>3. Others(k) = k.used - (Cardinality(m.tables) + Cardinality(Own(m.pte)))
    BY <1>3 DEF Others
  <2>4. Others(r) = k.used - (Cardinality(m.tables) + Cardinality(Own(r.pte)))
    BY <1>5 DEF Others
  <2>5. k.used \in Int /\ Cardinality(m.tables) \in Nat /\ Others(m) \in Int
    BY <1>3, WorkCounts DEF IsWork
  <2> QED
    BY <1>1, <1>3, <2>2, <2>3, <2>4, <2>5
<1> QED
  BY <1>5, <1>6, <1>7, <1>8 DEF r

\* A range of heap pages, in the kernel of Assignment 4 one without holes.
LEMMA UnmapRangeFacts ==
  ASSUME NEW m, IsWork(m), NEW pages, pages \subseteq PagesBelow(Tables!SHM_VA),
         kernel # "A7" => pages \subseteq Mapped(m)
  PROVE  LET r == Tables!UnmapRange(m, pages)
         IN /\ IsWork(r) /\ Others(r) = Others(m)
            /\ Mapped(r) = Mapped(m) \ pages
            /\ r.ok = m.ok /\ r.tables = m.tables
<1> DEFINE r == Tables!UnmapRange(m, pages)
<1>1. PICK here : here = IF kernel = "A7" THEN pages \cap DOMAIN m.pte ELSE pages
  OBVIOUS
<1>2. r = Tables!Uvmunmap(m, here, TRUE)
  BY <1>1 DEF Tables!UnmapRange
<1>3. here \subseteq Mapped(m) /\ Mapped(m) \ here = Mapped(m) \ pages
  BY <1>1 DEF Mapped
<1>4. Tables!SHM_VA \in Int
  BY TablesAssumption DEF Tables!SHM_VA
<1>5. \A v \in here : TRUE <=> v < Tables!SHM_VA
  BY <1>1, <1>4 DEF PagesBelow
<1> HIDE DEF r
<1>6. /\ IsWork(r) /\ Others(r) = Others(m) /\ Mapped(r) = Mapped(m) \ here
      /\ r.ok = m.ok /\ r.tables = m.tables
  BY <1>2, <1>3, <1>5, UnmapFacts
<1> QED
  BY <1>3, <1>6 DEF r

LEMMA PageNumbers ==
  /\ Tables!MAXVA \in Nat /\ Tables!SHM_VA \in Int
  /\ Tables!TRAMPOLINE = Tables!SHM_VA + 2 /\ Tables!TRAPFRAME = Tables!SHM_VA + 1
  /\ Tables!MAXVA = Tables!SHM_VA + 3
  BY TablesAssumption DEF Tables!SHM_VA, Tables!TRAMPOLINE, Tables!TRAPFRAME

LEMMA FreeEmptyTablesFacts ==
  ASSUME NEW m, IsWork(m)
  PROVE  LET r == Tables!FreeEmptyTables(m)
         IN /\ IsWork(r) /\ Others(r) = Others(m)
            /\ r.pte = m.pte /\ r.ok = m.ok
<1> DEFINE r == Tables!FreeEmptyTables(m)
           kept == {<<>>} \cup UNION {Tables!Path(v) : v \in DOMAIN m.pte}
           k == Tables!Kfree(m, Cardinality(m.tables \ kept))
<1>1. r = [k EXCEPT !.tables = @ \cap kept]
  <2> HIDE DEF k
  <2>1. r = [Tables!Kfree(m, Tables!Cardinality(m.tables \ kept)) EXCEPT
               !.tables = @ \cap kept]
    BY DEF Tables!FreeEmptyTables
  <2>2. Tables!Cardinality(m.tables \ kept) = Cardinality(m.tables \ kept)
    BY CountsAgree
  <2> HIDE DEF kept, r
  <2> QED
    BY <2>1, <2>2 DEF k
<1>2. \A v \in DOMAIN m.pte : Tables!Path(v) \subseteq kept
  OBVIOUS
<1> HIDE DEF kept, r
<1>3. /\ Cardinality(m.tables \ kept) = Cardinality(m.tables) - Cardinality(m.tables \cap kept)
      /\ IsFiniteSet(m.tables \cap kept) /\ Cardinality(m.tables \ kept) \in Nat
      /\ Cardinality(m.tables) \in Nat /\ Cardinality(m.tables \cap kept) \in Nat
  BY WorkCounts, CountDifference
<1>4. /\ IsWork(k) /\ Others(k) = Others(m) - Cardinality(m.tables \ kept)
      /\ k.tables = m.tables /\ k.pte = m.pte /\ k.ok = m.ok
  <2>1. PICK n \in Int : n = Cardinality(m.tables \ kept)
    BY <1>3
  <2>2. /\ IsWork(Tables!Kfree(m, n)) /\ Others(Tables!Kfree(m, n)) = Others(m) - n
        /\ Tables!Kfree(m, n).tables = m.tables /\ Tables!Kfree(m, n).pte = m.pte
        /\ Tables!Kfree(m, n).ok = m.ok
    BY FreeFacts
  <2> QED
    BY <2>1, <2>2
<1> HIDE DEF k
<1>5. r = [tables |-> m.tables \cap kept, pte |-> m.pte, used |-> k.used, left |-> k.left,
           ok |-> m.ok, nomem |-> k.nomem, panic |-> k.panic, bytes |-> k.bytes]
  BY <1>1, <1>4 DEF IsWork
<1>6. /\ r.tables = m.tables \cap kept /\ r.pte = m.pte /\ r.used = k.used
      /\ r.left = k.left /\ r.ok = m.ok /\ r.nomem = k.nomem /\ r.panic = k.panic
      /\ r.bytes = k.bytes
  BY <1>5
<1>7. IsWork(r)
  <2>1. IsTable(r)
    BY <1>2, <1>3, <1>6 DEF IsWork, IsTable
  <2> QED
    BY <1>4, <1>5, <1>6, <2>1 DEF IsWork
<1>8. Others(r) = Others(m)
  <2>1. /\ Others(k) = k.used - (Cardinality(m.tables) + Cardinality(Own(m.pte)))
        /\ Others(r) = k.used - (Cardinality(m.tables \cap kept) + Cardinality(Own(m.pte)))
    BY <1>4, <1>6 DEF Others
  <2>2. k.used \in Int /\ Cardinality(Own(m.pte)) \in Nat /\ Others(m) \in Int
    BY <1>4, WorkCounts DEF IsWork
  <2> QED
    BY <1>3, <1>4, <2>1, <2>2
<1> QED
  BY <1>6, <1>7, <1>8 DEF r

\* The pages from newsz up to oldsz; nothing if the process does not shrink.
LEMMA UvmdeallocFacts ==
  ASSUME NEW m, IsWork(m), NEW oldsz \in Nat, NEW newsz \in Nat,
         Tables!RoundUp(oldsz) <= Tables!SHM_VA,
         kernel # "A7" =>
           Tables!RoundUp(newsz) .. Tables!RoundUp(oldsz) - 1 \subseteq Mapped(m)
  PROVE  LET r == Tables!Uvmdealloc(m, oldsz, newsz)
         IN /\ IsWork(r) /\ Others(r) = Others(m)
            /\ Mapped(r) = Mapped(m) \ (Tables!RoundUp(newsz) .. Tables!RoundUp(oldsz) - 1)
            /\ r.ok = m.ok
<1> DEFINE r == Tables!Uvmdealloc(m, oldsz, newsz)
           gone == Tables!RoundUp(newsz) .. Tables!RoundUp(oldsz) - 1
           u == Tables!UnmapRange(m, gone)
<1>1. r = IF gone = {} THEN m ELSE IF kernel = "A7" THEN Tables!FreeEmptyTables(u) ELSE u
  BY DEF Tables!Uvmdealloc
<1>2. gone \subseteq PagesBelow(Tables!SHM_VA)
  BY PageNumbers, AddressFacts DEF PagesBelow
<1>3. kernel # "A7" => gone \subseteq Mapped(m)
  OBVIOUS
<1> HIDE DEF gone, r
<1>4. /\ IsWork(u) /\ Others(u) = Others(m) /\ Mapped(u) = Mapped(m) \ gone
      /\ u.ok = m.ok
  BY <1>2, <1>3, UnmapRangeFacts
<1> HIDE DEF u
<1>5. /\ IsWork(r) /\ Others(r) = Others(m) /\ Mapped(r) = Mapped(m) \ gone
      /\ r.ok = m.ok
  <2>1. CASE gone = {}
    BY <1>1, <2>1
  <2>2. CASE gone # {} /\ kernel = "A7"
    <3>1. r = Tables!FreeEmptyTables(u)
      BY <1>1, <2>2
    <3>2. IsWork(r) /\ Others(r) = Others(u) /\ r.pte = u.pte /\ r.ok = u.ok
      BY <1>4, <3>1, FreeEmptyTablesFacts
    <3> QED
      BY <1>4, <3>2 DEF Mapped
  <2>3. CASE gone # {} /\ kernel # "A7"
    BY <1>1, <1>4, <2>3
  <2> QED
    BY <2>1, <2>2, <2>3
<1> QED
  BY <1>5 DEF r, gone

LEMMA FreewalkFacts ==
  ASSUME NEW m, IsWork(m), Mapped(m) = {}
  PROVE  LET r == Tables!Freewalk(m)
         IN /\ IsWork(r) /\ Others(r) = Others(m) /\ IsEmpty(r) /\ r.ok = m.ok
<1> DEFINE r == Tables!Freewalk(m)
           k == Tables!Kfree(m, Cardinality(m.tables))
<1>1. m.pte = <<>>
  BY DEF IsWork, IsTable, Mapped
<1>2. r = [Tables!PanicIf(m.pte # <<>>, k) EXCEPT !.tables = {}]
  <2>1. Tables!Cardinality(m.tables) = Cardinality(m.tables)
    BY CountsAgree
  <2> HIDE DEF k
  <2>2. r = [Tables!PanicIf(m.pte # <<>>, Tables!Kfree(m, Tables!Cardinality(m.tables)))
               EXCEPT !.tables = {}]
    BY DEF Tables!Freewalk
  <2> HIDE DEF r
  <2> QED
    BY <2>1, <2>2 DEF k
<1>3. Cardinality(m.tables) \in Nat
  BY WorkCounts
<1> HIDE DEF r
<1>4. /\ IsWork(k) /\ Others(k) = Others(m) - Cardinality(m.tables)
      /\ k.tables = m.tables /\ k.pte = m.pte /\ k.ok = m.ok
  BY <1>3, FreeFacts
<1> HIDE DEF k
<1>5. r = [tables |-> {}, pte |-> <<>>, used |-> k.used, left |-> k.left,
           ok |-> m.ok, nomem |-> k.nomem, panic |-> FALSE, bytes |-> k.bytes]
  <2>1. PICK q : q = Tables!PanicIf(m.pte # <<>>, k)
    OBVIOUS
  <2>2. q = [tables |-> m.tables, pte |-> <<>>, used |-> k.used, left |-> k.left,
             ok |-> m.ok, nomem |-> k.nomem, panic |-> FALSE, bytes |-> k.bytes]
    BY <1>1, <1>4, <2>1 DEF Tables!PanicIf, IsWork
  <2>3. r = [q EXCEPT !.tables = {}]
    BY <1>2, <2>1
  <2> QED
    BY ONLY <2>2, <2>3
<1>6. /\ r.tables = {} /\ r.pte = <<>> /\ r.used = k.used /\ r.left = k.left
      /\ r.ok = m.ok /\ r.nomem = k.nomem /\ r.panic = FALSE /\ r.bytes = k.bytes
  BY <1>5
<1>7. IsWork(r)
  <2>1. IsFiniteSet({}) /\ DOMAIN <<>> = {} /\ <<>> = [v \in {} |-> <<>>[v]]
    BY FS_EmptySet
  <2>2. IsTable(r)
    BY <1>6, <2>1 DEF IsTable
  <2> QED
    BY <1>4, <1>5, <1>6, <2>2 DEF IsWork
<1>8. Others(r) = Others(m)
  <2>1. Own(r.pte) = {} /\ Own(m.pte) = {}
    BY <1>1, <1>6 DEF Own
  <2>2. Cardinality({}) = 0
    BY FS_EmptySet
  <2>3. /\ Others(k) = k.used - (Cardinality(m.tables) + Cardinality({}))
        /\ Others(r) = k.used - (Cardinality({}) + Cardinality({}))
    BY <1>4, <1>6, <2>1 DEF Others
  <2>4. k.used \in Int /\ Others(m) \in Int
    BY <1>4, WorkCounts DEF IsWork
  <2> QED
    BY <1>3, <1>4, <2>2, <2>3, <2>4
<1> QED
  BY <1>6, <1>7, <1>8 DEF r, IsEmpty

\* freewalk() finds no page if the size covers all that is left.
LEMMA UvmfreeFacts ==
  ASSUME NEW m, IsWork(m), NEW s \in Nat, Tables!RoundUp(s) <= Tables!SHM_VA,
         Mapped(m) \subseteq HeapPages(s),
         kernel # "A7" => HeapPages(s) \subseteq Mapped(m)
  PROVE  LET r == Tables!Uvmfree(m, s)
         IN /\ IsWork(r) /\ Others(r) = Others(m) /\ IsEmpty(r) /\ r.ok = m.ok
<1> DEFINE r == Tables!Uvmfree(m, s)
           u == Tables!UnmapRange(m, HeapPages(s))
<1>1. r = Tables!Freewalk(u)
  BY DEF Tables!Uvmfree, HeapPages, PagesBelow
<1>2. HeapPages(s) \subseteq PagesBelow(Tables!SHM_VA)
  BY PageNumbers, AddressFacts DEF HeapPages, PagesBelow
<1> HIDE DEF r
<1>3. /\ IsWork(u) /\ Others(u) = Others(m) /\ Mapped(u) = {} /\ u.ok = m.ok
  BY <1>2, UnmapRangeFacts
<1> HIDE DEF u
<1>4. IsWork(r) /\ Others(r) = Others(u) /\ IsEmpty(r) /\ r.ok = u.ok
  BY <1>1, <1>3, FreewalkFacts
<1> QED
  BY <1>3, <1>4 DEF r

\* What proc_freepagetable() and freeproc() find: the kernel's two pages and,
\* below, pages of the heap.
LEMMA FreepagetableFacts ==
  ASSUME NEW m, IsWork(m), NEW s, IsSpace(m, s)
  PROVE  LET r == Tables!ProcFreepagetable(m, s)
         IN /\ IsWork(r) /\ Others(r) = Others(m) /\ IsEmpty(r) /\ r.ok = m.ok
<1> DEFINE r == Tables!ProcFreepagetable(m, s)
           u == Tables!Uvmunmap(m, KernelPages, FALSE)
           w == Tables!Uvmunmap(u, {Tables!SHM_VA} \cap DOMAIN u.pte, FALSE)
<1>1. r = Tables!Uvmfree(w, s)
  BY DEF Tables!ProcFreepagetable, KernelPages
<1>2. \A v \in KernelPages \cup {Tables!SHM_VA} : FALSE <=> v < Tables!SHM_VA
  BY PageNumbers DEF KernelPages
<1> HIDE DEF r
<1>3. /\ IsWork(u) /\ Others(u) = Others(m) /\ Mapped(u) = Mapped(m) \ KernelPages
      /\ u.ok = m.ok
  <2>1. KernelPages \subseteq Mapped(m)
    BY DEF IsSpace, Mapped
  <2> QED
    BY <1>2, <2>1, UnmapFacts
<1> HIDE DEF u
<1>4. /\ IsWork(w) /\ Others(w) = Others(u) /\ Mapped(w) = Mapped(u) \ {Tables!SHM_VA}
      /\ w.ok = u.ok
  <2>1. PICK shm : shm = {Tables!SHM_VA} \cap DOMAIN u.pte
    OBVIOUS
  <2>2. shm \subseteq Mapped(u) /\ Mapped(u) \ shm = Mapped(u) \ {Tables!SHM_VA}
    BY <2>1 DEF Mapped
  <2>3. /\ IsWork(w) /\ Others(w) = Others(u) /\ Mapped(w) = Mapped(u) \ shm
        /\ w.ok = u.ok
    BY <1>2, <1>3, <2>1, <2>2, UnmapFacts
  <2> QED
    BY <2>2, <2>3
<1> HIDE DEF w
<1>5. /\ s \in Nat /\ Tables!RoundUp(s) <= Tables!SHM_VA
      /\ Mapped(w) \subseteq HeapPages(s)
      /\ kernel # "A7" => HeapPages(s) \subseteq Mapped(w)
  <2>1. \A v \in HeapPages(s) : v \notin KernelPages \cup {Tables!SHM_VA}
    BY PageNumbers, AddressFacts DEF HeapPages, PagesBelow, KernelPages, IsSpace
  <2> QED
    BY <1>3, <1>4, <2>1 DEF IsSpace, Mapped
<1>6. IsWork(r) /\ Others(r) = Others(w) /\ IsEmpty(r) /\ r.ok = w.ok
  BY <1>1, <1>4, <1>5, UvmfreeFacts
<1> QED
  BY <1>3, <1>4, <1>6 DEF r

LEMMA FreeprocFacts ==
  ASSUME NEW m, IsWork(m), NEW s, IsSpace(m, s)
  PROVE  LET r == Tables!Freeproc(m, s)
         IN /\ IsWork(r) /\ Others(r) = Others(m) - 1 /\ IsEmpty(r) /\ r.ok = m.ok
<1> DEFINE r == Tables!Freeproc(m, s)
           k == Tables!Kfree(m, 1)
<1>1. r = Tables!ProcFreepagetable(k, s)
  BY DEF Tables!Freeproc
<1> HIDE DEF r
<1>2. /\ IsWork(k) /\ Others(k) = Others(m) - 1
      /\ k.tables = m.tables /\ k.pte = m.pte /\ k.ok = m.ok
  BY FreeFacts
<1> HIDE DEF k
<1>3. IsSpace(k, s)
  BY <1>2 DEF IsSpace, IsTable
<1>4. IsWork(r) /\ Others(r) = Others(k) /\ IsEmpty(r) /\ r.ok = k.ok
  BY <1>1, <1>2, <1>3, FreepagetableFacts
<1> QED
  BY <1>2, <1>4 DEF r

-------------------------------------------------------------------------------
(***************************************************************************)
(* What stays                                                              *)
(***************************************************************************)
\* The entries that stay are as before, and so are the bytes that were read.
Keeps(m, r) ==
  r.bytes = m.bytes /\ \A v \in Mapped(m) \cap Mapped(r) : r.pte[v] = m.pte[v]

\* A call that fails, if it has, for want of a page only.
OnlyShort(m) == m.nomem \in BOOLEAN /\ (m.nomem <=> ~m.ok)

LEMMA FreeKeeps ==
  ASSUME NEW m, IsWork(m), NEW n
  PROVE  LET r == Tables!Kfree(m, n)
         IN Keeps(m, r) /\ r.nomem = m.nomem /\ r.ok = m.ok /\ r.pte = m.pte
<1>1. PICK r : r = Tables!Kfree(m, n)
  OBVIOUS
<1>2. r = [tables |-> m.tables, pte |-> m.pte, used |-> m.used - n, left |-> m.left,
           ok |-> m.ok, nomem |-> m.nomem, panic |-> m.panic, bytes |-> m.bytes]
  BY <1>1 DEF IsWork, Tables!Kfree
<1>3. r.pte = m.pte /\ r.ok = m.ok /\ r.nomem = m.nomem /\ r.bytes = m.bytes
  BY <1>2
<1> QED
  BY <1>1, <1>3 DEF Keeps

LEMMA AllocKeeps ==
  ASSUME NEW m, IsWork(m), m.ok, OnlyShort(m)
  PROVE  LET r == Tables!Kalloc(m)
         IN Keeps(m, r) /\ OnlyShort(r) /\ r.pte = m.pte
<1>1. PICK r : r = Tables!Kalloc(m)
  OBVIOUS
<1>2. CASE m.left = 0
  <2>1. r = [tables |-> m.tables, pte |-> m.pte, used |-> m.used, left |-> m.left,
             ok |-> FALSE, nomem |-> TRUE, panic |-> m.panic, bytes |-> m.bytes]
    BY <1>1, <1>2 DEF IsWork, Tables!Kalloc
  <2>2. r.pte = m.pte /\ r.ok = FALSE /\ r.nomem = TRUE /\ r.bytes = m.bytes
    BY <2>1
  <2> QED
    BY <1>1, <2>2 DEF Keeps, OnlyShort
<1>3. CASE m.left # 0
  <2>1. r = [tables |-> m.tables, pte |-> m.pte, used |-> m.used + 1,
             left |-> m.left - 1, ok |-> m.ok, nomem |-> m.nomem,
             panic |-> m.panic, bytes |-> m.bytes]
    BY <1>1, <1>3 DEF IsWork, Tables!Kalloc
  <2>2. r.pte = m.pte /\ r.ok = m.ok /\ r.nomem = m.nomem /\ r.bytes = m.bytes
    BY <2>1
  <2> QED
    BY <1>1, <2>2 DEF Keeps, OnlyShort
<1> QED
  BY <1>2, <1>3

\* walk() fails only for want of a page, and not where a page is missing nowhere.
LEMMA WalkKeeps ==
  ASSUME NEW m, IsWork(m), NEW v
  PROVE  LET r == Tables!Walk(m, v)
         IN /\ Keeps(m, r) /\ OnlyShort(r) /\ r.pte = m.pte
            /\ Tables!Path(v) \subseteq m.tables => r.ok
<1> DEFINE missing == Tables!Path(v) \ m.tables
           got == {t \in missing :
                     Tables!Cardinality({s \in missing : Len(s) <= Len(t)}) <= m.left}
<1>1. PICK r : r = Tables!Walk(m, v)
  OBVIOUS
<1>2. PICK o, e : o = (got = missing) /\ e = (got # missing)
  OBVIOUS
<1>3. missing = {} => got = missing
  OBVIOUS
<1>4. r = [m EXCEPT !.tables = @ \cup got,
                    !.used = @ + Tables!Cardinality(got),
                    !.left = @ - Tables!Cardinality(got),
                    !.ok = o, !.nomem = e]
  BY <1>1, <1>2 DEF Tables!Walk
<1>5. o \in BOOLEAN /\ e \in BOOLEAN /\ (e <=> ~o)
  BY <1>2
<1>6. Tables!Path(v) \subseteq m.tables => missing = {}
  OBVIOUS
<1>7. Tables!Path(v) \subseteq m.tables => o
  BY <1>2, <1>3, <1>6
<1> HIDE DEF got, missing
<1>8. r.pte = m.pte /\ r.ok = o /\ r.nomem = e /\ r.bytes = m.bytes
  BY <1>4 DEF IsWork
<1> QED
  BY <1>1, <1>5, <1>7, <1>8 DEF Keeps, OnlyShort

LEMMA MappagesKeeps ==
  ASSUME NEW m, IsWork(m), NEW v, NEW e, IsEntry(v, e), v \notin Mapped(m)
  PROVE  LET r == Tables!Mappages(m, v, e)
         IN /\ Keeps(m, r) /\ OnlyShort(r)
            /\ r.ok => r.pte[v] = e
            /\ Tables!Path(v) \subseteq m.tables => r.ok
<1>1. PICK w : w = Tables!Walk(m, v)
  OBVIOUS
<1>2. /\ IsWork(w) /\ Keeps(m, w) /\ OnlyShort(w) /\ w.pte = m.pte
      /\ Tables!Path(v) \subseteq m.tables => w.ok
  BY <1>1, WalkKeeps, WalkFacts
<1>3. PICK r : r = Tables!Mappages(m, v, e)
  OBVIOUS
<1>4. CASE ~w.ok
  <2>1. r = w
    BY <1>1, <1>3, <1>4 DEF Tables!Mappages, Tables!Then
  <2> QED
    BY <1>2, <1>3, <1>4, <2>1
<1>5. CASE w.ok
  <2>1. PICK q : q = Tables!PanicIf(v \in DOMAIN w.pte, w)
    OBVIOUS
  <2>2. q = [tables |-> w.tables, pte |-> w.pte, used |-> w.used, left |-> w.left,
             ok |-> w.ok, nomem |-> w.nomem, panic |-> FALSE, bytes |-> w.bytes]
    BY <1>2, <2>1 DEF Tables!PanicIf, IsWork, Mapped
  <2>3. q.pte = w.pte
    BY <2>2
  <2>4. r = [q EXCEPT !.pte = [u \in DOMAIN @ \cup {v} |-> IF u = v THEN e ELSE @[u]]]
    BY <1>1, <1>3, <1>5, <2>1 DEF Tables!Mappages, Tables!Then
  <2>5. PICK new : new = [u \in DOMAIN w.pte \cup {v} |-> IF u = v THEN e ELSE w.pte[u]]
    OBVIOUS
  <2>6. r = [q EXCEPT !.pte = new]
    BY <2>3, <2>4, <2>5
  <2>7. r.pte = new /\ r.ok = w.ok /\ r.nomem = w.nomem /\ r.bytes = w.bytes
    BY ONLY <2>2, <2>6
  <2>8. new[v] = e /\ \A u \in Mapped(m) : new[u] = m.pte[u]
    BY <1>2, <2>5 DEF Mapped
  <2> QED
    BY <1>2, <1>3, <1>5, <2>7, <2>8 DEF Keeps, OnlyShort, Mapped
<1> QED
  BY <1>4, <1>5

LEMMA MapNewKeeps ==
  ASSUME NEW m, IsWork(m), m.ok, OnlyShort(m), NEW v, NEW e, IsEntry(v, e),
         v < Tables!SHM_VA, v \notin Mapped(m)
  PROVE  LET r == Tables!MapNew(m, v, e)
         IN Keeps(m, r) /\ OnlyShort(r) /\ (r.ok => r.pte[v] = e)
<1>1. PICK k, w, z : /\ k = Tables!Kalloc(m) /\ w = Tables!Mappages(k, v, e)
                     /\ z = Tables!Kfree(w, 1)
  OBVIOUS
<1>2. IsWork(k) /\ Keeps(m, k) /\ OnlyShort(k) /\ k.pte = m.pte
  BY <1>1, AllocFacts, AllocKeeps
<1>3. v \notin Mapped(k) /\ Mapped(k) = Mapped(m)
  BY <1>2 DEF Mapped
<1>4. /\ IsWork(w) /\ Keeps(k, w) /\ OnlyShort(w)
      /\ w.ok => w.pte[v] = e
      /\ Mapped(k) \subseteq Mapped(w)
  BY <1>1, <1>2, <1>3, MappagesKeeps, MappagesFacts DEF Mapped
<1>5. Keeps(w, z) /\ z.nomem = w.nomem /\ z.ok = w.ok /\ z.pte = w.pte
  BY <1>1, <1>4, FreeKeeps
<1>6. PICK r : r = Tables!MapNew(m, v, e)
  OBVIOUS
<1>7. r = IF ~k.ok THEN k ELSE IF w.ok THEN w ELSE z
  BY <1>1, <1>6 DEF Tables!MapNew, Tables!Then, Tables!OrUndo
<1>8. Keeps(m, w) /\ Keeps(m, z)
  BY <1>2, <1>3, <1>4, <1>5 DEF Keeps, Mapped
<1> QED
  BY <1>2, <1>4, <1>5, <1>6, <1>7, <1>8 DEF OnlyShort

\* Freeing and unmapping pages: the entries that are left stay, and so does what
\* the call has to say.
Leaves(m, r) == Keeps(m, r) /\ r.nomem = m.nomem /\ r.ok = m.ok

LEMMA LeavesTwice ==
  ASSUME NEW m, NEW q, NEW r, Leaves(m, q), Leaves(q, r), Mapped(r) \subseteq Mapped(q)
  PROVE  Leaves(m, r)
  BY DEF Leaves, Keeps

LEMMA UnmapKeeps ==
  ASSUME NEW m, IsWork(m), NEW pages, NEW do_free
  PROVE  LET r == Tables!Uvmunmap(m, pages, do_free)
         IN Leaves(m, r) /\ Mapped(r) = Mapped(m) \ pages
<1> DEFINE here == pages \cap DOMAIN m.pte
           freed == {v \in here : do_free /\ m.pte[v].kind # "shared"}
<1>1. PICK k : k = Tables!Kfree(m, Tables!Cardinality(freed))
  OBVIOUS
<1>2. PICK q : q = Tables!PanicIf(here # pages, k)
  OBVIOUS
<1>3. PICK r : r = Tables!Uvmunmap(m, pages, do_free)
  OBVIOUS
<1>4. r = [q EXCEPT !.pte = [v \in DOMAIN @ \ pages |-> @[v]]]
  BY <1>1, <1>2, <1>3 DEF Tables!Uvmunmap
<1>5. k = [tables |-> m.tables, pte |-> m.pte, used |-> k.used, left |-> m.left,
           ok |-> m.ok, nomem |-> m.nomem, panic |-> m.panic, bytes |-> m.bytes]
  BY <1>1 DEF IsWork, Tables!Kfree
<1> HIDE DEF here, freed
<1>6. q = [tables |-> m.tables, pte |-> m.pte, used |-> k.used, left |-> m.left,
           ok |-> m.ok, nomem |-> m.nomem, panic |-> q.panic, bytes |-> m.bytes]
  <2>1. PICK b : b = (k.panic \/ (here # pages))
    OBVIOUS
  <2>2. q = [k EXCEPT !.panic = b]
    BY <1>2, <2>1 DEF Tables!PanicIf
  <2> QED
    BY <1>5, <2>2
<1>7. PICK new : new = [v \in DOMAIN m.pte \ pages |-> m.pte[v]]
  OBVIOUS
<1>8. q.pte = m.pte
  BY <1>6
<1>9. r = [q EXCEPT !.pte = new]
  BY <1>4, <1>7, <1>8
<1>10. r.pte = new /\ r.ok = m.ok /\ r.nomem = m.nomem /\ r.bytes = m.bytes
  BY ONLY <1>6, <1>9
<1> QED
  BY <1>3, <1>7, <1>10 DEF Leaves, Keeps, Mapped

LEMMA UnmapRangeKeeps ==
  ASSUME NEW m, IsWork(m), NEW pages
  PROVE  Leaves(m, Tables!UnmapRange(m, pages))
<1>1. PICK here : here = IF kernel = "A7" THEN pages \cap DOMAIN m.pte ELSE pages
  OBVIOUS
<1>2. PICK yes \in BOOLEAN : yes = TRUE
  OBVIOUS
<1>3. Tables!UnmapRange(m, pages) = Tables!Uvmunmap(m, here, yes)
  BY <1>1, <1>2 DEF Tables!UnmapRange
<1> QED
  BY <1>3, UnmapKeeps

LEMMA FreeEmptyTablesKeeps ==
  ASSUME NEW m, IsWork(m)
  PROVE  LET r == Tables!FreeEmptyTables(m)
         IN Leaves(m, r) /\ r.pte = m.pte
<1> DEFINE kept == {<<>>} \cup UNION {Tables!Path(v) : v \in DOMAIN m.pte}
<1>1. PICK k : k = Tables!Kfree(m, Tables!Cardinality(m.tables \ kept))
  OBVIOUS
<1>2. PICK r : r = Tables!FreeEmptyTables(m)
  OBVIOUS
<1>3. r = [k EXCEPT !.tables = @ \cap kept]
  BY <1>1, <1>2 DEF Tables!FreeEmptyTables
<1>4. k = [tables |-> m.tables, pte |-> m.pte, used |-> k.used, left |-> m.left,
           ok |-> m.ok, nomem |-> m.nomem, panic |-> m.panic, bytes |-> m.bytes]
  BY <1>1 DEF IsWork, Tables!Kfree
<1> HIDE DEF kept
<1>5. r.pte = m.pte /\ r.ok = m.ok /\ r.nomem = m.nomem /\ r.bytes = m.bytes
  BY ONLY <1>3, <1>4
<1> QED
  BY <1>2, <1>5 DEF Leaves, Keeps

LEMMA UvmdeallocKeeps ==
  ASSUME NEW m, IsWork(m), NEW oldsz \in Nat, NEW newsz \in Nat,
         Tables!RoundUp(oldsz) <= Tables!SHM_VA,
         kernel # "A7" =>
           Tables!RoundUp(newsz) .. Tables!RoundUp(oldsz) - 1 \subseteq Mapped(m)
  PROVE  Leaves(m, Tables!Uvmdealloc(m, oldsz, newsz))
<1>1. PICK gone : gone = Tables!RoundUp(newsz) .. Tables!RoundUp(oldsz) - 1
  OBVIOUS
<1>2. PICK u : u = Tables!UnmapRange(m, gone)
  OBVIOUS
<1>3. gone \subseteq PagesBelow(Tables!SHM_VA)
  <2>1. Tables!RoundUp(newsz) \in Nat /\ Tables!RoundUp(oldsz) \in Nat
    BY AddressFacts
  <2> QED
    BY <1>1, <2>1, PageNumbers DEF PagesBelow
<1>4. IsWork(u) /\ Leaves(m, u)
  BY <1>1, <1>2, <1>3, UnmapRangeFacts, UnmapRangeKeeps
<1>5. Leaves(m, Tables!FreeEmptyTables(u))
  BY <1>4, FreeEmptyTablesKeeps, LeavesTwice DEF Mapped
<1>6. Leaves(m, m)
  BY DEF Leaves, Keeps
<1> QED
  BY <1>1, <1>2, <1>4, <1>5, <1>6 DEF Tables!Uvmdealloc

\* Of what is freed whole only the bytes read and the outcome are left.
LEMMA FreewalkKeeps ==
  ASSUME NEW m, IsWork(m)
  PROVE  Leaves(m, Tables!Freewalk(m))
<1>1. PICK k : k = Tables!Kfree(m, Tables!Cardinality(m.tables))
  OBVIOUS
<1>2. PICK q : q = Tables!PanicIf(m.pte # <<>>, k)
  OBVIOUS
<1>3. PICK r : r = Tables!Freewalk(m)
  OBVIOUS
<1>4. r = [q EXCEPT !.tables = {}]
  BY <1>1, <1>2, <1>3 DEF Tables!Freewalk
<1>5. k = [tables |-> m.tables, pte |-> m.pte, used |-> k.used, left |-> m.left,
           ok |-> m.ok, nomem |-> m.nomem, panic |-> m.panic, bytes |-> m.bytes]
  BY <1>1 DEF IsWork, Tables!Kfree
<1>6. q = [tables |-> m.tables, pte |-> m.pte, used |-> k.used, left |-> m.left,
           ok |-> m.ok, nomem |-> m.nomem, panic |-> q.panic, bytes |-> m.bytes]
  <2>1. PICK b : b = (k.panic \/ (m.pte # <<>>))
    OBVIOUS
  <2>2. q = [k EXCEPT !.panic = b]
    BY <1>2, <2>1 DEF Tables!PanicIf
  <2> QED
    BY <1>5, <2>2
<1>7. r.pte = m.pte /\ r.ok = m.ok /\ r.nomem = m.nomem /\ r.bytes = m.bytes
  BY ONLY <1>4, <1>6
<1> QED
  BY <1>3, <1>7 DEF Leaves, Keeps

LEMMA UvmfreeKeeps ==
  ASSUME NEW m, IsWork(m), NEW s \in Nat, Tables!RoundUp(s) <= Tables!SHM_VA,
         kernel # "A7" => HeapPages(s) \subseteq Mapped(m)
  PROVE  LET r == Tables!Uvmfree(m, s) IN r.bytes = m.bytes /\ r.nomem = m.nomem
<1>1. PICK u : u = Tables!UnmapRange(m, HeapPages(s))
  OBVIOUS
<1>2. Tables!Uvmfree(m, s) = Tables!Freewalk(u)
  BY <1>1 DEF Tables!Uvmfree, HeapPages, PagesBelow
<1>3. HeapPages(s) \subseteq PagesBelow(Tables!SHM_VA)
  BY PageNumbers, AddressFacts DEF HeapPages, PagesBelow
<1>4. IsWork(u) /\ Leaves(m, u)
  BY <1>1, <1>3, UnmapRangeFacts, UnmapRangeKeeps
<1> QED
  BY <1>2, <1>4, FreewalkKeeps DEF Leaves, Keeps

LEMMA FreepagetableKeeps ==
  ASSUME NEW m, IsWork(m), NEW s, IsSpace(m, s)
  PROVE  LET r == Tables!ProcFreepagetable(m, s)
         IN r.bytes = m.bytes /\ r.nomem = m.nomem
<1>1. PICK u : u = Tables!Uvmunmap(m, KernelPages, FALSE)
  OBVIOUS
<1>2. PICK shm : shm = {Tables!SHM_VA} \cap DOMAIN u.pte
  OBVIOUS
<1>3. PICK w : w = Tables!Uvmunmap(u, shm, FALSE)
  OBVIOUS
<1>4. Tables!ProcFreepagetable(m, s) = Tables!Uvmfree(w, s)
  BY <1>1, <1>2, <1>3 DEF Tables!ProcFreepagetable, KernelPages
<1>5. \A v \in KernelPages \cup {Tables!SHM_VA} : FALSE <=> v < Tables!SHM_VA
  BY PageNumbers DEF KernelPages
<1>6. IsWork(u) /\ Leaves(m, u) /\ Mapped(u) = Mapped(m) \ KernelPages
  <2>1. KernelPages \subseteq Mapped(m)
    BY DEF IsSpace, Mapped
  <2> QED
    BY <1>1, <1>5, <2>1, UnmapFacts, UnmapKeeps
<1>7. IsWork(w) /\ Leaves(u, w) /\ Mapped(w) = Mapped(u) \ shm
  BY <1>2, <1>3, <1>5, <1>6, UnmapFacts, UnmapKeeps DEF Mapped
<1>8. /\ s \in Nat /\ Tables!RoundUp(s) <= Tables!SHM_VA
      /\ kernel # "A7" => HeapPages(s) \subseteq Mapped(w)
  <2>1. \A v \in HeapPages(s) : v \notin KernelPages \cup {Tables!SHM_VA}
    BY PageNumbers, AddressFacts DEF HeapPages, PagesBelow, KernelPages, IsSpace
  <2> QED
    BY <1>2, <1>6, <1>7, <2>1 DEF IsSpace, Mapped
<1> QED
  BY <1>4, <1>6, <1>7, <1>8, UvmfreeKeeps DEF Leaves, Keeps

LEMMA FreeprocKeeps ==
  ASSUME NEW m, IsWork(m), NEW s, IsSpace(m, s)
  PROVE  LET r == Tables!Freeproc(m, s) IN r.bytes = m.bytes /\ r.nomem = m.nomem
<1>1. PICK k : k = Tables!Kfree(m, 1)
  OBVIOUS
<1>2. /\ IsWork(k) /\ k.tables = m.tables /\ k.pte = m.pte
      /\ k.bytes = m.bytes /\ k.nomem = m.nomem
  BY <1>1, FreeFacts, FreeKeeps DEF Keeps
<1>3. IsSpace(k, s)
  BY <1>2 DEF IsSpace, IsTable
<1> QED
  BY <1>1, <1>2, <1>3, FreepagetableKeeps DEF Tables!Freeproc

-------------------------------------------------------------------------------
(***************************************************************************)
(* Loops over pages                                                        *)
(***************************************************************************)
\* The five loops, as values.
GrowLoop(w) == [of |-> "grow", w |-> w]
CopyLoop(old) == [of |-> "copy", old |-> old]
OutLoop(s, a, data) == [of |-> "out", s |-> s, a |-> a, data |-> data]
InLoop(s, a, n) == [of |-> "in", s |-> s, a |-> a, n |-> n]
StringLoop(s, a, n) == [of |-> "string", s |-> s, a |-> a, n |-> n]

Reached(loop, acc, v) == Tables!Reach(acc, loop.s, v)

Body(loop, acc, v) ==
  CASE loop.of = "grow" -> Tables!MapNew(acc, v, Tables!Zeroed(loop.w))
    [] loop.of = "copy" ->
         IF v \in DOMAIN loop.old THEN Tables!MapNew(acc, v, loop.old[v]) ELSE acc
    [] loop.of = "out" ->
         IF Reached(loop, acc, v).ok
           THEN Tables!Write(Reached(loop, acc, v), v, loop.a, loop.data)
           ELSE Reached(loop, acc, v)
    [] loop.of = "in" ->
         IF Reached(loop, acc, v).ok
           THEN Tables!ReadPart(Reached(loop, acc, v), v, loop.a, loop.n)
           ELSE Reached(loop, acc, v)
    [] loop.of = "string" ->
         IF Tables!Terminated(acc.bytes) THEN acc
         ELSE IF Reached(loop, acc, v).ok
                THEN Tables!ReadPart(Reached(loop, acc, v), v, loop.a, loop.n)
                ELSE Reached(loop, acc, v)

\* f[i] is the call at work when the loop has been at i of the pages.
IsLoop(f, loop, m, pages) ==
  f = [i \in 0 .. Len(pages) |->
         IF i = 0 THEN m
         ELSE IF f[i - 1].ok THEN Body(loop, f[i - 1], pages[i]) ELSE f[i - 1]]

LEMMA LoopRuns ==
  ASSUME NEW loop, NEW m, NEW pages, Len(pages) \in Nat
  PROVE  \E f : IsLoop(f, loop, m, pages)
<1> DEFINE After(a, i) == IF a.ok THEN Body(loop, a, pages[i]) ELSE a
           IsRun(f, k) == f = [i \in 0 .. k |-> IF i = 0 THEN m ELSE After(f[i - 1], i)]
           Upto == {k \in 0 .. Len(pages) : \E f : IsRun(f, k)}
<1>1. 0 \in Upto
  <2>1. [i \in 0 .. 0 |-> m] = [i \in 0 .. 0 |->
           IF i = 0 THEN m ELSE After([j \in 0 .. 0 |-> m][i - 1], i)]
    OBVIOUS
  <2>2. IsRun([i \in 0 .. 0 |-> m], 0)
    BY <2>1
  <2> HIDE DEF IsRun
  <2> QED
    BY <2>2
<1>2. ASSUME NEW k \in 1 .. Len(pages), k - 1 \in Upto
      PROVE  k \in Upto
  <2>1. PICK f : IsRun(f, k - 1)
    BY <1>2
  <2> HIDE DEF After
  <2> DEFINE g == [i \in 0 .. k |-> IF i < k THEN f[i] ELSE After(f[k - 1], k)]
  <2>2. ASSUME NEW i \in 0 .. k
        PROVE  g[i] = IF i = 0 THEN m ELSE After(g[i - 1], i)
    <3>1. CASE i = k
      <4>1. k - 1 \in 0 .. k /\ k - 1 < k /\ ~(k < k) /\ k # 0
        OBVIOUS
      <4> QED
        BY <3>1, <4>1
    <3>2. CASE i # k
      <4>1. i \in 0 .. k - 1 /\ i < k
        BY <3>2
      <4>2. f[i] = IF i = 0 THEN m ELSE After(f[i - 1], i)
        BY <2>1, <4>1
      <4>3. i # 0 => g[i - 1] = f[i - 1]
        BY <4>1
      <4> QED
        BY <4>1, <4>2, <4>3
    <3> QED
      BY <3>1, <3>2
  <2>3. g = [i \in 0 .. k |-> g[i]]
    OBVIOUS
  <2> HIDE DEF g
  <2>4. IsRun(g, k)
    BY <2>2, <2>3
  <2> HIDE DEF IsRun
  <2> QED
    BY <2>4
<1>3. Upto \in SUBSET (0 .. Len(pages))
  OBVIOUS
<1> HIDE DEF Upto
<1>4. Len(pages) \in Upto
  BY <1>1, <1>2, <1>3, Arrives
<1> QED
  BY <1>4 DEF Upto, IsLoop

LEMMA UvmallocRuns ==
  ASSUME NEW m, NEW oldsz, NEW newsz, NEW w,
         Len(Tables!PagesFrom(Tables!RoundUp(oldsz), Tables!RoundUp(newsz))) \in Nat
  PROVE  LET pages == Tables!PagesFrom(Tables!RoundUp(oldsz), Tables!RoundUp(newsz))
         IN \E f :
           /\ IsLoop(f, GrowLoop(w), m, pages)
           /\ LET r == f[Len(pages)]
                  mapped == {v \in Tables!Range(pages) : v \in DOMAIN r.pte}
              IN Tables!Uvmalloc(m, oldsz, newsz, w) =
                   IF r.ok THEN r
                   ELSE Tables!Uvmdealloc(r,
                          (Tables!RoundUp(oldsz) + Tables!Cardinality(mapped)) * PGSIZE, oldsz)
<1> DEFINE P == Tables!PagesFrom(Tables!RoundUp(oldsz), Tables!RoundUp(newsz))
           F == CHOOSE f : f = [i \in 0 .. Len(P) |->
                  IF i = 0 THEN m
                  ELSE IF f[i - 1].ok
                         THEN Tables!MapNew(f[i - 1], P[i], Tables!Zeroed(w)) ELSE f[i - 1]]
<1>1. Tables!Uvmalloc(m, oldsz, newsz, w) =
        IF F[Len(P)].ok THEN F[Len(P)]
        ELSE Tables!Uvmdealloc(F[Len(P)],
               (Tables!RoundUp(oldsz)
                 + Tables!Cardinality({v \in Tables!Range(P) : v \in DOMAIN F[Len(P)].pte}))
                 * PGSIZE, oldsz)
  BY DEF Tables!Uvmalloc, Tables!EachPage, Tables!OrUndo
<1> HIDE DEF P
<1>2. \A f : IsLoop(f, GrowLoop(w), m, P) <=> f = [i \in 0 .. Len(P) |->
         IF i = 0 THEN m
         ELSE IF f[i - 1].ok
                THEN Tables!MapNew(f[i - 1], P[i], Tables!Zeroed(w)) ELSE f[i - 1]]
  BY DEF IsLoop, Body, GrowLoop
<1>3. \E f : f = [i \in 0 .. Len(P) |->
         IF i = 0 THEN m
         ELSE IF f[i - 1].ok
                THEN Tables!MapNew(f[i - 1], P[i], Tables!Zeroed(w)) ELSE f[i - 1]]
  <2>1. Len(P) \in Nat
    BY DEF P
  <2> QED
    BY <1>2, <2>1, LoopRuns
<1>4. F = [i \in 0 .. Len(P) |->
         IF i = 0 THEN m
         ELSE IF F[i - 1].ok
                THEN Tables!MapNew(F[i - 1], P[i], Tables!Zeroed(w)) ELSE F[i - 1]]
  BY <1>3, Zenon
<1> HIDE DEF F
<1>5. IsLoop(F, GrowLoop(w), m, P)
  BY <1>2, <1>4
<1> QED
  BY <1>1, <1>5, Zenon DEF P

LEMMA UvmcopyRuns ==
  ASSUME NEW m, NEW old, NEW s, Len(Tables!PagesFrom(0, Tables!RoundUp(s))) \in Nat
  PROVE  LET pages == Tables!PagesFrom(0, Tables!RoundUp(s))
         IN \E f :
           /\ IsLoop(f, CopyLoop(old), m, pages)
           /\ LET r == f[Len(pages)]
                  failed == {v \in 0 .. Tables!RoundUp(s) - 1 :
                               v \in DOMAIN old /\ v \notin DOMAIN r.pte}
                  err == CHOOSE v \in failed : \A u \in failed : v <= u
              IN Tables!Uvmcopy(m, old, s) =
                   IF r.ok THEN r ELSE Tables!UnmapRange(r, 0 .. err - 1)
<1> DEFINE P == Tables!PagesFrom(0, Tables!RoundUp(s))
           F == CHOOSE f : f = [i \in 0 .. Len(P) |->
                  IF i = 0 THEN m
                  ELSE IF f[i - 1].ok
                         THEN IF P[i] \in DOMAIN old
                                THEN Tables!MapNew(f[i - 1], P[i], old[P[i]]) ELSE f[i - 1]
                         ELSE f[i - 1]]
           failed == {v \in 0 .. Tables!RoundUp(s) - 1 :
                        v \in DOMAIN old /\ v \notin DOMAIN F[Len(P)].pte}
<1>1. Tables!Uvmcopy(m, old, s) =
        IF F[Len(P)].ok THEN F[Len(P)]
        ELSE Tables!UnmapRange(F[Len(P)],
               0 .. (CHOOSE v \in failed : \A u \in failed : v <= u) - 1)
  BY DEF Tables!Uvmcopy, Tables!EachPage, Tables!OrUndo
<1> HIDE DEF P
<1>2. \A f : IsLoop(f, CopyLoop(old), m, P) <=> f = [i \in 0 .. Len(P) |->
         IF i = 0 THEN m
         ELSE IF f[i - 1].ok
                THEN IF P[i] \in DOMAIN old
                       THEN Tables!MapNew(f[i - 1], P[i], old[P[i]]) ELSE f[i - 1]
                ELSE f[i - 1]]
  BY DEF IsLoop, Body, CopyLoop
<1>3. \E f : f = [i \in 0 .. Len(P) |->
         IF i = 0 THEN m
         ELSE IF f[i - 1].ok
                THEN IF P[i] \in DOMAIN old
                       THEN Tables!MapNew(f[i - 1], P[i], old[P[i]]) ELSE f[i - 1]
                ELSE f[i - 1]]
  <2>1. Len(P) \in Nat
    BY DEF P
  <2> QED
    BY <1>2, <2>1, LoopRuns
<1>4. F = [i \in 0 .. Len(P) |->
         IF i = 0 THEN m
         ELSE IF F[i - 1].ok
                THEN IF P[i] \in DOMAIN old
                       THEN Tables!MapNew(F[i - 1], P[i], old[P[i]]) ELSE F[i - 1]
                ELSE F[i - 1]]
  BY <1>3, Zenon
<1> HIDE DEF F
<1>5. IsLoop(F, CopyLoop(old), m, P)
  BY <1>2, <1>4
<1> QED
  BY <1>1, <1>5, Zenon DEF P

LEMMA PagesFromFacts ==
  ASSUME NEW a \in Int, NEW b \in Int
  PROVE  /\ Len(Tables!PagesFrom(a, b)) \in Nat
         /\ DOMAIN Tables!PagesFrom(a, b) = 1 .. Len(Tables!PagesFrom(a, b))
         /\ a <= b => Len(Tables!PagesFrom(a, b)) = b - a
         /\ \A i \in 1 .. Len(Tables!PagesFrom(a, b)) :
              /\ Tables!PagesFrom(a, b)[i] = a + i - 1
              /\ Tables!PagesFrom(a, b)[i] \in a .. b - 1
<1> DEFINE P == Tables!PagesFrom(a, b)
<1>1. P = [i \in 1 .. b - a |-> a + i - 1]
  BY DEF Tables!PagesFrom
<1> HIDE DEF P
<1>2. CASE a <= b
  <2>1. b - a \in Nat
    BY <1>2
  <2>2. P \in Seq(Int) /\ Len(P) = b - a
    BY <1>1, <2>1
  <2> QED
    BY <1>1, <1>2, <2>1, <2>2 DEF P
<1>3. CASE ~(a <= b)
  <2>1. 1 .. b - a = {}
    BY <1>3
  <2>2. P = <<>>
    BY <1>1, <2>1, SMTT(20)
  <2> QED
    BY <1>3, <2>2 DEF P
<1> QED
  BY <1>2, <1>3

\* From m the loop has come to r and got k of the n pages from a on, all if it
\* has not failed.
GotPages(m, r, a, n) ==
  \E k \in 0 .. n : /\ Mapped(r) = Mapped(m) \cup (a .. a + k - 1)
                    /\ r.ok => k = n

\* And its entries are those of m and, at new pages, those of new.
Fills(m, r, new) ==
  OnlyShort(m) => /\ OnlyShort(r) /\ Keeps(m, r)
                  /\ \A v \in Mapped(r) \ Mapped(m) : r.pte[v] = new[v]

\* Pages of zeros, whichever they are.
ZeroPages(w) == [v \in Nat |-> Tables!Zeroed(w)]

\* One more page.
LEMMA FillsMore ==
  ASSUME NEW m, NEW q, IsWork(q), q.ok, NEW new, Fills(m, q, new), Mapped(m) \subseteq Mapped(q),
         NEW v, v < Tables!SHM_VA, v \notin Mapped(q), IsEntry(v, new[v]),
         NEW r, r = Tables!MapNew(q, v, new[v])
  PROVE  Fills(m, r, new)
<1> SUFFICES ASSUME OnlyShort(m)
             PROVE  /\ OnlyShort(r) /\ Keeps(m, r)
                    /\ \A u \in Mapped(r) \ Mapped(m) : r.pte[u] = new[u]
  BY DEF Fills
<1>1. /\ OnlyShort(q) /\ Keeps(m, q)
      /\ \A u \in Mapped(q) \ Mapped(m) : q.pte[u] = new[u]
  BY DEF Fills
<1>2. PICK e : e = new[v]
  OBVIOUS
<1>3. /\ Keeps(q, r) /\ OnlyShort(r) /\ (r.ok => r.pte[v] = e)
      /\ Mapped(r) = (IF r.ok THEN Mapped(q) \cup {v} ELSE Mapped(q))
  BY <1>1, <1>2, MapNewKeeps, MapNewFacts
<1>4. \A u \in Mapped(r) : r.pte[u] = IF u \in Mapped(q) THEN q.pte[u] ELSE e
  BY <1>3 DEF Keeps
<1>5. \A u \in Mapped(r) \ Mapped(q) : u = v
  BY <1>3
<1>6. \A u \in Mapped(m) \cap Mapped(r) : r.pte[u] = m.pte[u]
  BY <1>1, <1>4 DEF Keeps
<1>7. \A u \in Mapped(r) \ Mapped(m) : r.pte[u] = new[u]
  BY <1>1, <1>2, <1>4, <1>5
<1> QED
  BY <1>1, <1>3, <1>6, <1>7 DEF Keeps

LEMMA GrowLoopFacts ==
  ASSUME NEW m, IsWork(m), m.ok, NEW a \in Nat, NEW b \in Nat,
         a <= b, b <= Tables!SHM_VA, Mapped(m) \cap (a .. b - 1) = {},
         NEW w, NEW f, IsLoop(f, GrowLoop(w), m, Tables!PagesFrom(a, b))
  PROVE  /\ IsWork(f[b - a]) /\ Others(f[b - a]) = Others(m)
         /\ GotPages(m, f[b - a], a, b - a)
         /\ Fills(m, f[b - a], ZeroPages(w))
<1> DEFINE P == Tables!PagesFrom(a, b)
           At(r, i) ==
             /\ IsWork(r) /\ Others(r) = Others(m) /\ Fills(m, r, ZeroPages(w))
             /\ \E k \in 0 .. i : /\ Mapped(r) = Mapped(m) \cup (a .. a + k - 1)
                                  /\ r.ok => k = i
           Good == {i \in 0 .. b - a : At(f[i], i)}
<1>1. /\ Len(P) = b - a /\ b - a \in Nat
      /\ \A i \in 1 .. b - a : P[i] = a + i - 1 /\ P[i] \in a .. b - 1
  <2>1. a \in Int /\ b \in Int /\ b - a \in Nat
    OBVIOUS
  <2>2. /\ a <= b => Len(P) = b - a
        /\ \A i \in 1 .. Len(P) : P[i] = a + i - 1 /\ P[i] \in a .. b - 1
    BY <2>1, PagesFromFacts
  <2> QED
    BY <2>1, <2>2
<1>2. f = [i \in 0 .. b - a |->
             IF i = 0 THEN m
             ELSE IF f[i - 1].ok THEN Body(GrowLoop(w), f[i - 1], P[i]) ELSE f[i - 1]]
  BY <1>1 DEF IsLoop
<1>3. 0 \in Good
  <2>1. f[0] = m
    BY <1>1, <1>2
  <2>2. a .. a + 0 - 1 = {} /\ 0 \in 0 .. 0
    OBVIOUS
  <2>3. At(m, 0)
    BY <2>2 DEF Fills, Keeps
  <2> HIDE DEF At
  <2> QED
    BY <1>1, <2>1, <2>3
<1>4. ASSUME NEW i \in 1 .. b - a, i - 1 \in Good
      PROVE  i \in Good
  <2>1. PICK q : q = f[i - 1]
    OBVIOUS
  <2>2. At(q, i - 1)
    BY <1>4, <2>1
  <2>3. CASE ~q.ok
    <3>1. f[i] = q
      BY <1>2, <2>1, <2>3
    <3>2. 0 .. i - 1 \subseteq 0 .. i
      OBVIOUS
    <3>3. At(q, i)
      BY <2>2, <2>3, <3>2
    <3> HIDE DEF At
    <3> QED
      BY <3>1, <3>3
  <2>4. CASE q.ok
    <3>1. PICK v : v = P[i]
      OBVIOUS
    <3>2. v = a + i - 1 /\ v \in a .. b - 1 /\ v \in Int /\ v < Tables!SHM_VA
      BY <1>1, <3>1, PageNumbers
    <3>3. PICK r : r = f[i]
      OBVIOUS
    <3>4. r = Tables!MapNew(q, v, Tables!Zeroed(w))
      <4>1. f[i] = Body(GrowLoop(w), q, v)
        BY <1>2, <2>1, <2>4, <3>1
      <4> QED
        BY <3>3, <4>1 DEF Body, GrowLoop
    <3>5. Mapped(q) = Mapped(m) \cup (a .. a + (i - 1) - 1)
      BY <2>2, <2>4
    <3>6. v \notin Mapped(q)
      BY <3>2, <3>5
    <3>7. IsEntry(v, Tables!Zeroed(w))
      BY <3>2, PageNumbers DEF IsEntry, Tables!Zeroed, Tables!Entry, PagesBelow
    <3>8. /\ IsWork(r) /\ Others(r) = Others(q)
          /\ Mapped(r) = (IF r.ok THEN Mapped(q) \cup {v} ELSE Mapped(q))
      BY <2>2, <2>4, <3>2, <3>4, <3>6, <3>7, MapNewFacts
    <3>9. Fills(m, r, ZeroPages(w))
      <4>1. v \in Nat /\ ZeroPages(w)[v] = Tables!Zeroed(w)
        BY <3>2 DEF ZeroPages
      <4>2. Mapped(m) \subseteq Mapped(q) /\ IsEntry(v, ZeroPages(w)[v])
        BY <3>5, <3>7, <4>1
      <4>3. r = Tables!MapNew(q, v, ZeroPages(w)[v])
        BY <3>4, <4>1
      <4>4. PICK new : new = ZeroPages(w)
        OBVIOUS
      <4>5. IsWork(q) /\ q.ok /\ Fills(m, q, new)
        BY <2>2, <2>4, <4>4
      <4> QED
        BY <3>2, <3>6, <4>2, <4>3, <4>4, <4>5, FillsMore
    <3>10. At(r, i)
      <4>1. CASE r.ok
        <5>1. Mapped(r) = Mapped(m) \cup (a .. a + i - 1)
          BY <3>2, <3>5, <3>8, <4>1
        <5> QED
          BY <2>2, <3>8, <3>9, <5>1
      <4>2. CASE ~r.ok
        BY <2>2, <3>5, <3>8, <3>9, <4>2
      <4> QED
        BY <4>1, <4>2
    <3> HIDE DEF At
    <3> QED
      BY <3>3, <3>10
  <2> QED
    BY <2>3, <2>4
<1>5. Good \in SUBSET (0 .. b - a)
  OBVIOUS
<1> HIDE DEF Good
<1>6. b - a \in Good
  BY <1>1, <1>3, <1>4, <1>5, Arrives
<1> QED
  BY <1>6 DEF Good, GotPages

LEMMA UvmallocFacts ==
  ASSUME NEW m, IsWork(m), m.ok, NEW oldsz \in Nat, NEW newsz \in Nat, NEW w,
         oldsz <= newsz, Tables!RoundUp(newsz) <= Tables!SHM_VA,
         Mapped(m) \cap (Tables!RoundUp(oldsz) .. Tables!RoundUp(newsz) - 1) = {}
  PROVE  LET r == Tables!Uvmalloc(m, oldsz, newsz, w)
         IN /\ IsWork(r) /\ Others(r) = Others(m)
            /\ Mapped(r) =
                 IF r.ok
                   THEN Mapped(m) \cup (Tables!RoundUp(oldsz) .. Tables!RoundUp(newsz) - 1)
                   ELSE Mapped(m)
            /\ Fills(m, r, ZeroPages(w))
<1> DEFINE r == Tables!Uvmalloc(m, oldsz, newsz, w)
<1>1. PICK a \in Nat, b \in Nat : a = Tables!RoundUp(oldsz) /\ b = Tables!RoundUp(newsz)
  BY AddressFacts
<1>2. a <= b /\ b <= Tables!SHM_VA /\ Mapped(m) \cap (a .. b - 1) = {}
  BY <1>1, AddressFacts
<1>3. PICK P : P = Tables!PagesFrom(a, b)
  OBVIOUS
<1>4. /\ Len(P) = b - a /\ DOMAIN P = 1 .. b - a /\ b - a \in Nat
      /\ \A i \in 1 .. b - a : P[i] = a + i - 1 /\ P[i] \in a .. b - 1
  <2>1. a \in Int /\ b \in Int /\ b - a \in Nat
    BY <1>2
  <2>2. /\ Len(Tables!PagesFrom(a, b)) \in Nat
        /\ DOMAIN Tables!PagesFrom(a, b) = 1 .. Len(Tables!PagesFrom(a, b))
        /\ (a <= b => Len(Tables!PagesFrom(a, b)) = b - a)
        /\ \A i \in 1 .. Len(Tables!PagesFrom(a, b)) :
             /\ Tables!PagesFrom(a, b)[i] = a + i - 1
             /\ Tables!PagesFrom(a, b)[i] \in a .. b - 1
    BY <2>1, PagesFromFacts
  <2>3. /\ Len(P) \in Nat /\ DOMAIN P = 1 .. Len(P) /\ (a <= b => Len(P) = b - a)
        /\ \A i \in 1 .. Len(P) : P[i] = a + i - 1 /\ P[i] \in a .. b - 1
    BY <1>3, <2>2
  <2> QED
    BY <1>2, <2>1, <2>3
<1> HIDE DEF r
<1>5. PICK f :
        /\ IsLoop(f, GrowLoop(w), m, P)
        /\ LET g == f[Len(P)]
               mapped == {v \in Tables!Range(P) : v \in DOMAIN g.pte}
           IN r = IF g.ok THEN g
                  ELSE Tables!Uvmdealloc(g, (a + Tables!Cardinality(mapped)) * PGSIZE, oldsz)
  <2>1. /\ P = Tables!PagesFrom(Tables!RoundUp(oldsz), Tables!RoundUp(newsz))
        /\ Len(P) \in Nat
    BY <1>1, <1>3, <1>4
  <2>2. \E f :
        /\ IsLoop(f, GrowLoop(w), m, P)
        /\ LET g == f[Len(P)]
               mapped == {v \in Tables!Range(P) : v \in DOMAIN g.pte}
           IN r = IF g.ok THEN g
                  ELSE Tables!Uvmdealloc(g,
                         (Tables!RoundUp(oldsz) + Tables!Cardinality(mapped)) * PGSIZE, oldsz)
    BY <2>1, UvmallocRuns, SMTT(20) DEF r
  <2> QED
    BY <1>1, <2>2
<1>6. PICK g : g = f[b - a]
  OBVIOUS
<1>7. /\ IsWork(g) /\ Others(g) = Others(m)
      /\ GotPages(m, g, a, b - a) /\ Fills(m, g, ZeroPages(w))
  <2>1. IsLoop(f, GrowLoop(w), m, Tables!PagesFrom(a, b))
    BY <1>3, <1>5
  <2>2. /\ IsWork(f[b - a]) /\ Others(f[b - a]) = Others(m)
        /\ GotPages(m, f[b - a], a, b - a) /\ Fills(m, f[b - a], ZeroPages(w))
    BY <1>2, <2>1, GrowLoopFacts
  <2> QED
    BY <1>6, <2>2
<1>8. PICK k \in 0 .. b - a : /\ Mapped(g) = Mapped(m) \cup (a .. a + k - 1)
                              /\ g.ok => k = b - a
  BY <1>7 DEF GotPages
<1>9. CASE g.ok
  <2>1. r = g
    BY <1>4, <1>5, <1>6, <1>9
  <2>2. a + k - 1 = b - 1
    BY <1>8, <1>9
  <2> QED
    BY <1>1, <1>7, <1>8, <1>9, <2>1, <2>2 DEF r
<1>10. CASE ~g.ok
  <2>1. PICK mapped : mapped = {v \in Tables!Range(P) : v \in DOMAIN g.pte}
    OBVIOUS
  <2>2. r = Tables!Uvmdealloc(g, (a + Tables!Cardinality(mapped)) * PGSIZE, oldsz)
    BY <1>4, <1>5, <1>6, <1>10, <2>1
  <2>3. Tables!Range(P) = a .. b - 1
    <3>1. ASSUME NEW v \in a .. b - 1
          PROVE  \E i \in 1 .. b - a : v = P[i]
      <4>1. v - a + 1 \in 1 .. b - a /\ a + (v - a + 1) - 1 = v
        OBVIOUS
      <4> QED
        BY <1>4, <4>1
    <3> QED
      BY <1>4, <3>1 DEF Tables!Range
  <2>4. mapped = a .. a + k - 1
    BY <1>2, <1>8, <2>1, <2>3 DEF Mapped
  <2>5. Tables!Cardinality(mapped) = k
    <3>1. Cardinality(a .. a + k - 1) = IF a > a + k - 1 THEN 0 ELSE (a + k - 1) - a + 1
      BY FS_Interval
    <3>2. Cardinality(a .. a + k - 1) = k
      BY <3>1
    <3> QED
      BY <2>4, <3>2, CountsAgree
  <2>6. PICK top \in Nat : top = (a + k) * PGSIZE
    BY AddressFacts
  <2>7. Tables!RoundUp(top) = a + k
    BY <2>6, AddressFacts
  <2>8. r = Tables!Uvmdealloc(g, top, oldsz)
    BY <2>2, <2>5, <2>6
  <2>9. /\ Tables!RoundUp(top) <= Tables!SHM_VA
        /\ Tables!RoundUp(oldsz) .. Tables!RoundUp(top) - 1 \subseteq Mapped(g)
        /\ Mapped(g) \ (Tables!RoundUp(oldsz) .. Tables!RoundUp(top) - 1) = Mapped(m)
    BY <1>1, <1>2, <1>8, <2>7, PageNumbers
  <2>10. /\ IsWork(r) /\ Others(r) = Others(g) /\ r.ok = g.ok
         /\ Mapped(r) = Mapped(g) \ (Tables!RoundUp(oldsz) .. Tables!RoundUp(top) - 1)
         /\ Leaves(g, r)
    BY <1>7, <2>8, <2>9, UvmdeallocFacts, UvmdeallocKeeps
  <2>11. Fills(m, r, ZeroPages(w))
    BY <1>7, <2>9, <2>10 DEF Fills, Leaves, Keeps, OnlyShort
  <2> QED
    BY <1>7, <1>10, <2>9, <2>10, <2>11 DEF r
<1> QED
  BY <1>9, <1>10

\* From m the loop has come to r and copied the pages of old below k; it fails at
\* a page that old has.
GotCopies(m, r, old, n) ==
  \E k \in 0 .. n : /\ Mapped(r) = Mapped(m) \cup (DOMAIN old \cap (0 .. k - 1))
                    /\ r.ok => k = n
                    /\ ~r.ok => k < n /\ k \in DOMAIN old

LEMMA CopyLoopFacts ==
  ASSUME NEW m, IsWork(m), m.ok, NEW n \in Nat, n <= Tables!SHM_VA,
         Mapped(m) \cap (0 .. n - 1) = {},
         NEW old, \A v \in DOMAIN old : IsEntry(v, old[v]),
         NEW f, IsLoop(f, CopyLoop(old), m, Tables!PagesFrom(0, n))
  PROVE  /\ IsWork(f[n]) /\ Others(f[n]) = Others(m) /\ GotCopies(m, f[n], old, n)
         /\ Fills(m, f[n], old)
<1> DEFINE P == Tables!PagesFrom(0, n)
           At(r, i) ==
             /\ IsWork(r) /\ Others(r) = Others(m) /\ Fills(m, r, old)
             /\ \E k \in 0 .. i : /\ Mapped(r) = Mapped(m) \cup (DOMAIN old \cap (0 .. k - 1))
                                  /\ r.ok => k = i
                                  /\ ~r.ok => k < i /\ k \in DOMAIN old
           Good == {i \in 0 .. n : At(f[i], i)}
<1>1. Len(P) = n /\ \A i \in 1 .. n : P[i] = i - 1
  <2>1. 0 \in Int /\ n \in Int /\ 0 <= n /\ n - 0 = n
    OBVIOUS
  <2>2. /\ 0 <= n => Len(P) = n - 0
        /\ \A i \in 1 .. Len(P) : P[i] = 0 + i - 1 /\ P[i] \in 0 .. n - 1
    BY <2>1, PagesFromFacts
  <2> QED
    BY <2>1, <2>2
<1>2. f = [i \in 0 .. n |->
             IF i = 0 THEN m
             ELSE IF f[i - 1].ok THEN Body(CopyLoop(old), f[i - 1], P[i]) ELSE f[i - 1]]
  BY <1>1 DEF IsLoop
<1>3. 0 \in Good
  <2>1. f[0] = m
    BY <1>2
  <2>2. 0 .. 0 - 1 = {} /\ 0 \in 0 .. 0
    OBVIOUS
  <2>3. At(m, 0)
    BY <2>2 DEF Fills, Keeps
  <2> HIDE DEF At
  <2> QED
    BY <2>1, <2>3
<1>4. ASSUME NEW i \in 1 .. n, i - 1 \in Good
      PROVE  i \in Good
  <2>1. PICK q : q = f[i - 1]
    OBVIOUS
  <2>2. At(q, i - 1)
    BY <1>4, <2>1
  <2>3. PICK v \in Nat : v = i - 1
    OBVIOUS
  <2>4. v < n /\ v < Tables!SHM_VA /\ v \in 0 .. n - 1
    BY <2>3, PageNumbers
  <2>5. PICK r : r = f[i]
    OBVIOUS
  <2>6. CASE ~q.ok
    <3>1. r = q
      BY <1>2, <2>1, <2>5, <2>6
    <3>2. At(r, i)
      BY <2>2, <2>6, <3>1
    <3> HIDE DEF At
    <3> QED
      BY <2>5, <3>2
  <2>7. CASE q.ok
    <3>1. r = Body(CopyLoop(old), q, v)
      BY <1>1, <1>2, <2>1, <2>3, <2>5, <2>7
    <3>2. Mapped(q) = Mapped(m) \cup (DOMAIN old \cap (0 .. v - 1))
      BY <2>2, <2>3, <2>7
    <3>3. At(r, i)
      <4>1. CASE v \notin DOMAIN old
        <5>1. r = q
          BY <3>1, <4>1 DEF Body, CopyLoop
        <5>2. DOMAIN old \cap (0 .. v - 1) = DOMAIN old \cap (0 .. i - 1)
          BY <2>3, <4>1
        <5> QED
          BY <2>2, <2>7, <3>2, <5>1, <5>2
      <4>2. CASE v \in DOMAIN old
        <5>1. r = Tables!MapNew(q, v, old[v])
          BY <3>1, <4>2 DEF Body, CopyLoop
        <5>2. v \notin Mapped(q)
          BY <2>4, <3>2
        <5>3. IsEntry(v, old[v])
          BY <4>2
        <5>4. /\ IsWork(r) /\ Others(r) = Others(q)
              /\ Mapped(r) = (IF r.ok THEN Mapped(q) \cup {v} ELSE Mapped(q))
          BY <2>2, <2>4, <2>7, <5>1, <5>2, <5>3, MapNewFacts
        <5>7. Fills(m, r, old)
          <6>1. IsWork(q) /\ q.ok /\ Fills(m, q, old) /\ Mapped(m) \subseteq Mapped(q)
            BY <2>2, <2>7, <3>2
          <6> QED
            BY <2>4, <5>1, <5>2, <5>3, <6>1, FillsMore
        <5>5. CASE r.ok
          <6>1. Mapped(r) = Mapped(m) \cup (DOMAIN old \cap (0 .. i - 1))
            BY <2>3, <3>2, <4>2, <5>4, <5>5
          <6> QED
            BY <2>2, <5>4, <5>5, <5>7, <6>1
        <5>6. CASE ~r.ok
          <6>1. Mapped(r) = Mapped(m) \cup (DOMAIN old \cap (0 .. v - 1))
            BY <3>2, <5>4, <5>6
          <6>2. v \in 0 .. i /\ v < i
            BY <2>3
          <6> QED
            BY <2>2, <4>2, <5>4, <5>6, <5>7, <6>1, <6>2
        <5> QED
          BY <5>5, <5>6
      <4> QED
        BY <4>1, <4>2
    <3> HIDE DEF At
    <3> QED
      BY <2>5, <3>3
  <2> QED
    BY <2>6, <2>7
<1>5. Good \in SUBSET (0 .. n)
  OBVIOUS
<1> HIDE DEF Good
<1>6. n \in Good
  BY <1>3, <1>4, <1>5, Arrives
<1> QED
  BY <1>6 DEF Good, GotCopies

\* When a page cannot be copied, those copied before it are unmapped.
LEMMA UvmcopyFacts ==
  ASSUME NEW m, IsWork(m), m.ok, NEW s \in Nat, Tables!RoundUp(s) <= Tables!SHM_VA,
         NEW old, \A v \in DOMAIN old : IsEntry(v, old[v]),
         kernel # "A7" => HeapPages(s) \subseteq DOMAIN old,
         Mapped(m) \cap HeapPages(s) = {}
  PROVE  LET r == Tables!Uvmcopy(m, old, s)
         IN /\ IsWork(r) /\ Others(r) = Others(m)
            /\ Mapped(r) = IF r.ok THEN Mapped(m) \cup (DOMAIN old \cap HeapPages(s))
                           ELSE Mapped(m)
            /\ Fills(m, r, old)
<1> DEFINE r == Tables!Uvmcopy(m, old, s)
<1>1. PICK n \in Nat : n = Tables!RoundUp(s)
  BY AddressFacts
<1>2. n <= Tables!SHM_VA /\ HeapPages(s) = 0 .. n - 1
  BY <1>1 DEF HeapPages, PagesBelow
<1>3. Len(Tables!PagesFrom(0, n)) = n
  <2>1. 0 \in Int /\ n \in Int /\ 0 <= n /\ n - 0 = n
    OBVIOUS
  <2>2. 0 <= n => Len(Tables!PagesFrom(0, n)) = n - 0
    BY <2>1, PagesFromFacts
  <2> QED
    BY <2>1, <2>2
<1> HIDE DEF r
<1>4. PICK f :
        /\ IsLoop(f, CopyLoop(old), m, Tables!PagesFrom(0, n))
        /\ LET g == f[n]
               failed == {v \in 0 .. n - 1 : v \in DOMAIN old /\ v \notin DOMAIN g.pte}
               err == CHOOSE v \in failed : \A u \in failed : v <= u
           IN r = IF g.ok THEN g ELSE Tables!UnmapRange(g, 0 .. err - 1)
  <2>1. Len(Tables!PagesFrom(0, Tables!RoundUp(s))) \in Nat
    BY <1>1, <1>3
  <2>2. \E f :
          /\ IsLoop(f, CopyLoop(old), m, Tables!PagesFrom(0, Tables!RoundUp(s)))
          /\ LET g == f[Len(Tables!PagesFrom(0, Tables!RoundUp(s)))]
                 failed == {v \in 0 .. Tables!RoundUp(s) - 1 :
                              v \in DOMAIN old /\ v \notin DOMAIN g.pte}
                 err == CHOOSE v \in failed : \A u \in failed : v <= u
             IN r = IF g.ok THEN g ELSE Tables!UnmapRange(g, 0 .. err - 1)
    BY <2>1, UvmcopyRuns DEF r
  <2> QED
    BY <1>1, <1>3, <2>2
<1>5. PICK g : g = f[n]
  OBVIOUS
<1>6. /\ IsWork(g) /\ Others(g) = Others(m) /\ GotCopies(m, g, old, n)
      /\ Fills(m, g, old)
  <2>1. Mapped(m) \cap (0 .. n - 1) = {}
    BY <1>2
  <2>2. IsLoop(f, CopyLoop(old), m, Tables!PagesFrom(0, n))
    BY <1>4
  <2>3. /\ IsWork(f[n]) /\ Others(f[n]) = Others(m) /\ GotCopies(m, f[n], old, n)
        /\ Fills(m, f[n], old)
    BY <1>2, <2>1, <2>2, CopyLoopFacts
  <2> QED
    BY <1>5, <2>3
<1>7. PICK k \in 0 .. n : /\ Mapped(g) = Mapped(m) \cup (DOMAIN old \cap (0 .. k - 1))
                          /\ g.ok => k = n
                          /\ ~g.ok => k < n /\ k \in DOMAIN old
  BY <1>6 DEF GotCopies
<1>8. CASE g.ok
  <2>1. r = g
    BY <1>4, <1>5, <1>8
  <2> QED
    BY <1>2, <1>6, <1>7, <1>8, <2>1 DEF r
<1>9. CASE ~g.ok
  <2>1. PICK failed : failed = {v \in 0 .. n - 1 : v \in DOMAIN old /\ v \notin Mapped(g)}
    OBVIOUS
  <2>2. PICK err : err = CHOOSE v \in failed : \A u \in failed : v <= u
    OBVIOUS
  <2>3. r = Tables!UnmapRange(g, 0 .. err - 1)
    BY <1>4, <1>5, <1>9, <2>1, <2>2 DEF Mapped
  <2>4. k \in failed /\ \A u \in failed : k <= u
    BY <1>2, <1>7, <1>9, <2>1
  <2>5. err \in failed /\ \A u \in failed : err <= u
    BY <2>2, <2>4
  <2>6. err = k
    BY <2>1, <2>4, <2>5
  <2>7. /\ 0 .. k - 1 \subseteq PagesBelow(Tables!SHM_VA)
        /\ kernel # "A7" => 0 .. k - 1 \subseteq Mapped(g)
        /\ Mapped(g) \ (0 .. k - 1) = Mapped(m)
    BY <1>2, <1>7, PageNumbers DEF PagesBelow
  <2>8. /\ IsWork(r) /\ Others(r) = Others(g)
        /\ Mapped(r) = Mapped(g) \ (0 .. k - 1) /\ r.ok = g.ok
        /\ Leaves(g, r)
    BY <1>6, <2>3, <2>6, <2>7, UnmapRangeFacts, UnmapRangeKeeps
  <2>9. Fills(m, r, old)
    BY <1>6, <2>7, <2>8 DEF Fills, Leaves, Keeps, OnlyShort
  <2> QED
    BY <1>6, <1>9, <2>7, <2>8, <2>9 DEF r
<1> QED
  BY <1>8, <1>9

-------------------------------------------------------------------------------
(***************************************************************************)
(* Access to user memory                                                   *)
(***************************************************************************)
\* From m to r no page is lost, and the heap may have got pages.
Touches(m, r, s) ==
  /\ IsWork(r) /\ Others(r) = Others(m)
  /\ Mapped(m) \subseteq Mapped(r) /\ Mapped(r) \subseteq Mapped(m) \cup HeapPages(s)

LEMMA TouchesTwice ==
  ASSUME NEW m, NEW q, NEW r, NEW s, Touches(m, q, s), Touches(q, r, s)
  PROVE  Touches(m, r, s)
  BY DEF Touches

LEMMA FailTouches ==
  ASSUME NEW m, IsWork(m), NEW s
  PROVE  Touches(m, Tables!Fail(m), s)
<1>1. PICK r : r = Tables!Fail(m)
  OBVIOUS
<1>2. r = [tables |-> m.tables, pte |-> m.pte, used |-> m.used, left |-> m.left,
           ok |-> FALSE, nomem |-> m.nomem, panic |-> m.panic, bytes |-> m.bytes]
  BY <1>1 DEF Tables!Fail, IsWork
<1>3. IsWork(r)
  BY <1>2 DEF IsWork, IsTable
<1>4. r.tables = m.tables /\ r.pte = m.pte /\ r.used = m.used
  BY <1>2
<1> QED
  BY <1>1, <1>3, <1>4 DEF Touches, Mapped, Others

LEMMA BytesTouch ==
  ASSUME NEW m, IsWork(m), NEW s, NEW b
  PROVE  Touches(m, [m EXCEPT !.bytes = b], s)
<1>1. PICK r : r = [m EXCEPT !.bytes = b]
  OBVIOUS
<1>2. r = [tables |-> m.tables, pte |-> m.pte, used |-> m.used, left |-> m.left,
           ok |-> m.ok, nomem |-> m.nomem, panic |-> m.panic, bytes |-> b]
  BY <1>1 DEF IsWork
<1>3. IsWork(r)
  BY <1>2 DEF IsWork, IsTable
<1>4. r.tables = m.tables /\ r.pte = m.pte /\ r.used = m.used
  BY <1>2
<1> QED
  BY <1>1, <1>3, <1>4 DEF Touches, Mapped, Others

\* An entry changes, but neither whose page it is nor where.
LEMMA EntryTouches ==
  ASSUME NEW m, IsWork(m), NEW s, NEW v, v \in Mapped(m), NEW e, IsEntry(v, e)
  PROVE  Touches(m, [m EXCEPT !.pte = [@ EXCEPT ![v] = e]], s)
<1>1. PICK r : r = [m EXCEPT !.pte = [@ EXCEPT ![v] = e]]
  OBVIOUS
<1>2. PICK new : new = [m.pte EXCEPT ![v] = e]
  OBVIOUS
<1>3. r = [tables |-> m.tables, pte |-> new, used |-> m.used, left |-> m.left,
           ok |-> m.ok, nomem |-> m.nomem, panic |-> m.panic, bytes |-> m.bytes]
  BY <1>1, <1>2 DEF IsWork
<1>4. r.tables = m.tables /\ r.pte = new /\ r.used = m.used
  BY <1>3
<1>5. /\ DOMAIN new = DOMAIN m.pte /\ new = [u \in DOMAIN new |-> new[u]]
      /\ \A u \in DOMAIN new : new[u] = IF u = v THEN e ELSE m.pte[u]
  BY <1>2 DEF IsWork, IsTable
<1>6. IsTable(r)
  BY <1>4, <1>5 DEF IsWork, IsTable
<1>7. IsWork(r)
  BY <1>3, <1>6 DEF IsWork
<1>8. Mapped(r) = Mapped(m) /\ Own(r.pte) = Own(m.pte)
  <2>1. Mapped(r) = Mapped(m)
    BY <1>4, <1>5 DEF Mapped
  <2> QED
    BY <1>7, <2>1, WorkCounts
<1> QED
  BY <1>1, <1>4, <1>7, <1>8 DEF Touches, Others

LEMMA VmfaultFacts ==
  ASSUME NEW m, IsWork(m), m.ok, NEW s \in Nat, Tables!RoundUp(s) <= Tables!SHM_VA,
         NEW va \in Nat
  PROVE  /\ Touches(m, Tables!Vmfault(m, s, va), s)
         /\ Tables!Vmfault(m, s, va).ok => Tables!PageOf(va) \in Mapped(Tables!Vmfault(m, s, va))
<1>1. PICK v \in Nat : v = Tables!PageOf(va)
  BY AddressFacts
<1>2. PICK r : r = Tables!Vmfault(m, s, va)
  OBVIOUS
<1>3. CASE va >= s \/ v \in Mapped(m)
  <2>1. r = Tables!Fail(m)
    BY <1>1, <1>2, <1>3 DEF Tables!Vmfault, Mapped
  <2>2. ~r.ok
    BY <2>1 DEF Tables!Fail, IsWork
  <2> QED
    BY <1>1, <1>2, <2>1, <2>2, FailTouches
<1>4. CASE ~(va >= s \/ v \in Mapped(m))
  <2>1. r = Tables!MapNew(m, v, Tables!Zeroed(TRUE))
    BY <1>1, <1>2, <1>4 DEF Tables!Vmfault, Mapped
  <2>2. v < Tables!RoundUp(s) /\ v \in HeapPages(s)
    BY <1>1, <1>4, AddressFacts DEF HeapPages, PagesBelow
  <2>3. v < Tables!SHM_VA
    BY <2>2, PageNumbers, AddressFacts
  <2>4. IsEntry(v, Tables!Zeroed(TRUE))
    BY <2>3, PageNumbers DEF IsEntry, Tables!Zeroed, Tables!Entry, PagesBelow
  <2>5. /\ IsWork(r) /\ Others(r) = Others(m)
        /\ Mapped(r) = (IF r.ok THEN Mapped(m) \cup {v} ELSE Mapped(m))
    BY <1>4, <2>1, <2>3, <2>4, MapNewFacts
  <2> QED
    BY <1>1, <1>2, <2>2, <2>5 DEF Touches
<1> QED
  BY <1>3, <1>4

LEMMA ReachFacts ==
  ASSUME NEW m, IsWork(m), m.ok, NEW s \in Nat, Tables!RoundUp(s) <= Tables!SHM_VA,
         NEW v \in Nat
  PROVE  /\ Touches(m, Tables!Reach(m, s, v), s)
         /\ Tables!Reach(m, s, v).ok => v \in Mapped(Tables!Reach(m, s, v))
<1>1. CASE v \in DOMAIN m.pte /\ m.pte[v].u
  BY <1>1 DEF Tables!Reach, Touches, Mapped
<1>2. CASE ~(v \in DOMAIN m.pte /\ m.pte[v].u)
  <2>1. Tables!Reach(m, s, v) = Tables!Vmfault(m, s, v * PGSIZE)
    BY <1>2 DEF Tables!Reach
  <2>2. v * PGSIZE \in Nat /\ Tables!PageOf(v * PGSIZE) = v
    BY AddressFacts
  <2> QED
    BY <2>1, <2>2, VmfaultFacts
<1> QED
  BY <1>1, <1>2

LEMMA WriteFacts ==
  ASSUME NEW m, IsWork(m), NEW v \in Mapped(m), NEW a, NEW data, NEW s
  PROVE  Touches(m, Tables!Write(m, v, a, data), s)
<1>1. CASE ~m.pte[v].w
  BY <1>1, FailTouches DEF Tables!Write
<1>2. CASE m.pte[v].w
  <2>1. PICK e : e = [m.pte[v] EXCEPT !.bytes =
          [i \in DOMAIN @ |-> IF v * PGSIZE + i \in Tables!PartOf(v, a, Len(data))
                              THEN data[v * PGSIZE + i - a + 1] ELSE @[i]]]
    OBVIOUS
  <2>2. PICK b : e = [m.pte[v] EXCEPT !.bytes = b]
    BY <2>1
  <2>3. Tables!Write(m, v, a, data) = [m EXCEPT !.pte = [@ EXCEPT ![v] = e]]
    BY <1>2, <2>1 DEF Tables!Write, Tables!WriteUnchecked
  <2>4. IsEntry(v, e)
    <3>1. IsEntry(v, m.pte[v])
      BY DEF IsWork, IsTable, Mapped
    <3>2. PICK old : old = m.pte[v]
      OBVIOUS
    <3> QED
      BY <2>2, <3>1, <3>2 DEF IsEntry
  <2> QED
    BY <2>3, <2>4, EntryTouches
<1> QED
  BY <1>1, <1>2

LEMMA ReadPartFacts ==
  ASSUME NEW m, IsWork(m), NEW v, NEW a, NEW n, NEW s
  PROVE  Touches(m, Tables!ReadPart(m, v, a, n), s)
<1>1. \E b : Tables!ReadPart(m, v, a, n) = [m EXCEPT !.bytes = b]
  BY DEF Tables!ReadPart
<1> QED
  BY <1>1, BytesTouch

AccessLoops == {"out", "in", "string"}

LEMMA BodyTouches ==
  ASSUME NEW loop, loop.of \in AccessLoops, NEW s \in Nat, s = loop.s,
         Tables!RoundUp(s) <= Tables!SHM_VA,
         NEW m, IsWork(m), m.ok, NEW v \in Nat
  PROVE  Touches(m, Body(loop, m, v), s)
<1>1. PICK r : r = Reached(loop, m, v)
  OBVIOUS
<1>2. Touches(m, r, s) /\ (r.ok => v \in Mapped(r)) /\ IsWork(r)
  <2>1. r = Tables!Reach(m, s, v)
    BY <1>1 DEF Reached
  <2> QED
    BY <2>1, ReachFacts DEF Touches
<1>3. CASE loop.of = "out"
  <2>1. Body(loop, m, v) = IF r.ok THEN Tables!Write(r, v, loop.a, loop.data) ELSE r
    BY <1>1, <1>3 DEF Body
  <2> QED
    BY <1>2, <2>1, WriteFacts, TouchesTwice
<1>4. CASE loop.of = "in"
  <2>1. Body(loop, m, v) = IF r.ok THEN Tables!ReadPart(r, v, loop.a, loop.n) ELSE r
    BY <1>1, <1>4 DEF Body
  <2> QED
    BY <1>2, <2>1, ReadPartFacts, TouchesTwice
<1>5. CASE loop.of = "string"
  <2>1. \/ Body(loop, m, v) = m
        \/ Body(loop, m, v) = IF r.ok THEN Tables!ReadPart(r, v, loop.a, loop.n) ELSE r
    BY <1>1, <1>5 DEF Body
  <2>2. Touches(m, m, s)
    BY DEF Touches
  <2> QED
    BY <1>2, <2>1, <2>2, ReadPartFacts, TouchesTwice
<1> QED
  BY <1>3, <1>4, <1>5 DEF AccessLoops

LEMMA AccessLoopFacts ==
  ASSUME NEW loop, loop.of \in AccessLoops, NEW s \in Nat, s = loop.s,
         Tables!RoundUp(s) <= Tables!SHM_VA,
         NEW m, IsWork(m), NEW a \in Nat, NEW b \in Int,
         NEW f, IsLoop(f, loop, m, Tables!PagesFrom(a, b))
  PROVE  Touches(m, f[Len(Tables!PagesFrom(a, b))], s)
<1> DEFINE P == Tables!PagesFrom(a, b)
           Good == {i \in 0 .. Len(P) : Touches(m, f[i], s)}
<1>1. Len(P) \in Nat /\ \A i \in 1 .. Len(P) : P[i] = a + i - 1 /\ P[i] \in a .. b - 1
  <2>1. a \in Int
    OBVIOUS
  <2> QED
    BY <2>1, PagesFromFacts
<1> HIDE DEF P
<1>2. f = [i \in 0 .. Len(P) |->
             IF i = 0 THEN m
             ELSE IF f[i - 1].ok THEN Body(loop, f[i - 1], P[i]) ELSE f[i - 1]]
  BY DEF IsLoop, P
<1>3. 0 \in Good
  <2>1. f[0] = m /\ 0 \in 0 .. Len(P)
    BY <1>1, <1>2
  <2>2. Touches(m, m, s)
    BY DEF Touches
  <2> QED
    BY <2>1, <2>2
<1>4. ASSUME NEW i \in 1 .. Len(P), i - 1 \in Good
      PROVE  i \in Good
  <2>1. PICK q : q = f[i - 1]
    OBVIOUS
  <2>2. PICK v \in Nat : v = P[i]
    BY <1>1
  <2>3. f[i] = IF q.ok THEN Body(loop, q, v) ELSE q
    <3>1. i \in 0 .. Len(P) /\ i # 0
      BY <1>1
    <3>2. f[i] = IF f[i - 1].ok THEN Body(loop, f[i - 1], P[i]) ELSE f[i - 1]
      BY <1>2, <3>1
    <3> QED
      BY <2>1, <2>2, <3>2
  <2>4. Touches(m, q, s) /\ IsWork(q)
    BY <1>4, <2>1 DEF Touches
  <2>5. q.ok => Touches(q, Body(loop, q, v), s)
    BY <2>4, BodyTouches
  <2>6. Touches(m, f[i], s)
    BY <2>3, <2>4, <2>5, TouchesTwice
  <2> QED
    BY <2>6
<1>5. Good \in SUBSET (0 .. Len(P))
  OBVIOUS
<1> HIDE DEF Good
<1>6. Len(P) \in Good
  BY <1>1, <1>3, <1>4, <1>5, Arrives
<1> QED
  BY <1>6 DEF Good, P

LEMMA TouchedFacts ==
  ASSUME NEW a \in Nat, NEW n \in Int
  PROVE  /\ \E b \in Int : Tables!Touched(a, n) = Tables!PagesFrom(Tables!PageOf(a), b)
         /\ Len(Tables!Touched(a, n)) \in Nat
<1>1. Tables!PageOf(a + n - 1) \in Int
  BY TablesAssumption, DivisionFacts DEF Tables!PageOf
<1>2. Tables!PageOf(a + n - 1) + 1 \in Int
  BY <1>1
<1>3. PICK b \in Int, v \in Int :
        b = Tables!PageOf(a + n - 1) + 1 /\ v = Tables!PageOf(a)
  BY <1>2, AddressFacts
<1>4. Len(Tables!PagesFrom(v, b)) \in Nat
  BY PagesFromFacts
<1> QED
  BY <1>3, <1>4 DEF Tables!Touched

LEMMA CopyoutRuns ==
  ASSUME NEW m, NEW s, NEW a \in Nat, NEW data, NEW n \in Int, n = Len(data)
  PROVE  \E f : /\ IsLoop(f, OutLoop(s, a, data), m, Tables!Touched(a, n))
               /\ Tables!Copyout(m, s, a, data) = f[Len(Tables!Touched(a, n))]
<1> DEFINE P == Tables!Touched(a, n)
           F == CHOOSE f : f = [i \in 0 .. Len(P) |->
         IF i = 0 THEN m
         ELSE IF f[i - 1].ok
                THEN IF Tables!Reach(f[i - 1], s, P[i]).ok
                       THEN Tables!Write(Tables!Reach(f[i - 1], s, P[i]), P[i], a, data)
                       ELSE Tables!Reach(f[i - 1], s, P[i])
                ELSE f[i - 1]]
<1>1. Tables!Copyout(m, s, a, data) = F[Len(P)]
  BY DEF Tables!Copyout, Tables!EachPage, Tables!Then
<1>2. Len(P) \in Nat
  BY TouchedFacts
<1> HIDE DEF P
<1>3. \A f : IsLoop(f, OutLoop(s, a, data), m, P) <=> f = [i \in 0 .. Len(P) |->
         IF i = 0 THEN m
         ELSE IF f[i - 1].ok
                THEN IF Tables!Reach(f[i - 1], s, P[i]).ok
                       THEN Tables!Write(Tables!Reach(f[i - 1], s, P[i]), P[i], a, data)
                       ELSE Tables!Reach(f[i - 1], s, P[i])
                ELSE f[i - 1]]
  BY DEF IsLoop, Body, OutLoop, Reached
<1>4. \E f : IsLoop(f, OutLoop(s, a, data), m, P)
  BY <1>2, LoopRuns
<1>5. \E f : f = [i \in 0 .. Len(P) |->
         IF i = 0 THEN m
         ELSE IF f[i - 1].ok
                THEN IF Tables!Reach(f[i - 1], s, P[i]).ok
                       THEN Tables!Write(Tables!Reach(f[i - 1], s, P[i]), P[i], a, data)
                       ELSE Tables!Reach(f[i - 1], s, P[i])
                ELSE f[i - 1]]
  BY <1>3, <1>4
<1>6. F = [i \in 0 .. Len(P) |->
         IF i = 0 THEN m
         ELSE IF F[i - 1].ok
                THEN IF Tables!Reach(F[i - 1], s, P[i]).ok
                       THEN Tables!Write(Tables!Reach(F[i - 1], s, P[i]), P[i], a, data)
                       ELSE Tables!Reach(F[i - 1], s, P[i])
                ELSE F[i - 1]]
  BY <1>5, Zenon
<1> HIDE DEF F
<1>7. IsLoop(F, OutLoop(s, a, data), m, P)
  BY <1>3, <1>6
<1> QED
  BY <1>1, <1>7 DEF P

LEMMA CopyoutFacts ==
  ASSUME NEW m, IsWork(m), NEW s \in Nat, Tables!RoundUp(s) <= Tables!SHM_VA,
         NEW a \in Nat, NEW data, Len(data) \in Int
  PROVE  Touches(m, Tables!Copyout(m, s, a, data), s)
<1>1. PICK n \in Int : n = Len(data)
  OBVIOUS
<1>2. PICK f : /\ IsLoop(f, OutLoop(s, a, data), m, Tables!Touched(a, n))
               /\ Tables!Copyout(m, s, a, data) = f[Len(Tables!Touched(a, n))]
  BY <1>1, CopyoutRuns
<1>3. PICK b \in Int : Tables!Touched(a, n) = Tables!PagesFrom(Tables!PageOf(a), b)
  BY TouchedFacts
<1>4. /\ OutLoop(s, a, data).of \in AccessLoops /\ s = OutLoop(s, a, data).s
      /\ Tables!PageOf(a) \in Nat
  BY AddressFacts DEF OutLoop, AccessLoops
<1> QED
  BY <1>2, <1>3, <1>4, AccessLoopFacts

LEMMA CopyinRuns ==
  ASSUME NEW m, NEW s, NEW a \in Nat, NEW n \in Int
  PROVE  \E f : /\ IsLoop(f, InLoop(s, a, n), m, Tables!Touched(a, n))
               /\ Tables!Copyin(m, s, a, n) = f[Len(Tables!Touched(a, n))]
<1> DEFINE P == Tables!Touched(a, n)
           F == CHOOSE f : f = [i \in 0 .. Len(P) |->
         IF i = 0 THEN m
         ELSE IF f[i - 1].ok
                THEN IF Tables!Reach(f[i - 1], s, P[i]).ok
                       THEN Tables!ReadPart(Tables!Reach(f[i - 1], s, P[i]), P[i], a, n)
                       ELSE Tables!Reach(f[i - 1], s, P[i])
                ELSE f[i - 1]]
<1>1. Tables!Copyin(m, s, a, n) = F[Len(P)]
  BY DEF Tables!Copyin, Tables!EachPage, Tables!Then
<1>2. Len(P) \in Nat
  BY TouchedFacts
<1> HIDE DEF P
<1>3. \A f : IsLoop(f, InLoop(s, a, n), m, P) <=> f = [i \in 0 .. Len(P) |->
         IF i = 0 THEN m
         ELSE IF f[i - 1].ok
                THEN IF Tables!Reach(f[i - 1], s, P[i]).ok
                       THEN Tables!ReadPart(Tables!Reach(f[i - 1], s, P[i]), P[i], a, n)
                       ELSE Tables!Reach(f[i - 1], s, P[i])
                ELSE f[i - 1]]
  BY DEF IsLoop, Body, InLoop, Reached
<1>4. \E f : IsLoop(f, InLoop(s, a, n), m, P)
  BY <1>2, LoopRuns
<1>5. \E f : f = [i \in 0 .. Len(P) |->
         IF i = 0 THEN m
         ELSE IF f[i - 1].ok
                THEN IF Tables!Reach(f[i - 1], s, P[i]).ok
                       THEN Tables!ReadPart(Tables!Reach(f[i - 1], s, P[i]), P[i], a, n)
                       ELSE Tables!Reach(f[i - 1], s, P[i])
                ELSE f[i - 1]]
  BY <1>3, <1>4
<1>6. F = [i \in 0 .. Len(P) |->
         IF i = 0 THEN m
         ELSE IF F[i - 1].ok
                THEN IF Tables!Reach(F[i - 1], s, P[i]).ok
                       THEN Tables!ReadPart(Tables!Reach(F[i - 1], s, P[i]), P[i], a, n)
                       ELSE Tables!Reach(F[i - 1], s, P[i])
                ELSE F[i - 1]]
  BY <1>5, Zenon
<1> HIDE DEF F
<1>7. IsLoop(F, InLoop(s, a, n), m, P)
  BY <1>3, <1>6
<1> QED
  BY <1>1, <1>7 DEF P

LEMMA CopyinFacts ==
  ASSUME NEW m, IsWork(m), NEW s \in Nat, Tables!RoundUp(s) <= Tables!SHM_VA,
         NEW a \in Nat, NEW n \in Int
  PROVE  Touches(m, Tables!Copyin(m, s, a, n), s)
<1>1. PICK f : /\ IsLoop(f, InLoop(s, a, n), m, Tables!Touched(a, n))
               /\ Tables!Copyin(m, s, a, n) = f[Len(Tables!Touched(a, n))]
  BY CopyinRuns
<1>2. PICK b \in Int : Tables!Touched(a, n) = Tables!PagesFrom(Tables!PageOf(a), b)
  BY TouchedFacts
<1>3. InLoop(s, a, n).of \in AccessLoops /\ s = InLoop(s, a, n).s /\ Tables!PageOf(a) \in Nat
  BY AddressFacts DEF InLoop, AccessLoops
<1> QED
  BY <1>1, <1>2, <1>3, AccessLoopFacts

\* What copyinstr() does with the bytes that it has read.
EndOf(t) == CHOOSE i \in 1 .. Len(t) : t[i] = 0 /\ \A j \in 1 .. i - 1 : t[j] # 0
AtEnd(r) == IF r.ok
              THEN IF Tables!Terminated(r.bytes)
                     THEN [r EXCEPT !.bytes = SubSeq(@, 1, EndOf(@))] ELSE Tables!Fail(r)
              ELSE r

LEMMA CopyinstrRuns ==
  ASSUME NEW m, NEW s, NEW a \in Nat, NEW n \in Int
  PROVE  \E f : /\ IsLoop(f, StringLoop(s, a, n), m, Tables!Touched(a, n))
               /\ Tables!Copyinstr(m, s, a, n) = AtEnd(f[Len(Tables!Touched(a, n))])
<1> DEFINE P == Tables!Touched(a, n)
           F == CHOOSE f : f = [i \in 0 .. Len(P) |->
         IF i = 0 THEN m
         ELSE IF f[i - 1].ok
                THEN IF Tables!Terminated(f[i - 1].bytes) THEN f[i - 1]
                     ELSE IF Tables!Reach(f[i - 1], s, P[i]).ok
                            THEN Tables!ReadPart(Tables!Reach(f[i - 1], s, P[i]), P[i], a, n)
                            ELSE Tables!Reach(f[i - 1], s, P[i])
                ELSE f[i - 1]]
<1>1. Tables!Copyinstr(m, s, a, n) = AtEnd(F[Len(P)])
  BY DEF Tables!Copyinstr, Tables!EachPage, Tables!Then, AtEnd, EndOf
<1>2. Len(P) \in Nat
  BY TouchedFacts
<1> HIDE DEF P
<1>3. \A f : IsLoop(f, StringLoop(s, a, n), m, P) <=> f = [i \in 0 .. Len(P) |->
         IF i = 0 THEN m
         ELSE IF f[i - 1].ok
                THEN IF Tables!Terminated(f[i - 1].bytes) THEN f[i - 1]
                     ELSE IF Tables!Reach(f[i - 1], s, P[i]).ok
                            THEN Tables!ReadPart(Tables!Reach(f[i - 1], s, P[i]), P[i], a, n)
                            ELSE Tables!Reach(f[i - 1], s, P[i])
                ELSE f[i - 1]]
  BY DEF IsLoop, Body, StringLoop, Reached
<1>4. \E f : IsLoop(f, StringLoop(s, a, n), m, P)
  BY <1>2, LoopRuns
<1>5. \E f : f = [i \in 0 .. Len(P) |->
         IF i = 0 THEN m
         ELSE IF f[i - 1].ok
                THEN IF Tables!Terminated(f[i - 1].bytes) THEN f[i - 1]
                     ELSE IF Tables!Reach(f[i - 1], s, P[i]).ok
                            THEN Tables!ReadPart(Tables!Reach(f[i - 1], s, P[i]), P[i], a, n)
                            ELSE Tables!Reach(f[i - 1], s, P[i])
                ELSE f[i - 1]]
  BY <1>3, <1>4
<1>6. F = [i \in 0 .. Len(P) |->
         IF i = 0 THEN m
         ELSE IF F[i - 1].ok
                THEN IF Tables!Terminated(F[i - 1].bytes) THEN F[i - 1]
                     ELSE IF Tables!Reach(F[i - 1], s, P[i]).ok
                            THEN Tables!ReadPart(Tables!Reach(F[i - 1], s, P[i]), P[i], a, n)
                            ELSE Tables!Reach(F[i - 1], s, P[i])
                ELSE F[i - 1]]
  BY <1>5, Zenon
<1> HIDE DEF F
<1>7. IsLoop(F, StringLoop(s, a, n), m, P)
  BY <1>3, <1>6
<1> QED
  BY <1>1, <1>7 DEF P

LEMMA CopyinstrFacts ==
  ASSUME NEW m, IsWork(m), NEW s \in Nat, Tables!RoundUp(s) <= Tables!SHM_VA,
         NEW a \in Nat, NEW n \in Int
  PROVE  Touches(m, Tables!Copyinstr(m, s, a, n), s)
<1>1. PICK f : /\ IsLoop(f, StringLoop(s, a, n), m, Tables!Touched(a, n))
               /\ Tables!Copyinstr(m, s, a, n) = AtEnd(f[Len(Tables!Touched(a, n))])
  BY CopyinstrRuns
<1>2. PICK b \in Int : Tables!Touched(a, n) = Tables!PagesFrom(Tables!PageOf(a), b)
  BY TouchedFacts
<1>3. /\ StringLoop(s, a, n).of \in AccessLoops /\ s = StringLoop(s, a, n).s
      /\ Tables!PageOf(a) \in Nat
  BY AddressFacts DEF StringLoop, AccessLoops
<1>4. PICK r : r = f[Len(Tables!Touched(a, n))]
  OBVIOUS
<1>5. Touches(m, r, s)
  BY <1>1, <1>2, <1>3, <1>4, AccessLoopFacts
<1>6. PICK c : AtEnd(r) =
         IF r.ok THEN IF Tables!Terminated(r.bytes) THEN [r EXCEPT !.bytes = c] ELSE Tables!Fail(r)
         ELSE r
  BY DEF AtEnd
<1>7. /\ Touches(r, Tables!Fail(r), s) /\ Touches(r, [r EXCEPT !.bytes = c], s)
      /\ Touches(r, r, s)
  BY <1>5, FailTouches, BytesTouch DEF Touches
<1> QED
  BY <1>1, <1>4, <1>5, <1>6, <1>7, TouchesTwice

-------------------------------------------------------------------------------
(***************************************************************************)
(* New page tables                                                         *)
(***************************************************************************)
LEMMA NoHeap ==
  Tables!RoundUp(0) = 0 /\ HeapPages(0) = {}
<1>1. Tables!RoundUp(0 * PGSIZE) = 0
  BY AddressFacts
<1>2. 0 * PGSIZE = 0
  BY TablesAssumption
<1> QED
  BY <1>1, <1>2 DEF HeapPages, PagesBelow

LEMMA RootFacts ==
  ASSUME NEW m, IsWork(m), IsEmpty(m)
  PROVE  LET r == [m EXCEPT !.tables = {<<>>}]
         IN /\ IsWork(r) /\ Others(r) = Others(m) - 1
            /\ Mapped(r) = {} /\ r.ok = m.ok
<1>1. PICK r : r = [m EXCEPT !.tables = {<<>>}]
  OBVIOUS
<1>2. r = [tables |-> {<<>>}, pte |-> m.pte, used |-> m.used, left |-> m.left,
           ok |-> m.ok, nomem |-> m.nomem, panic |-> m.panic, bytes |-> m.bytes]
  BY <1>1 DEF IsWork
<1>3. r.tables = {<<>>} /\ r.pte = m.pte /\ r.used = m.used /\ r.ok = m.ok
  BY <1>2
<1>4. m.pte = <<>> /\ DOMAIN m.pte = {} /\ m.tables = {}
  BY DEF IsEmpty
<1>5. IsFiniteSet({<<>>}) /\ Cardinality({<<>>}) = 1 /\ Cardinality({}) = 0
  BY FS_Singleton, FS_EmptySet
<1>6. IsTable(r)
  BY <1>3, <1>4, <1>5 DEF IsWork, IsTable
<1>7. IsWork(r)
  BY <1>2, <1>3, <1>6 DEF IsWork
<1>8. Own(r.pte) = {} /\ Own(m.pte) = {}
  BY <1>3, <1>4 DEF Own
<1>9. Others(r) = Others(m) - 1
  <2>1. m.used \in Int
    BY DEF IsWork
  <2>2. Others(m) = m.used - (Cardinality({}) + Cardinality({}))
    BY <1>4, <1>8 DEF Others
  <2>3. Others(r) = m.used - (Cardinality({<<>>}) + Cardinality({}))
    BY <1>3, <1>8 DEF Others
  <2> QED
    BY <1>5, <2>1, <2>2, <2>3
<1> QED
  BY <1>1, <1>3, <1>4, <1>7, <1>9 DEF Mapped

\* Either the two pages of the kernel are mapped or there is no page table.
LEMMA ProcPagetableFacts ==
  ASSUME ImagesBelowShm, NEW m, IsWork(m), IsEmpty(m), m.ok
  PROVE  LET r == Tables!ProcPagetable(m)
         IN /\ IsWork(r) /\ Others(r) = Others(m)
            /\ r.ok => Mapped(r) = KernelPages
            /\ ~r.ok => IsEmpty(r)
<1> DEFINE e1 == Tables!Entry("kernel", FALSE, FALSE)
           e2 == Tables!Entry("kernel", TRUE, FALSE)
<1>1. PICK k : k = Tables!Kalloc(m)
  OBVIOUS
<1>2. /\ IsWork(k) /\ Others(k) = (IF k.ok THEN Others(m) + 1 ELSE Others(m))
      /\ IsEmpty(k)
  BY <1>1, AllocFacts DEF IsEmpty
<1>3. PICK root : root = [k EXCEPT !.tables = {<<>>}]
  OBVIOUS
<1>4. /\ IsWork(root) /\ Others(root) = Others(k) - 1 /\ Mapped(root) = {}
      /\ root.ok = k.ok
  BY <1>2, <1>3, RootFacts
<1>5. PICK t : t = Tables!Mappages(root, Tables!TRAMPOLINE, e1)
  OBVIOUS
<1>6. PICK f : f = Tables!Mappages(t, Tables!TRAPFRAME, e2)
  OBVIOUS
<1>7. PICK g : g = Tables!Uvmunmap(f, {Tables!TRAMPOLINE}, FALSE)
  OBVIOUS
<1>8. PICK r : r = Tables!ProcPagetable(m)
  OBVIOUS
<1>9. r = IF ~k.ok THEN k
          ELSE IF ~t.ok THEN Tables!Uvmfree(t, 0)
          ELSE IF f.ok THEN f
          ELSE IF g.ok THEN g ELSE Tables!Uvmfree(g, 0)
  BY <1>1, <1>3, <1>5, <1>6, <1>7, <1>8
     DEF Tables!ProcPagetable, Tables!Then, Tables!OrUndo
<1>10. /\ IsEntry(Tables!TRAMPOLINE, e1) /\ IsEntry(Tables!TRAPFRAME, e2)
       /\ Tables!TRAMPOLINE # Tables!TRAPFRAME
       /\ ~(Tables!TRAMPOLINE < Tables!SHM_VA) /\ ~(Tables!TRAPFRAME < Tables!SHM_VA)
  BY PageNumbers DEF ImagesBelowShm, IsEntry, Tables!Entry, PagesBelow
<1> HIDE DEF e1, e2
<1>11. ASSUME NEW w, IsWork(w), Mapped(w) = {}
       PROVE  /\ IsWork(Tables!Uvmfree(w, 0)) /\ Others(Tables!Uvmfree(w, 0)) = Others(w)
              /\ IsEmpty(Tables!Uvmfree(w, 0)) /\ Tables!Uvmfree(w, 0).ok = w.ok
  <2>1. Tables!RoundUp(0) <= Tables!SHM_VA
    BY NoHeap, PageNumbers DEF ImagesBelowShm
  <2>2. Mapped(w) \subseteq HeapPages(0) /\ HeapPages(0) \subseteq Mapped(w)
    BY <1>11, NoHeap
  <2> QED
    BY <1>11, <2>1, <2>2, UvmfreeFacts
<1>12. CASE ~k.ok
  BY <1>2, <1>8, <1>9, <1>12
<1>13. CASE k.ok
  <2>1. Others(m) \in Int /\ Others(root) = Others(m)
    BY <1>2, <1>4, <1>13, WorkCounts
  <2>2. /\ IsWork(t) /\ Others(t) = Others(m)
        /\ t.ok => Mapped(t) = {Tables!TRAMPOLINE}
        /\ ~t.ok => Mapped(t) = {}
    <3>1. Tables!TRAMPOLINE \notin Mapped(root)
      BY <1>4
    <3>2. /\ IsWork(t)
          /\ t.ok => /\ Mapped(t) = Mapped(root) \cup {Tables!TRAMPOLINE}
                     /\ Others(t) = Others(root)
          /\ ~t.ok => t.pte = root.pte /\ Others(t) = Others(root)
      BY <1>4, <1>5, <1>10, <1>13, <3>1, MappagesFacts
    <3>3. ~t.ok => Mapped(t) = {}
      BY <1>4, <3>2 DEF Mapped
    <3> QED
      BY <1>4, <2>1, <3>2, <3>3
  <2>3. CASE ~t.ok
    BY <1>8, <1>9, <1>11, <1>13, <2>2, <2>3
  <2>4. CASE t.ok
    <3>1. Tables!TRAPFRAME \notin Mapped(t)
      BY <1>10, <2>2, <2>4
    <3>2. /\ IsWork(f)
          /\ f.ok => /\ Mapped(f) = Mapped(t) \cup {Tables!TRAPFRAME}
                     /\ Others(f) = Others(t)
          /\ ~f.ok => f.pte = t.pte /\ Others(f) = Others(t)
      BY <1>6, <1>10, <2>2, <2>4, <3>1, MappagesFacts
    <3>3. CASE f.ok
      BY <1>8, <1>9, <1>13, <2>2, <2>4, <3>2, <3>3 DEF KernelPages
    <3>4. CASE ~f.ok
      <4>1. Mapped(f) = {Tables!TRAMPOLINE}
        BY <2>2, <2>4, <3>2, <3>4 DEF Mapped
      <4>2. /\ IsWork(g) /\ Others(g) = Others(f) /\ Mapped(g) = {} /\ g.ok = f.ok
        <5>1. PICK pages : pages = {Tables!TRAMPOLINE}
          OBVIOUS
        <5>2. \A v \in pages : FALSE <=> v < Tables!SHM_VA
          BY <1>10, <5>1
        <5>3. pages \subseteq Mapped(f) /\ Mapped(f) \ pages = {}
          BY <4>1, <5>1
        <5>4. g = Tables!Uvmunmap(f, pages, FALSE)
          BY <1>7, <5>1
        <5>5. IsWork(g) /\ Others(g) = Others(f) /\ Mapped(g) = Mapped(f) \ pages /\ g.ok = f.ok
          BY <3>2, <5>2, <5>3, <5>4, UnmapFacts
        <5> QED
          BY <5>3, <5>5
      <4>3. r = Tables!Uvmfree(g, 0)
        BY <1>9, <1>13, <2>4, <3>4, <4>2
      <4> QED
        BY <1>8, <1>11, <2>2, <3>2, <3>4, <4>2, <4>3
    <3> QED
      BY <3>3, <3>4
  <2> QED
    BY <2>3, <2>4
<1> QED
  BY <1>12, <1>13

\* A new page table is that of a process without memory.
LEMMA EmptySpace ==
  ASSUME ImagesBelowShm, NEW m, IsWork(m), Mapped(m) = KernelPages
  PROVE  IsSpace(m, 0)
<1>1. Tables!RoundUp(0) <= Tables!SHM_VA /\ 0 \in Nat
  BY NoHeap, PageNumbers DEF ImagesBelowShm
<1> QED
  BY <1>1, NoHeap DEF IsSpace, IsWork, Mapped

LEMMA AllocprocFacts ==
  ASSUME ImagesBelowShm, NEW m, IsWork(m), IsEmpty(m), m.ok
  PROVE  LET r == Tables!Allocproc(m)
         IN /\ IsWork(r) /\ Others(r) = (IF r.ok THEN Others(m) + 1 ELSE Others(m))
            /\ r.ok => Mapped(r) = KernelPages
            /\ ~r.ok => IsEmpty(r)
<1>1. PICK k : k = Tables!Kalloc(m)
  OBVIOUS
<1>2. /\ IsWork(k) /\ Others(k) = (IF k.ok THEN Others(m) + 1 ELSE Others(m))
      /\ IsEmpty(k)
  BY <1>1, AllocFacts DEF IsEmpty
<1>3. PICK t : t = Tables!ProcPagetable(k)
  OBVIOUS
<1>4. PICK r : r = Tables!Allocproc(m)
  OBVIOUS
<1>5. r = IF ~k.ok THEN k ELSE IF t.ok THEN t ELSE Tables!Kfree(t, 1)
  BY <1>1, <1>3, <1>4 DEF Tables!Allocproc, Tables!Then, Tables!OrUndo
<1>6. CASE ~k.ok
  BY <1>2, <1>4, <1>5, <1>6
<1>7. CASE k.ok
  <2>1. /\ IsWork(t) /\ Others(t) = Others(k)
        /\ t.ok => Mapped(t) = KernelPages
        /\ ~t.ok => IsEmpty(t)
    BY <1>2, <1>3, <1>7, ProcPagetableFacts
  <2>2. PICK z : z = Tables!Kfree(t, 1)
    OBVIOUS
  <2>3. /\ IsWork(z) /\ Others(z) = Others(t) - 1
        /\ z.tables = t.tables /\ z.pte = t.pte /\ z.ok = t.ok
    BY <2>1, <2>2, FreeFacts
  <2>4. ~t.ok => IsEmpty(z)
    BY <2>1, <2>3 DEF IsEmpty
  <2>5. Others(m) \in Int
    BY WorkCounts
  <2> QED
    BY <1>2, <1>4, <1>5, <1>7, <2>1, <2>2, <2>3, <2>4, <2>5
<1> QED
  BY <1>6, <1>7

\* A space that has got pages of its heap.
LEMMA GrownSpace ==
  ASSUME NEW m, NEW s, IsSpace(m, s), NEW r, Touches(m, r, s)
  PROVE  IsSpace(r, s)
  BY DEF IsSpace, Touches, IsWork, Mapped

-------------------------------------------------------------------------------
(***************************************************************************)
(* The pages of all processes                                              *)
(***************************************************************************)
Pairs(S, F) == UNION {{p} \X F[p] : p \in S}

LEMMA PairsFinite ==
  ASSUME NEW S, IsFiniteSet(S), NEW F, \A q \in S : IsFiniteSet(F[q])
  PROVE  /\ IsFiniteSet(Pairs(S, F)) /\ Cardinality(Pairs(S, F)) \in Nat
         /\ \A q \in S : /\ IsFiniteSet({q} \X F[q])
                         /\ Cardinality({q} \X F[q]) = Cardinality(F[q])
<1>1. ASSUME NEW q \in S
      PROVE  IsFiniteSet({q} \X F[q]) /\ Cardinality({q} \X F[q]) = Cardinality(F[q])
  <2>1. IsFiniteSet({q}) /\ Cardinality({q}) = 1
    BY FS_Singleton
  <2>2. /\ IsFiniteSet({q} \X F[q])
        /\ Cardinality({q} \X F[q]) = Cardinality({q}) * Cardinality(F[q])
    BY <2>1, FS_Product
  <2>3. Cardinality(F[q]) \in Nat
    BY FS_CardinalityType
  <2> QED
    BY <2>1, <2>2, <2>3
<1> DEFINE T == {{q} \X F[q] : q \in S}
           f == [q \in S |-> {q} \X F[q]]
<1>2. f \in Surjection(S, T)
  BY DEF Surjection
<1>3. IsFiniteSet(T)
  <2> HIDE DEF T, f
  <2> QED
    BY <1>2, FS_Surjection
<1>4. \A X \in T : IsFiniteSet(X)
  BY <1>1
<1>5. IsFiniteSet(UNION T)
  <2> HIDE DEF T
  <2> QED
    BY <1>3, <1>4, FS_UNION
<1>6. Cardinality(UNION T) \in Nat
  <2> HIDE DEF T
  <2> QED
    BY <1>5, FS_CardinalityType
<1> QED
  BY <1>1, <1>5, <1>6 DEF Pairs

LEMMA PairsSplit ==
  ASSUME NEW S, IsFiniteSet(S), NEW F, \A q \in S : IsFiniteSet(F[q]), NEW p \in S
  PROVE  /\ Cardinality(Pairs(S \ {p}, F)) \in Nat /\ Cardinality(F[p]) \in Nat
         /\ Cardinality(Pairs(S, F)) = Cardinality(Pairs(S \ {p}, F)) + Cardinality(F[p])
<1>1. PICK R : R = S \ {p}
  OBVIOUS
<1>2. IsFiniteSet(R) /\ R \subseteq S
  BY <1>1, FS_Subset
<1>3. IsFiniteSet(Pairs(R, F)) /\ Cardinality(Pairs(R, F)) \in Nat
  BY <1>2, PairsFinite
<1>4. IsFiniteSet({p} \X F[p]) /\ Cardinality({p} \X F[p]) = Cardinality(F[p])
  <2>1. \A q \in S : /\ IsFiniteSet({q} \X F[q])
                     /\ Cardinality({q} \X F[q]) = Cardinality(F[q])
    BY PairsFinite, ZenonT(40)
  <2> QED
    BY <2>1, Zenon
<1>5. Pairs(S, F) = Pairs(R, F) \cup ({p} \X F[p])
  BY <1>1 DEF Pairs
<1>6. Pairs(R, F) \cap ({p} \X F[p]) = {}
  BY <1>1 DEF Pairs
<1>7. PICK A, B : A = Pairs(R, F) /\ B = {p} \X F[p]
  OBVIOUS
<1>8. Cardinality(A \cup B) = Cardinality(A) + Cardinality(B)
  BY <1>3, <1>4, <1>6, <1>7, CountUnion
<1>9. Cardinality(F[p]) \in Nat
  BY FS_CardinalityType
<1> QED
  BY <1>1, <1>3, <1>4, <1>5, <1>7, <1>8, <1>9

\* When the part of one process changes, so does the number of all by as much.
LEMMA PairsChange ==
  ASSUME NEW S, IsFiniteSet(S), NEW F, NEW G, NEW p \in S,
         \A q \in S : IsFiniteSet(F[q]) /\ IsFiniteSet(G[q]),
         \A q \in S \ {p} : G[q] = F[q]
  PROVE  /\ Cardinality(Pairs(S, F)) \in Nat /\ Cardinality(Pairs(S, G)) \in Nat
         /\ Cardinality(F[p]) \in Nat /\ Cardinality(G[p]) \in Nat
         /\ Cardinality(Pairs(S, G)) - Cardinality(Pairs(S, F))
              = Cardinality(G[p]) - Cardinality(F[p])
<1>1. Pairs(S \ {p}, F) = Pairs(S \ {p}, G)
  BY DEF Pairs
<1>2. /\ Cardinality(Pairs(S \ {p}, F)) \in Nat /\ Cardinality(F[p]) \in Nat
      /\ Cardinality(Pairs(S, F)) = Cardinality(Pairs(S \ {p}, F)) + Cardinality(F[p])
  BY PairsSplit
<1>3. /\ Cardinality(Pairs(S \ {p}, G)) \in Nat /\ Cardinality(G[p]) \in Nat
      /\ Cardinality(Pairs(S, G)) = Cardinality(Pairs(S \ {p}, G)) + Cardinality(G[p])
  BY PairsSplit
<1> QED
  BY <1>1, <1>2, <1>3

TablesOf(pt) == [q \in TableProc |-> pt[q].tables]
OwnOf(pt) == [q \in TableProc |-> Own(pt[q].pte)]
\* A trapframe for each page table.
TrapframesOf(pt) == [q \in TableProc |-> IF pt[q].tables = {} THEN {} ELSE {0}]

Accounted(pt, n) ==
  n = Cardinality(Pairs(TableProc, TablesOf(pt))) + Cardinality(Pairs(TableProc, OwnOf(pt)))
        + Cardinality(Pairs(TableProc, TrapframesOf(pt)))

Counted(t) == IsFiniteSet(t.tables) /\ IsFiniteSet(Own(t.pte))

\* The pages of one process.
Cost(t) == Cardinality(t.tables) + Cardinality(Own(t.pte)) + (IF t.tables = {} THEN 0 ELSE 1)

LEMMA TrapframesCount ==
  ASSUME NEW pt
  PROVE  Cardinality(Pairs(TableProc, TrapframesOf(pt)))
           = Cardinality({q \in TableProc : pt[q].tables # {}})
<1> DEFINE E == {q \in TableProc : pt[q].tables # {}}
           T == Pairs(TableProc, TrapframesOf(pt))
           f == [q \in E |-> <<q, 0>>]
<1>1. T = E \X {0}
  BY DEF Pairs, TrapframesOf
<1>2. IsFiniteSet(E) /\ IsFiniteSet({0}) /\ Cardinality({0}) = 1
  BY FS_Subset, FS_Singleton, TablesAssumption
<1>3. Cardinality(E) \in Nat
  BY <1>2, FS_CardinalityType
<1> HIDE DEF E
<1>4. Cardinality(E \X {0}) = Cardinality(E) * Cardinality({0})
  BY <1>2, FS_Product
<1> QED
  BY <1>1, <1>2, <1>3, <1>4 DEF E

LEMMA AccountedIs ==
  /\ ~crashed => (Tables!PagesAccounted <=> Accounted(pagetable, used))
  /\ ~crashed' => (Tables!PagesAccounted' <=> Accounted(pagetable', used'))
<1>1. ASSUME NEW pt
      PROVE  /\ UNION {{p} \X pt[p].tables : p \in TableProc} = Pairs(TableProc, TablesOf(pt))
             /\ UNION {{p} \X {v \in DOMAIN pt[p].pte : pt[p].pte[v].kind = "own"} :
                         p \in TableProc} = Pairs(TableProc, OwnOf(pt))
  BY DEF Pairs, TablesOf, OwnOf, Own
<1>2. \A pt : /\ UNION {{p} \X pt[p].tables : p \in TableProc} = Pairs(TableProc, TablesOf(pt))
              /\ UNION {{p} \X {v \in DOMAIN pt[p].pte : pt[p].pte[v].kind = "own"} :
                          p \in TableProc} = Pairs(TableProc, OwnOf(pt))
  BY <1>1
<1>3. \A S : Tables!Cardinality(S) = Cardinality(S)
  BY CountsAgree
<1>4. ~crashed => (Tables!PagesAccounted <=> Accounted(pagetable, used))
  <2>1. /\ UNION {{p} \X pagetable[p].tables : p \in TableProc}
             = Pairs(TableProc, TablesOf(pagetable))
        /\ UNION {{p} \X {v \in DOMAIN pagetable[p].pte : pagetable[p].pte[v].kind = "own"} :
                    p \in TableProc} = Pairs(TableProc, OwnOf(pagetable))
    BY <1>2
  <2>2. Cardinality({q \in TableProc : pagetable[q].tables # {}})
          = Cardinality(Pairs(TableProc, TrapframesOf(pagetable)))
    BY TrapframesCount
  <2> QED
    BY <1>3, <2>1, <2>2 DEF Tables!PagesAccounted, Tables!Exists, Accounted
<1>5. ~crashed' => (Tables!PagesAccounted' <=> Accounted(pagetable', used'))
  <2>1. /\ UNION {{p} \X pagetable'[p].tables : p \in TableProc}
             = Pairs(TableProc, TablesOf(pagetable'))
        /\ UNION {{p} \X {v \in DOMAIN pagetable'[p].pte : pagetable'[p].pte[v].kind = "own"} :
                    p \in TableProc} = Pairs(TableProc, OwnOf(pagetable'))
    BY <1>2
  <2>2. Cardinality({q \in TableProc : pagetable'[q].tables # {}})
          = Cardinality(Pairs(TableProc, TrapframesOf(pagetable')))
    BY TrapframesCount
  <2> QED
    BY <1>3, <2>1, <2>2 DEF Tables!PagesAccounted, Tables!Exists, Accounted
<1> QED
  BY <1>4, <1>5

LEMMA AccountChanges ==
  ASSUME NEW pt, \A q \in TableProc : Counted(pt[q]), NEW p \in TableProc,
         NEW new, \A q \in TableProc \ {p} : new[q] = pt[q], Counted(new[p]),
         NEW n \in Int, NEW k \in Int, Accounted(pt, n), k - n = Cost(new[p]) - Cost(pt[p])
  PROVE  Accounted(new, k)
<1>1. IsFiniteSet(TableProc)
  BY TablesAssumption
<1>2. \A q \in TableProc : Counted(new[q])
  OBVIOUS
<1>3. ASSUME NEW F, NEW G, \A q \in TableProc : IsFiniteSet(F[q]) /\ IsFiniteSet(G[q]),
             \A q \in TableProc \ {p} : G[q] = F[q]
      PROVE  /\ Cardinality(Pairs(TableProc, F)) \in Nat
             /\ Cardinality(Pairs(TableProc, G)) \in Nat
             /\ Cardinality(F[p]) \in Nat /\ Cardinality(G[p]) \in Nat
             /\ Cardinality(Pairs(TableProc, G)) - Cardinality(Pairs(TableProc, F))
                  = Cardinality(G[p]) - Cardinality(F[p])
  BY <1>1, <1>3, PairsChange
<1>4. PICK F1, G1 : F1 = TablesOf(pt) /\ G1 = TablesOf(new)
  OBVIOUS
<1>5. PICK F2, G2 : F2 = OwnOf(pt) /\ G2 = OwnOf(new)
  OBVIOUS
<1>6. PICK F3, G3 : F3 = TrapframesOf(pt) /\ G3 = TrapframesOf(new)
  OBVIOUS
<1>7. /\ Cardinality(Pairs(TableProc, F1)) \in Nat
      /\ Cardinality(Pairs(TableProc, G1)) \in Nat
      /\ Cardinality(F1[p]) \in Nat /\ Cardinality(G1[p]) \in Nat
      /\ Cardinality(Pairs(TableProc, G1)) - Cardinality(Pairs(TableProc, F1))
           = Cardinality(G1[p]) - Cardinality(F1[p])
  <2>1. /\ \A q \in TableProc : IsFiniteSet(F1[q]) /\ IsFiniteSet(G1[q])
        /\ \A q \in TableProc \ {p} : G1[q] = F1[q]
    BY <1>2, <1>4 DEF TablesOf, Counted
  <2> QED
    BY <1>3, <2>1
<1>8. /\ Cardinality(Pairs(TableProc, F2)) \in Nat
      /\ Cardinality(Pairs(TableProc, G2)) \in Nat
      /\ Cardinality(F2[p]) \in Nat /\ Cardinality(G2[p]) \in Nat
      /\ Cardinality(Pairs(TableProc, G2)) - Cardinality(Pairs(TableProc, F2))
           = Cardinality(G2[p]) - Cardinality(F2[p])
  <2>1. /\ \A q \in TableProc : IsFiniteSet(F2[q]) /\ IsFiniteSet(G2[q])
        /\ \A q \in TableProc \ {p} : G2[q] = F2[q]
    BY <1>2, <1>5 DEF OwnOf, Counted
  <2> QED
    BY <1>3, <2>1
<1>9. /\ Cardinality(Pairs(TableProc, F3)) \in Nat
      /\ Cardinality(Pairs(TableProc, G3)) \in Nat
      /\ Cardinality(F3[p]) \in Nat /\ Cardinality(G3[p]) \in Nat
      /\ Cardinality(Pairs(TableProc, G3)) - Cardinality(Pairs(TableProc, F3))
           = Cardinality(G3[p]) - Cardinality(F3[p])
  <2>1. IsFiniteSet({}) /\ IsFiniteSet({0})
    BY FS_EmptySet, FS_Singleton
  <2>2. /\ \A q \in TableProc : IsFiniteSet(F3[q]) /\ IsFiniteSet(G3[q])
        /\ \A q \in TableProc \ {p} : G3[q] = F3[q]
    BY <1>6, <2>1 DEF TrapframesOf
  <2> QED
    BY <1>3, <2>2
<1>10. /\ Cost(pt[p]) = Cardinality(F1[p]) + Cardinality(F2[p]) + Cardinality(F3[p])
       /\ Cost(new[p]) = Cardinality(G1[p]) + Cardinality(G2[p]) + Cardinality(G3[p])
  <2>1. Cardinality({}) = 0 /\ Cardinality({0}) = 1
    BY FS_EmptySet, FS_Singleton
  <2> QED
    BY <1>4, <1>5, <1>6, <2>1 DEF Cost, TablesOf, OwnOf, TrapframesOf
<1>11. n = Cardinality(Pairs(TableProc, F1)) + Cardinality(Pairs(TableProc, F2))
             + Cardinality(Pairs(TableProc, F3))
  BY <1>4, <1>5, <1>6 DEF Accounted
<1>12. k = Cardinality(Pairs(TableProc, G1)) + Cardinality(Pairs(TableProc, G2))
             + Cardinality(Pairs(TableProc, G3))
  BY <1>7, <1>8, <1>9, <1>10, <1>11
<1> QED
  BY <1>4, <1>5, <1>6, <1>12 DEF Accounted

-------------------------------------------------------------------------------
(***************************************************************************)
(* What the calls leave behind                                             *)
(***************************************************************************)
LEMMA WorkFacts ==
  ASSUME NEW t, IsTable(t), NEW n \in Int, NEW left
  PROVE  LET r == Tables!Work(t, n, left)
         IN /\ IsWork(r) /\ r.ok
            /\ r.tables = t.tables /\ r.pte = t.pte /\ r.used = n
            /\ Others(r) = n - (Cardinality(t.tables) + Cardinality(Own(t.pte)))
<1>1. PICK r : r = Tables!Work(t, n, left)
  OBVIOUS
<1>2. r = [tables |-> t.tables, pte |-> t.pte, used |-> n, left |-> left,
           ok |-> TRUE, nomem |-> FALSE, panic |-> FALSE, bytes |-> <<>>]
  BY <1>1 DEF Tables!Work
<1>3. /\ r.tables = t.tables /\ r.pte = t.pte /\ r.used = n /\ r.left = left
      /\ r.ok = TRUE /\ r.nomem = FALSE /\ r.panic = FALSE /\ r.bytes = <<>>
  BY <1>2
<1>4. IsTable(r)
  BY <1>3 DEF IsTable
<1>5. IsWork(r)
  BY <1>2, <1>3, <1>4 DEF IsWork
<1> QED
  BY <1>1, <1>3, <1>5 DEF Others

LEMMA NoTableFacts ==
  /\ IsTable(Tables!NoTable) /\ IsEmpty(Tables!NoTable)
  /\ \A t : IsEmpty(t) => /\ Counted(t) /\ Own(t.pte) = {}
                          /\ Cardinality(t.tables) = 0 /\ Cardinality(Own(t.pte)) = 0
                          /\ Cost(t) = 0
<1>1. IsFiniteSet({}) /\ Cardinality({}) = 0
  BY FS_EmptySet
<1>2. Tables!NoTable.tables = {} /\ Tables!NoTable.pte = <<>>
  BY DEF Tables!NoTable
<1>3. DOMAIN <<>> = {} /\ <<>> = [v \in {} |-> <<>>[v]] /\ IsFiniteSet(DOMAIN <<>>)
  BY <1>1
<1>4. IsTable(Tables!NoTable) /\ IsEmpty(Tables!NoTable)
  BY <1>1, <1>2, <1>3 DEF IsTable, IsEmpty
<1>5. ASSUME NEW t, IsEmpty(t)
      PROVE  /\ Counted(t) /\ Own(t.pte) = {}
             /\ Cardinality(t.tables) = 0 /\ Cardinality(Own(t.pte)) = 0
             /\ Cost(t) = 0
  <2>1. t.tables = {} /\ Own(t.pte) = {}
    BY <1>5 DEF IsEmpty, Own
  <2> QED
    BY <1>1, <2>1 DEF Counted, Cost
<1> QED
  BY <1>4, <1>5

LEMMA SpaceFacts ==
  ASSUME NEW t, NEW s, IsSpace(t, s)
  PROVE  /\ IsTable(t) /\ Counted(t) /\ t.tables # {} /\ ~IsEmpty(t)
         /\ s \in Nat /\ Tables!RoundUp(s) <= Tables!SHM_VA
         /\ Cardinality(t.tables) \in Nat /\ Cardinality(Own(t.pte)) \in Nat
         /\ Cost(t) = Cardinality(t.tables) + Cardinality(Own(t.pte)) + 1
<1>1. IsTable(t)
  BY DEF IsSpace
<1>2. Counted(t)
  BY <1>1, FS_Subset DEF Counted, IsTable, Own
<1>3. t.tables # {}
  <2>1. <<>> \in Tables!Path(Tables!TRAMPOLINE)
    BY PathFinite
  <2>2. Tables!TRAMPOLINE \in DOMAIN t.pte
    BY DEF IsSpace, KernelPages
  <2> QED
    BY <1>1, <2>1, <2>2 DEF IsTable
<1>4. Cardinality(t.tables) \in Nat /\ Cardinality(Own(t.pte)) \in Nat
  BY <1>2, FS_CardinalityType DEF Counted
<1> QED
  BY <1>1, <1>2, <1>3, <1>4 DEF IsSpace, IsEmpty, Cost

LEMMA KnownTables ==
  ASSUME TablesInv, NEW p \in TableProc
  PROVE  /\ Counted(pagetable[p]) /\ used \in Int
         /\ Cost(pagetable[p]) \in Int
         /\ Tables!Exists(p) => IsSpace(pagetable[p], size[p])
         /\ ~Tables!Exists(p) => IsEmpty(pagetable[p])
<1>1. IsEmpty(pagetable[p]) \/ IsSpace(pagetable[p], size[p])
  BY DEF TablesInv
<1>2. CASE IsEmpty(pagetable[p])
  <2>1. ~Tables!Exists(p)
    BY <1>2 DEF IsEmpty, Tables!Exists
  <2> QED
    BY <1>2, <2>1, NoTableFacts DEF TablesInv
<1>3. CASE IsSpace(pagetable[p], size[p])
  BY <1>3, SpaceFacts DEF TablesInv, Tables!Exists
<1> QED
  BY <1>1, <1>2, <1>3

\* The page table of one process becomes t, its size s.
LEMMA TableChanges ==
  ASSUME TablesInv, NEW p \in TableProc, NEW t, NEW s,
         t = [tables |-> t.tables, pte |-> t.pte], IsEmpty(t) \/ IsSpace(t, s),
         pagetable' = [pagetable EXCEPT ![p] = t], size' = [size EXCEPT ![p] = s],
         kernel' = kernel, crashed' = FALSE,
         used' \in Int, used' - used = Cost(t) - Cost(pagetable[p])
  PROVE  TablesInv'
<1>1. /\ pagetable = [q \in TableProc |-> pagetable[q]]
      /\ size = [q \in TableProc |-> size[q]]
  BY DEF TablesInv
<1>2. /\ pagetable'[p] = t /\ size'[p] = s
      /\ \A q \in TableProc \ {p} : pagetable'[q] = pagetable[q] /\ size'[q] = size[q]
      /\ pagetable' = [q \in TableProc |-> pagetable'[q]]
      /\ size' = [q \in TableProc |-> size'[q]]
  BY <1>1
<1>3. \A q \in TableProc : Counted(pagetable[q])
  BY KnownTables
<1>4. Counted(t)
  BY NoTableFacts, SpaceFacts
<1>5. Accounted(pagetable, used)
  BY AccountedIs DEF TablesInv
<1>6. Accounted(pagetable', used')
  <2>1. PICK pt, new, n, k :
           pt = pagetable /\ new = pagetable' /\ n = used /\ k = used'
    OBVIOUS
  <2>2. /\ \A q \in TableProc : Counted(pt[q])
        /\ \A q \in TableProc \ {p} : new[q] = pt[q]
        /\ Counted(new[p]) /\ n \in Int /\ k \in Int /\ Accounted(pt, n)
        /\ k - n = Cost(new[p]) - Cost(pt[p])
    BY <1>2, <1>3, <1>4, <1>5, <2>1, KnownTables
  <2>3. Accounted(new, k)
    BY <2>2, AccountChanges
  <2> QED
    BY <2>1, <2>3
<1>7. Tables!PagesAccounted'
  BY <1>6, AccountedIs
<1>8. ASSUME NEW q \in TableProc
      PROVE  /\ pagetable'[q] = [tables |-> pagetable'[q].tables, pte |-> pagetable'[q].pte]
             /\ IsEmpty(pagetable'[q]) \/ IsSpace(pagetable'[q], size'[q])
  <2>1. CASE q = p
    BY <1>2, <2>1
  <2>2. CASE q # p
    BY <1>2, <2>2 DEF TablesInv
  <2> QED
    BY <2>1, <2>2
<1>9. \A q \in TableProc :
        /\ pagetable'[q] = [tables |-> pagetable'[q].tables, pte |-> pagetable'[q].pte]
        /\ IsEmpty(pagetable'[q]) \/ IsSpace(pagetable[q], size[q])'
  BY <1>8 DEF IsSpace
<1>10. (\A q \in TableProc :
          /\ pagetable[q] = [tables |-> pagetable[q].tables, pte |-> pagetable[q].pte]
          /\ IsEmpty(pagetable[q]) \/ IsSpace(pagetable[q], size[q]))'
  BY <1>9
<1>11. kernel' \in Kernels /\ crashed' = FALSE
  BY DEF TablesInv
<1> QED
  BY <1>2, <1>7, <1>10, <1>11 DEF TablesInv

\* A call that has worked on the page table of p loses nothing.
LEMMA CallReturns ==
  ASSUME TablesInv, NEW p \in TableProc, Tables!Exists(p),
         NEW m, IsWork(m), NEW s, IsSpace(m, s),
         NEW left, Others(m) = Others(Tables!On(p, left)),
         Tables!Returns(p, m, s), NEW call, NEW args, Tables!Done(call, p, args, m)
  PROVE  TablesInv'
<1>1. IsSpace(pagetable[p], size[p]) /\ used \in Int
  BY KnownTables
<1>2. PICK t : t = Tables!Table(m)
  OBVIOUS
<1>3. /\ t = [tables |-> m.tables, pte |-> m.pte]
      /\ t.tables = m.tables /\ t.pte = m.pte
  BY <1>2 DEF Tables!Table
<1>4. IsSpace(t, s)
  BY <1>3 DEF IsSpace, IsTable
<1>5. Others(m) = used - (Cardinality(pagetable[p].tables) + Cardinality(Own(pagetable[p].pte)))
  <2>1. IsTable(pagetable[p])
    BY <1>1, SpaceFacts
  <2> QED
    BY <1>1, <2>1, WorkFacts DEF Tables!On
<1>6. used' = m.used /\ m.used \in Int /\ crashed' = FALSE /\ kernel' = kernel
  BY DEF Tables!Done, IsWork
<1>7. pagetable' = [pagetable EXCEPT ![p] = t] /\ size' = [size EXCEPT ![p] = s]
  BY <1>2 DEF Tables!Returns
<1>8. used' - used = Cost(t) - Cost(pagetable[p])
  <2>1. /\ Cardinality(t.tables) \in Nat /\ Cardinality(Own(t.pte)) \in Nat
        /\ Cost(t) = Cardinality(t.tables) + Cardinality(Own(t.pte)) + 1
    BY <1>4, SpaceFacts
  <2>2. /\ Cardinality(pagetable[p].tables) \in Nat
        /\ Cardinality(Own(pagetable[p].pte)) \in Nat
        /\ Cost(pagetable[p])
             = Cardinality(pagetable[p].tables) + Cardinality(Own(pagetable[p].pte)) + 1
    BY <1>1, SpaceFacts
  <2>3. Others(m) = m.used - (Cardinality(t.tables) + Cardinality(Own(t.pte)))
    BY <1>3 DEF Others
  <2> QED
    BY <1>1, <1>5, <1>6, <2>1, <2>2, <2>3
<1>9. t = [tables |-> t.tables, pte |-> t.pte]
  BY <1>3
<1>10. IsEmpty(t) \/ IsSpace(t, s)
  BY <1>4
<1> QED
  BY <1>6, <1>7, <1>8, <1>9, <1>10, TableChanges

\* A call on p begins like this.
LEMMA OnFacts ==
  ASSUME TablesInv, NEW p \in TableProc, Tables!Exists(p), NEW left
  PROVE  LET m == Tables!On(p, left)
         IN /\ IsWork(m) /\ m.ok /\ IsSpace(m, size[p]) /\ Mapped(m) = DOMAIN pagetable[p].pte
            /\ m.used = used /\ m.pte = pagetable[p].pte
<1>1. IsSpace(pagetable[p], size[p]) /\ used \in Int
  BY KnownTables
<1>2. PICK m : m = Tables!On(p, left)
  OBVIOUS
<1>3. /\ IsWork(m) /\ m.ok /\ m.tables = pagetable[p].tables /\ m.pte = pagetable[p].pte
      /\ m.used = used
  <2>1. IsTable(pagetable[p])
    BY <1>1, SpaceFacts
  <2> QED
    BY <1>1, <1>2, <2>1, WorkFacts DEF Tables!On
<1>4. IsSpace(m, size[p])
  BY <1>1, <1>3 DEF IsSpace, IsTable
<1> QED
  BY <1>2, <1>3, <1>4 DEF Mapped

\* The calls that read and write user memory.
LEMMA TouchReturns ==
  ASSUME TablesInv, NEW p \in TableProc, Tables!Exists(p), NEW left,
         NEW m, Touches(Tables!On(p, left), m, size[p]),
         Tables!Returns(p, m, size[p]), NEW call, NEW args, Tables!Done(call, p, args, m)
  PROVE  TablesInv'
<1>1. PICK k : k = Tables!On(p, left)
  OBVIOUS
<1>2. IsWork(k) /\ IsSpace(k, size[p])
  BY <1>1, OnFacts
<1>3. IsWork(m) /\ Others(m) = Others(k) /\ IsSpace(m, size[p])
  BY <1>1, <1>2, GrownSpace DEF Touches
<1> QED
  BY <1>1, <1>3, CallReturns

LEMMA NothingChanges ==
  ASSUME TablesInv, pagetable' = pagetable, size' = size, used' = used,
         kernel' = kernel, crashed' = FALSE
  PROVE  TablesInv'
<1>1. Accounted(pagetable, used)
  BY AccountedIs DEF TablesInv
<1>2. Tables!PagesAccounted'
  BY <1>1, AccountedIs
<1>3. ASSUME NEW p \in TableProc
      PROVE  /\ pagetable'[p] = [tables |-> pagetable'[p].tables, pte |-> pagetable'[p].pte]
             /\ IsEmpty(pagetable'[p]) \/ IsSpace(pagetable'[p], size'[p])
  BY DEF TablesInv
<1>4. (\A p \in TableProc :
         /\ pagetable[p] = [tables |-> pagetable[p].tables, pte |-> pagetable[p].pte]
         /\ IsEmpty(pagetable[p]) \/ IsSpace(pagetable[p], size[p]))'
  BY <1>3 DEF IsSpace
<1>5. /\ kernel' \in Kernels /\ crashed' = FALSE /\ used' \in Int
      /\ pagetable' = [p \in TableProc |-> pagetable'[p]]
      /\ size' = [p \in TableProc |-> size'[p]]
  BY DEF TablesInv
<1> QED
  BY <1>2, <1>4, <1>5 DEF TablesInv

\* Only the size changes, or nothing.
LEMMA SizeChanges ==
  ASSUME TablesInv, NEW p \in TableProc, NEW s, IsSpace(pagetable[p], s),
         pagetable' = pagetable, size' = [size EXCEPT ![p] = s], used' = used,
         kernel' = kernel, crashed' = FALSE
  PROVE  TablesInv'
<1>1. PICK t : t = pagetable[p]
  OBVIOUS
<1>2. t = [tables |-> t.tables, pte |-> t.pte] /\ pagetable' = [pagetable EXCEPT ![p] = t]
  BY <1>1 DEF TablesInv
<1>3. used' \in Int /\ used' - used = Cost(t) - Cost(pagetable[p])
  BY <1>1, KnownTables
<1>4. IsEmpty(t) \/ IsSpace(t, s)
  BY <1>1
<1> QED
  BY <1>2, <1>3, <1>4, TableChanges

LEMMA UvmallocSpace ==
  ASSUME NEW m, IsWork(m), m.ok, NEW s, IsSpace(m, s), NEW newsz \in Nat, s <= newsz,
         Tables!RoundUp(newsz) <= Tables!SHM_VA, NEW w
  PROVE  LET r == Tables!Uvmalloc(m, s, newsz, w)
         IN /\ IsWork(r) /\ Others(r) = Others(m)
            /\ IsSpace(r, IF r.ok THEN newsz ELSE s)
            /\ r.ok => Tables!RoundUp(s) .. Tables!RoundUp(newsz) - 1 \subseteq Mapped(r)
<1>1. PICK r : r = Tables!Uvmalloc(m, s, newsz, w)
  OBVIOUS
<1>2. PICK a \in Nat, b \in Nat : a = Tables!RoundUp(s) /\ b = Tables!RoundUp(newsz)
  BY SpaceFacts, AddressFacts
<1>3. s \in Nat /\ a <= b /\ b <= Tables!SHM_VA
  BY <1>2, SpaceFacts, AddressFacts
<1>4. Mapped(m) \cap (a .. b - 1) = {}
  <2>1. \A v \in a .. b - 1 : v \notin HeapPages(s) \cup {Tables!SHM_VA} \cup KernelPages
    BY <1>2, <1>3, PageNumbers DEF HeapPages, PagesBelow, KernelPages
  <2> QED
    BY <2>1 DEF IsSpace, Mapped
<1>5. /\ IsWork(r) /\ Others(r) = Others(m)
      /\ Mapped(r) = IF r.ok THEN Mapped(m) \cup (a .. b - 1) ELSE Mapped(m)
  BY <1>1, <1>2, <1>3, <1>4, UvmallocFacts
<1>6. CASE r.ok
  <2>1. HeapPages(newsz) = HeapPages(s) \cup (a .. b - 1)
    BY <1>2, <1>3 DEF HeapPages, PagesBelow
  <2>2. Mapped(r) = Mapped(m) \cup (a .. b - 1)
    BY <1>5, <1>6
  <2>3. IsSpace(r, newsz)
    BY <1>2, <1>3, <1>5, <2>1, <2>2 DEF IsSpace, Mapped, IsWork
  <2> QED
    BY <1>1, <1>2, <1>5, <1>6, <2>2, <2>3
<1>7. CASE ~r.ok
  <2>1. IsSpace(r, s)
    BY <1>5, <1>7 DEF IsSpace, Mapped, IsWork
  <2> QED
    BY <1>1, <1>5, <1>7, <2>1
<1> QED
  BY <1>6, <1>7

-------------------------------------------------------------------------------
(***************************************************************************)
(* The calls, one by one                                                   *)
(***************************************************************************)
LEMMA PageFaultKeeps ==
  ASSUME TablesInv, NEW p \in TableProc, NEW a \in Nat, NEW left, Tables!PageFault(p, a, left)
  PROVE  TablesInv'
<1>1. PICK k, m : k = Tables!On(p, left) /\ m = Tables!Vmfault(k, size[p], a)
  OBVIOUS
<1>2. /\ Tables!Exists(p) /\ Tables!Returns(p, m, size[p])
      /\ Tables!Done("fault", p, <<a>>, m)
  BY <1>1 DEF Tables!PageFault, Tables!Alone
<1>3. IsWork(k) /\ k.ok /\ IsSpace(k, size[p])
  BY <1>1, <1>2, OnFacts
<1>4. Touches(k, m, size[p])
  BY <1>1, <1>3, SpaceFacts, VmfaultFacts
<1> QED
  BY <1>1, <1>2, <1>4, TouchReturns

LEMMA StoreKeeps ==
  ASSUME TablesInv, NEW p \in TableProc, NEW a \in Nat, NEW data \in Data, NEW left,
         Tables!Store(p, a, data, left)
  PROVE  TablesInv'
<1>1. PICK k, m : k = Tables!On(p, left) /\ m = Tables!Copyout(k, size[p], a, data)
  OBVIOUS
<1>2. /\ Tables!Exists(p) /\ Tables!Returns(p, m, size[p])
      /\ Tables!Done("store", p, <<a, data>>, m)
  BY <1>1 DEF Tables!Store, Tables!Alone
<1>3. IsWork(k) /\ k.ok /\ IsSpace(k, size[p])
  BY <1>1, <1>2, OnFacts
<1>4. Touches(k, m, size[p])
  <2>1. Len(data) \in Int
    BY TablesAssumption
  <2> QED
    BY <1>1, <1>3, <2>1, SpaceFacts, CopyoutFacts
<1> QED
  BY <1>1, <1>2, <1>4, TouchReturns

LEMMA LoadKeeps ==
  ASSUME TablesInv, NEW p \in TableProc, NEW a \in Nat, NEW n \in Int, NEW left,
         Tables!Load(p, a, n, left)
  PROVE  TablesInv'
<1>1. PICK k, m : k = Tables!On(p, left) /\ m = Tables!Copyin(k, size[p], a, n)
  OBVIOUS
<1>2. /\ Tables!Exists(p) /\ Tables!Returns(p, m, size[p])
      /\ Tables!Done("load", p, <<a, n>>, m)
  BY <1>1 DEF Tables!Load, Tables!Alone
<1>3. IsWork(k) /\ k.ok /\ IsSpace(k, size[p])
  BY <1>1, <1>2, OnFacts
<1>4. Touches(k, m, size[p])
  BY <1>1, <1>3, SpaceFacts, CopyinFacts
<1> QED
  BY <1>1, <1>2, <1>4, TouchReturns

LEMMA FetchaddrKeeps ==
  ASSUME TablesInv, NEW p \in TableProc, NEW a \in Nat, NEW left,
         Tables!Fetchaddr(p, a, left)
  PROVE  TablesInv'
<1>1. PICK k : k = Tables!On(p, left)
  OBVIOUS
<1>2. PICK m : m = IF a >= size[p] \/ a + WORD > size[p] THEN Tables!Fail(k)
                   ELSE Tables!Copyin(k, size[p], a, WORD)
  OBVIOUS
<1>3. /\ Tables!Exists(p) /\ Tables!Returns(p, m, size[p])
      /\ Tables!Done("word", p, <<a>>, m)
  BY <1>1, <1>2 DEF Tables!Fetchaddr, Tables!Alone
<1>4. IsWork(k) /\ k.ok /\ IsSpace(k, size[p])
  BY <1>1, <1>3, OnFacts
<1>5. Touches(k, m, size[p])
  <2>1. WORD \in Int
    BY TablesAssumption
  <2>2. Touches(k, Tables!Copyin(k, size[p], a, WORD), size[p])
    BY <1>4, <2>1, SpaceFacts, CopyinFacts
  <2>3. Touches(k, Tables!Fail(k), size[p])
    BY <1>4, FailTouches
  <2> QED
    BY <1>2, <2>2, <2>3
<1> QED
  BY <1>1, <1>3, <1>5, TouchReturns

LEMMA FetchstrKeeps ==
  ASSUME TablesInv, NEW p \in TableProc, NEW a \in Nat, NEW n \in Int, NEW left,
         Tables!Fetchstr(p, a, n, left)
  PROVE  TablesInv'
<1>1. PICK k, m : k = Tables!On(p, left) /\ m = Tables!Copyinstr(k, size[p], a, n)
  OBVIOUS
<1>2. /\ Tables!Exists(p) /\ Tables!Returns(p, m, size[p])
      /\ Tables!Done("string", p, <<a, n>>, m)
  BY <1>1 DEF Tables!Fetchstr, Tables!Alone
<1>3. IsWork(k) /\ k.ok /\ IsSpace(k, size[p])
  BY <1>1, <1>2, OnFacts
<1>4. Touches(k, m, size[p])
  BY <1>1, <1>3, SpaceFacts, CopyinstrFacts
<1> QED
  BY <1>1, <1>2, <1>4, TouchReturns

LEMMA ShmGetKeeps ==
  ASSUME ImagesBelowShm, TablesInv, NEW p \in TableProc, NEW left, Tables!ShmGet(p, left)
  PROVE  TablesInv'
<1>1. PICK k : k = Tables!On(p, left)
  OBVIOUS
<1>2. PICK m : m = IF Tables!SHM_VA \in DOMAIN pagetable[p].pte THEN k
                   ELSE Tables!Mappages(k, Tables!SHM_VA, Tables!SharedEntry)
  OBVIOUS
<1>3. /\ Tables!Exists(p) /\ Tables!Returns(p, m, size[p]) /\ Tables!Done("shm", p, <<>>, m)
  BY <1>1, <1>2 DEF Tables!ShmGet, Tables!Alone
<1>4. /\ IsWork(k) /\ k.ok /\ IsSpace(k, size[p]) /\ Mapped(k) = DOMAIN pagetable[p].pte
  BY <1>1, <1>3, OnFacts
<1>5. /\ IsWork(m) /\ Others(m) = Others(k) /\ Mapped(k) \subseteq Mapped(m)
      /\ Mapped(m) \subseteq Mapped(k) \cup {Tables!SHM_VA}
  <2>1. CASE Tables!SHM_VA \in Mapped(k)
    BY <1>2, <1>4, <2>1
  <2>2. CASE Tables!SHM_VA \notin Mapped(k)
    <3>1. IsEntry(Tables!SHM_VA, Tables!SharedEntry) /\ ~(Tables!SHM_VA < Tables!SHM_VA)
      BY PageNumbers DEF ImagesBelowShm, IsEntry, Tables!SharedEntry, Tables!Entry, PagesBelow
    <3>2. m = Tables!Mappages(k, Tables!SHM_VA, Tables!SharedEntry)
      BY <1>2, <1>4, <2>2
    <3>3. /\ IsWork(m)
          /\ m.ok => Mapped(m) = Mapped(k) \cup {Tables!SHM_VA} /\ Others(m) = Others(k)
          /\ ~m.ok => m.pte = k.pte /\ Others(m) = Others(k)
      BY <1>4, <2>2, <3>1, <3>2, MappagesFacts
    <3> QED
      BY <3>3 DEF Mapped
  <2> QED
    BY <2>1, <2>2
<1>6. IsSpace(m, size[p])
  BY <1>4, <1>5 DEF IsSpace, Mapped, IsWork
<1> QED
  BY <1>1, <1>3, <1>5, <1>6, CallReturns

LEMMA ShrinkKeeps ==
  ASSUME TablesInv, NEW p \in TableProc, NEW n \in Nat, Tables!SbrkShrink(p, n)
  PROVE  TablesInv'
<1>1. PICK k, s : k = Tables!On(p, 0) /\ s = IF n <= size[p] THEN size[p] - n ELSE size[p]
  OBVIOUS
<1>2. PICK m : m = Tables!Uvmdealloc(k, size[p], s)
  OBVIOUS
<1>3. /\ Tables!Exists(p) /\ Tables!Returns(p, m, s) /\ Tables!Done("shrink", p, <<n>>, m)
  BY <1>1, <1>2 DEF Tables!SbrkShrink, Tables!Alone
<1>4. IsWork(k) /\ k.ok /\ IsSpace(k, size[p])
  BY <1>1, <1>3, OnFacts
<1>5. size[p] \in Nat /\ s \in Nat /\ s <= size[p]
  BY <1>1, <1>4, SpaceFacts
<1>6. PICK a \in Nat, b \in Nat : a = Tables!RoundUp(s) /\ b = Tables!RoundUp(size[p])
  BY <1>5, AddressFacts
<1>7. a <= b /\ b <= Tables!SHM_VA /\ HeapPages(s) = 0 .. a - 1 /\ HeapPages(size[p]) = 0 .. b - 1
  BY <1>4, <1>5, <1>6, SpaceFacts, AddressFacts DEF HeapPages, PagesBelow
<1>8. kernel # "A7" => a .. b - 1 \subseteq Mapped(k)
  BY <1>4, <1>7 DEF IsSpace, Mapped
<1>9. /\ IsWork(m) /\ Others(m) = Others(k) /\ Mapped(m) = Mapped(k) \ (a .. b - 1)
  <2>1. PICK old \in Nat : old = size[p]
    BY <1>5
  <2>2. /\ Tables!RoundUp(old) <= Tables!SHM_VA
        /\ kernel # "A7" => Tables!RoundUp(s) .. Tables!RoundUp(old) - 1 \subseteq Mapped(k)
    BY <1>6, <1>7, <1>8, <2>1
  <2>3. m = Tables!Uvmdealloc(k, old, s)
    BY <1>2, <2>1
  <2>4. /\ IsWork(m) /\ Others(m) = Others(k)
        /\ Mapped(m) = Mapped(k) \ (Tables!RoundUp(s) .. Tables!RoundUp(old) - 1)
    BY <1>4, <1>5, <2>2, <2>3, UvmdeallocFacts
  <2> QED
    BY <1>6, <2>1, <2>4
<1>10. IsSpace(m, s)
  <2>1. \A v \in a .. b - 1 : v \notin HeapPages(s) \cup {Tables!SHM_VA} \cup KernelPages
    BY <1>7, PageNumbers DEF KernelPages
  <2>2. HeapPages(size[p]) \ (a .. b - 1) = HeapPages(s)
    BY <1>7
  <2>3. a <= Tables!SHM_VA
    BY <1>7, PageNumbers
  <2> QED
    BY <1>4, <1>5, <1>6, <1>9, <2>1, <2>2, <2>3 DEF IsSpace, Mapped, IsWork
<1> QED
  BY <1>1, <1>3, <1>9, <1>10, CallReturns

\* A heap that grows within the bound stays below the shared page.
LEMMA WithinBoundFacts ==
  ASSUME ImagesBelowShm, TablesInv, NEW p \in TableProc, Tables!Exists(p), NEW n \in Nat,
         Tables!WithinBound(p, n), ~(size[p] + n > Tables!TRAPFRAME * PGSIZE)
  PROVE  /\ size[p] \in Nat /\ size[p] + n \in Nat /\ size[p] <= size[p] + n
         /\ Tables!RoundUp(size[p] + n) <= Tables!SHM_VA
<1>1. size[p] \in Nat
  BY KnownTables, SpaceFacts
<1>2. size[p] + n <= TableMaxSize /\ TableMaxSize \in Nat
  BY TablesAssumption DEF Tables!WithinBound
<1>3. Tables!RoundUp(size[p] + n) <= Tables!RoundUp(TableMaxSize)
  BY <1>1, <1>2, AddressFacts
<1>4. /\ Tables!RoundUp(size[p] + n) \in Int /\ Tables!RoundUp(TableMaxSize) \in Int
      /\ Tables!SHM_VA \in Int
  BY <1>1, <1>2, AddressFacts, PageNumbers
<1> QED
  BY <1>1, <1>3, <1>4 DEF ImagesBelowShm

LEMMA GrowKeeps ==
  ASSUME ImagesBelowShm, TablesInv, NEW p \in TableProc, NEW n \in Nat, NEW left,
         Tables!SbrkGrow(p, n, left)
  PROVE  TablesInv'
<1>1. PICK k, m : k = Tables!On(p, left) /\ m = Tables!Uvmalloc(k, size[p], size[p] + n, TRUE)
  OBVIOUS
<1>2. Tables!Exists(p) /\ Tables!WithinBound(p, n)
  BY DEF Tables!SbrkGrow, Tables!Alone
<1>3. IsWork(k) /\ k.ok /\ IsSpace(k, size[p]) /\ k.used = used
  BY <1>1, <1>2, OnFacts
<1>4. CASE size[p] + n > Tables!TRAPFRAME * PGSIZE
  <2>1. /\ pagetable' = pagetable /\ size' = size
        /\ Tables!Done("grow", p, <<n>>, Tables!Fail(k))
    BY <1>1, <1>4 DEF Tables!SbrkGrow
  <2>2. Tables!Fail(k).used = used /\ Tables!Fail(k).panic = FALSE
    BY <1>3 DEF Tables!Fail, IsWork
  <2> QED
    BY <2>1, <2>2, NothingChanges DEF Tables!Done
<1>5. CASE ~(size[p] + n > Tables!TRAPFRAME * PGSIZE)
  <2>1. PICK s : s = IF m.ok THEN size[p] + n ELSE size[p]
    OBVIOUS
  <2>2. Tables!Returns(p, m, s) /\ Tables!Done("grow", p, <<n>>, m)
    BY <1>1, <1>5, <2>1 DEF Tables!SbrkGrow
  <2>3. /\ size[p] + n \in Nat /\ size[p] <= size[p] + n
        /\ Tables!RoundUp(size[p] + n) <= Tables!SHM_VA
    BY <1>2, <1>5, WithinBoundFacts
  <2>4. IsWork(m) /\ Others(m) = Others(k) /\ IsSpace(m, s)
    BY <1>1, <1>3, <2>1, <2>3, UvmallocSpace
  <2> QED
    BY <1>1, <1>2, <2>2, <2>4, CallReturns
<1> QED
  BY <1>4, <1>5

\* The holes that sbrklazy() leaves are those of Assignment 7.
LEMMA LazyKeeps ==
  ASSUME ImagesBelowShm, "A4" \notin LazyKernels, TablesInv, NEW p \in TableProc,
         NEW n \in Nat, Tables!SbrkLazy(p, n)
  PROVE  TablesInv'
<1>1. PICK k : k = Tables!On(p, 0)
  OBVIOUS
<1>2. Tables!Exists(p) /\ Tables!WithinBound(p, n) /\ pagetable' = pagetable
  BY DEF Tables!SbrkLazy, Tables!Alone
<1>3. kernel = "A7"
  <2>1. kernel \in Kernels /\ kernel \in LazyKernels
    BY DEF Tables!SbrkLazy, TablesInv
  <2> QED
    BY <2>1, MemoryAssumption
<1>4. IsWork(k) /\ k.ok /\ IsSpace(k, size[p]) /\ k.used = used
  BY <1>1, <1>2, OnFacts
<1>5. IsSpace(pagetable[p], size[p])
  BY <1>2, KnownTables
<1>6. CASE size[p] + n > Tables!TRAPFRAME * PGSIZE
  <2>1. size' = size /\ Tables!Done("grow", p, <<n>>, Tables!Fail(k))
    BY <1>1, <1>6 DEF Tables!SbrkLazy
  <2>2. Tables!Fail(k).used = used /\ Tables!Fail(k).panic = FALSE
    BY <1>4 DEF Tables!Fail, IsWork
  <2> QED
    BY <1>2, <2>1, <2>2, NothingChanges DEF Tables!Done
<1>7. CASE ~(size[p] + n > Tables!TRAPFRAME * PGSIZE)
  <2>1. size' = [size EXCEPT ![p] = size[p] + n] /\ Tables!Done("grow", p, <<n>>, k)
    BY <1>1, <1>7 DEF Tables!SbrkLazy
  <2>2. /\ size[p] \in Nat /\ size[p] + n \in Nat /\ size[p] <= size[p] + n
        /\ Tables!RoundUp(size[p] + n) <= Tables!SHM_VA
    BY <1>2, <1>7, WithinBoundFacts
  <2>3. IsSpace(pagetable[p], size[p] + n)
    <3>1. HeapPages(size[p]) \subseteq HeapPages(size[p] + n)
      <4>1. PICK a \in Nat, b \in Nat : a = size[p] /\ b = size[p] + n
        BY <2>2
      <4>2. /\ Tables!RoundUp(a) \in Nat /\ Tables!RoundUp(b) \in Nat
            /\ Tables!RoundUp(a) <= Tables!RoundUp(b)
        BY <2>2, <4>1, AddressFacts
      <4> QED
        BY <4>1, <4>2 DEF HeapPages, PagesBelow
    <3> QED
      BY <1>3, <1>5, <2>2, <3>1 DEF IsSpace
  <2>4. used' = used /\ kernel' = kernel /\ crashed' = FALSE
    BY <1>4, <2>1 DEF Tables!Done, IsWork
  <2> QED
    BY <1>2, <2>1, <2>3, <2>4, SizeChanges
<1> QED
  BY <1>6, <1>7

LEMMA ExitKeeps ==
  ASSUME TablesInv, NEW p \in TableProc, Tables!Exit(p)
  PROVE  TablesInv'
<1>1. PICK k, m : k = Tables!On(p, 0) /\ m = Tables!Freeproc(k, size[p])
  OBVIOUS
<1>2. /\ Tables!Exists(p) /\ Tables!Returns(p, m, 0) /\ Tables!Done("exit", p, <<>>, m)
  BY <1>1 DEF Tables!Exit
<1>3. IsWork(k) /\ k.ok /\ IsSpace(k, size[p]) /\ k.pte = pagetable[p].pte
  BY <1>1, <1>2, OnFacts
<1>4. IsWork(m) /\ Others(m) = Others(k) - 1 /\ IsEmpty(m)
  BY <1>1, <1>3, FreeprocFacts
<1>5. PICK t : t = Tables!Table(m)
  OBVIOUS
<1>6. t = [tables |-> m.tables, pte |-> m.pte] /\ t = [tables |-> t.tables, pte |-> t.pte]
  BY <1>5 DEF Tables!Table
<1>7. IsEmpty(t) /\ Cost(t) = 0
  BY <1>4, <1>6, NoTableFacts DEF IsEmpty
<1>8. IsSpace(pagetable[p], size[p]) /\ used \in Int
  BY <1>2, KnownTables
<1>9. /\ Cardinality(pagetable[p].tables) \in Nat /\ Cardinality(Own(pagetable[p].pte)) \in Nat
      /\ Cost(pagetable[p])
           = Cardinality(pagetable[p].tables) + Cardinality(Own(pagetable[p].pte)) + 1
      /\ IsTable(pagetable[p])
  BY <1>8, SpaceFacts
<1>10. Others(k) = used - (Cardinality(pagetable[p].tables) + Cardinality(Own(pagetable[p].pte)))
  BY <1>1, <1>8, <1>9, WorkFacts DEF Tables!On
<1>11. Others(m) = m.used - (0 + 0) /\ m.used \in Int
  BY <1>4, NoTableFacts DEF Others, IsWork
<1>12. used' = m.used /\ crashed' = FALSE /\ kernel' = kernel
  BY <1>2, <1>4 DEF Tables!Done, IsWork
<1>13. used' \in Int /\ used' - used = Cost(t) - Cost(pagetable[p])
  BY <1>4, <1>7, <1>8, <1>9, <1>10, <1>11, <1>12
<1>14. pagetable' = [pagetable EXCEPT ![p] = t] /\ size' = [size EXCEPT ![p] = 0]
  BY <1>2, <1>5 DEF Tables!Returns
<1> QED
  BY <1>6, <1>7, <1>12, <1>13, <1>14, TableChanges

\* kfork() does not look at the result of mapping the shared page.
LEMMA OkTrue ==
  ASSUME NEW m, IsWork(m)
  PROVE  LET r == [m EXCEPT !.ok = TRUE]
         IN /\ IsWork(r) /\ Others(r) = Others(m) /\ Mapped(r) = Mapped(m) /\ r.ok
<1>1. PICK r : r = [m EXCEPT !.ok = TRUE]
  OBVIOUS
<1>2. r = [tables |-> m.tables, pte |-> m.pte, used |-> m.used, left |-> m.left,
           ok |-> TRUE, nomem |-> m.nomem, panic |-> m.panic, bytes |-> m.bytes]
  BY <1>1 DEF IsWork
<1>3. r.tables = m.tables /\ r.pte = m.pte /\ r.used = m.used /\ r.ok
  BY <1>2
<1>4. IsWork(r)
  BY <1>2 DEF IsWork, IsTable
<1> QED
  BY <1>1, <1>3, <1>4 DEF Others, Mapped

\* A call that got nowhere has given back every page.
LEMMA EmptyCosts ==
  ASSUME NEW m, IsWork(m), IsEmpty(m)
  PROVE  m.used = Others(m)
  BY NoTableFacts DEF IsWork, Others

\* A table that was made from nothing while `used' pages were in use costs the
\* pages that it adds to them, its trapframe included.
LEMMA NewCosts ==
  ASSUME NEW m, IsWork(m), NEW s, IsSpace(m, s), NEW n \in Int, Others(m) = n + 1
  PROVE  m.used \in Int /\ m.used - n = Cost(m)
<1>1. /\ Cardinality(m.tables) \in Nat /\ Cardinality(Own(m.pte)) \in Nat
      /\ Cost(m) = Cardinality(m.tables) + Cardinality(Own(m.pte)) + 1
  BY SpaceFacts
<1>2. m.used \in Int
  BY DEF IsWork
<1> QED
  BY <1>1, <1>2 DEF Others

\* uvmcopy() into a new process, and what kfork() does when it fails.
LEMMA CopyFacts ==
  ASSUME ImagesBelowShm, NEW m, IsWork(m), m.ok, Mapped(m) = KernelPages,
         NEW t, NEW s, IsSpace(t, s)
  PROVE  LET c == Tables!Uvmcopy(m, t.pte, s)
             r == IF c.ok THEN c ELSE Tables!Freeproc(c, 0)
         IN /\ IsWork(r)
            /\ r.ok => /\ Others(r) = Others(m)
                       /\ Mapped(r) = KernelPages \cup (DOMAIN t.pte \cap HeapPages(s))
            /\ ~r.ok => Others(r) = Others(m) - 1 /\ IsEmpty(r)
<1>1. PICK c : c = Tables!Uvmcopy(m, t.pte, s)
  OBVIOUS
<1>2. PICK old : old = t.pte
  OBVIOUS
<1>3. PICK z \in Nat : z = s
  BY SpaceFacts
<1>4. /\ Tables!RoundUp(z) <= Tables!SHM_VA
      /\ \A v \in DOMAIN old : IsEntry(v, old[v])
      /\ kernel # "A7" => HeapPages(z) \subseteq DOMAIN old
  BY <1>2, <1>3 DEF IsSpace, IsTable
<1>5. Mapped(m) \cap HeapPages(z) = {}
  <2>1. Tables!RoundUp(z) \in Nat
    BY AddressFacts
  <2>2. \A v \in HeapPages(z) : v \notin KernelPages
    BY <1>4, <2>1, PageNumbers DEF HeapPages, PagesBelow, KernelPages
  <2> QED
    BY <2>2
<1>6. c = Tables!Uvmcopy(m, old, z)
  BY <1>1, <1>2, <1>3
<1>7. /\ IsWork(c) /\ Others(c) = Others(m)
      /\ Mapped(c) = IF c.ok THEN Mapped(m) \cup (DOMAIN old \cap HeapPages(z)) ELSE Mapped(m)
  BY <1>4, <1>5, <1>6, UvmcopyFacts
<1>8. CASE c.ok
  BY <1>1, <1>2, <1>3, <1>7, <1>8
<1>9. CASE ~c.ok
  <2>1. IsSpace(c, 0)
    BY <1>7, <1>9, EmptySpace
  <2>2. PICK r : r = Tables!Freeproc(c, 0)
    OBVIOUS
  <2>3. IsWork(r) /\ Others(r) = Others(c) - 1 /\ IsEmpty(r) /\ r.ok = c.ok
    BY <1>7, <2>1, <2>2, FreeprocFacts
  <2> QED
    BY <1>1, <1>7, <1>9, <2>2, <2>3
<1> QED
  BY <1>8, <1>9

LEMMA ShareFacts ==
  ASSUME ImagesBelowShm, NEW m, IsWork(m), m.ok, Tables!SHM_VA \notin Mapped(m)
  PROVE  LET r == [Tables!Mappages(m, Tables!SHM_VA, Tables!SharedEntry) EXCEPT !.ok = TRUE]
         IN /\ IsWork(r) /\ Others(r) = Others(m) /\ r.ok
            /\ Mapped(m) \subseteq Mapped(r)
            /\ Mapped(r) \subseteq Mapped(m) \cup {Tables!SHM_VA}
<1>1. PICK w : w = Tables!Mappages(m, Tables!SHM_VA, Tables!SharedEntry)
  OBVIOUS
<1>2. PICK r : r = [w EXCEPT !.ok = TRUE]
  OBVIOUS
<1>3. IsEntry(Tables!SHM_VA, Tables!SharedEntry) /\ ~(Tables!SHM_VA < Tables!SHM_VA)
  BY PageNumbers DEF ImagesBelowShm, IsEntry, Tables!SharedEntry, Tables!Entry, PagesBelow
<1>4. /\ IsWork(w)
      /\ w.ok => Mapped(w) = Mapped(m) \cup {Tables!SHM_VA} /\ Others(w) = Others(m)
      /\ ~w.ok => w.pte = m.pte /\ Others(w) = Others(m)
  BY <1>1, <1>3, MappagesFacts
<1>5. /\ Others(w) = Others(m) /\ Mapped(m) \subseteq Mapped(w)
      /\ Mapped(w) \subseteq Mapped(m) \cup {Tables!SHM_VA}
  BY <1>4 DEF Mapped
<1>6. IsWork(r) /\ Others(r) = Others(w) /\ Mapped(r) = Mapped(w) /\ r.ok
  BY <1>2, <1>4, OkTrue
<1> QED
  BY <1>1, <1>2, <1>5, <1>6

LEMMA ForkKeeps ==
  ASSUME ImagesBelowShm, TablesInv, NEW p \in TableProc, NEW np \in TableProc, NEW left,
         Tables!Fork(p, np, left)
  PROVE  TablesInv'
<1>1. PICK k : k = Tables!Work(Tables!NoTable, used, left)
  OBVIOUS
<1>2. PICK a : a = Tables!Allocproc(k)
  OBVIOUS
<1>3. PICK u : u = Tables!Uvmcopy(a, pagetable[p].pte, size[p])
  OBVIOUS
<1>4. PICK c : c = IF u.ok THEN u ELSE Tables!Freeproc(u, 0)
  OBVIOUS
<1>5. PICK h : h = [Tables!Mappages(c, Tables!SHM_VA, Tables!SharedEntry) EXCEPT !.ok = TRUE]
  OBVIOUS
<1>6. PICK m : m = IF ~a.ok THEN a
                   ELSE IF c.ok /\ Tables!SHM_VA \in DOMAIN pagetable[p].pte THEN h ELSE c
  OBVIOUS
<1>7. /\ Tables!Alone(p) /\ np # p /\ Tables!Done("fork", p, <<np>>, m)
      /\ IF m.ok THEN Tables!Returns(np, m, size[p])
         ELSE pagetable' = pagetable /\ size' = size
  BY <1>1, <1>2, <1>3, <1>4, <1>5, <1>6 DEF Tables!Fork, Tables!Then, Tables!OrUndo
<1>8. /\ Tables!Exists(p) /\ ~Tables!Exists(np)
      /\ IsSpace(pagetable[p], size[p]) /\ IsEmpty(pagetable[np]) /\ used \in Int
  BY <1>7, KnownTables DEF Tables!Alone
<1>9. IsWork(k) /\ k.ok /\ IsEmpty(k) /\ Others(k) = used
  <2>1. /\ IsWork(k) /\ k.ok /\ k.used = used
        /\ k.tables = Tables!NoTable.tables /\ k.pte = Tables!NoTable.pte
    BY <1>1, <1>8, NoTableFacts, WorkFacts
  <2>2. IsEmpty(k)
    BY <2>1, NoTableFacts DEF IsEmpty
  <2> QED
    BY <2>1, <2>2, EmptyCosts
<1>10. /\ IsWork(a) /\ Others(a) = (IF a.ok THEN used + 1 ELSE used)
       /\ a.ok => Mapped(a) = KernelPages
       /\ ~a.ok => IsEmpty(a)
  BY <1>2, <1>9, AllocprocFacts
<1>11. a.ok => /\ IsWork(c)
               /\ c.ok => /\ Others(c) = used + 1
                          /\ Mapped(c) = KernelPages
                               \cup (DOMAIN pagetable[p].pte \cap HeapPages(size[p]))
               /\ ~c.ok => Others(c) = used /\ IsEmpty(c)
  <2>1. ASSUME a.ok
        PROVE  /\ IsWork(c)
               /\ c.ok => /\ Others(c) = Others(a)
                          /\ Mapped(c) = KernelPages
                               \cup (DOMAIN pagetable[p].pte \cap HeapPages(size[p]))
               /\ ~c.ok => Others(c) = Others(a) - 1 /\ IsEmpty(c)
    BY <1>3, <1>4, <1>8, <1>10, <2>1, CopyFacts
  <2> QED
    BY <1>8, <1>10, <2>1
<1>12. \A v \in HeapPages(size[p]) \cup KernelPages : v # Tables!SHM_VA
  <2>1. PICK s \in Nat : s = size[p] /\ Tables!RoundUp(s) <= Tables!SHM_VA
    BY <1>8, SpaceFacts
  <2>2. Tables!RoundUp(s) \in Nat
    BY AddressFacts
  <2> QED
    BY <2>1, <2>2, PageNumbers DEF HeapPages, PagesBelow, KernelPages
<1>13. CASE m.ok
  <2>1. a.ok /\ c.ok
    BY <1>6, <1>13
  <2>2. /\ IsWork(m) /\ Others(m) = used + 1 /\ Mapped(c) \subseteq Mapped(m)
        /\ Mapped(m) \subseteq Mapped(c) \cup {Tables!SHM_VA}
    <3>1. /\ IsWork(h) /\ Others(h) = Others(c) /\ Mapped(c) \subseteq Mapped(h)
          /\ Mapped(h) \subseteq Mapped(c) \cup {Tables!SHM_VA}
      <4>1. Tables!SHM_VA \notin Mapped(c)
        BY <1>11, <1>12, <2>1
      <4> QED
        BY <1>5, <1>11, <2>1, <4>1, ShareFacts
    <3> QED
      BY <1>6, <1>11, <2>1, <3>1
  <2>3. IsSpace(m, size[p])
    BY <1>8, <1>11, <2>1, <2>2 DEF IsSpace, IsWork, Mapped
  <2>4. PICK t : t = Tables!Table(m)
    OBVIOUS
  <2>5. /\ t.tables = m.tables /\ t.pte = m.pte
        /\ t = [tables |-> t.tables, pte |-> t.pte]
    BY <2>4 DEF Tables!Table
  <2>6. IsSpace(t, size[p]) /\ Cost(t) = Cost(m)
    BY <2>3, <2>5 DEF IsSpace, IsTable, Cost
  <2>7. /\ pagetable' = [pagetable EXCEPT ![np] = t] /\ size' = [size EXCEPT ![np] = size[p]]
        /\ used' = m.used /\ crashed' = FALSE /\ kernel' = kernel
    BY <1>7, <1>13, <2>2, <2>4 DEF Tables!Returns, Tables!Done, IsWork
  <2>8. m.used \in Int /\ m.used - used = Cost(m)
    BY <1>8, <2>2, <2>3, NewCosts
  <2>9. Cost(pagetable[np]) = 0
    BY <1>8, NoTableFacts
  <2>10. used' \in Int /\ used' - used = Cost(t) - Cost(pagetable[np])
    BY <1>8, <2>6, <2>7, <2>8, <2>9
  <2>11. IsEmpty(t) \/ IsSpace(t, size[p])
    BY <2>6
  <2> QED
    BY <2>5, <2>7, <2>10, <2>11, TableChanges
<1>14. CASE ~m.ok
  <2>1. a.ok /\ c.ok => h.ok
    <3>1. a.ok /\ c.ok => Tables!SHM_VA \notin Mapped(c) /\ IsWork(c)
      BY <1>11, <1>12
    <3> QED
      BY <1>5, <3>1, ShareFacts
  <2>2. IsWork(m) /\ IsEmpty(m) /\ Others(m) = used
    BY <1>6, <1>10, <1>11, <1>14, <2>1
  <2>3. m.used = used /\ m.panic = FALSE
    BY <2>2, EmptyCosts DEF IsWork
  <2> QED
    BY <1>7, <1>14, <2>3, NothingChanges DEF Tables!Done
<1> QED
  BY <1>13, <1>14

\* The segments and the stack of a new image, and what kexec() does when there
\* is no room for them.
LEMMA SegmentFacts ==
  ASSUME NEW m, IsWork(m), m.ok, NEW s, IsSpace(m, s), NEW newsz \in Nat, s <= newsz,
         Tables!RoundUp(newsz) <= Tables!SHM_VA, NEW w
  PROVE  LET x == Tables!Uvmalloc(m, s, newsz, w)
             r == IF x.ok THEN x ELSE Tables!ProcFreepagetable(x, s)
         IN /\ IsWork(r) /\ Others(r) = Others(m)
            /\ r.ok => /\ IsSpace(r, newsz)
                       /\ Tables!RoundUp(s) .. Tables!RoundUp(newsz) - 1 \subseteq Mapped(r)
            /\ ~r.ok => IsEmpty(r)
<1>1. PICK x : x = Tables!Uvmalloc(m, s, newsz, w)
  OBVIOUS
<1>2. /\ IsWork(x) /\ Others(x) = Others(m)
      /\ IsSpace(x, IF x.ok THEN newsz ELSE s)
      /\ x.ok => Tables!RoundUp(s) .. Tables!RoundUp(newsz) - 1 \subseteq Mapped(x)
  BY <1>1, UvmallocSpace
<1>3. CASE x.ok
  BY <1>1, <1>2, <1>3
<1>4. CASE ~x.ok
  <2>1. PICK r : r = Tables!ProcFreepagetable(x, s)
    OBVIOUS
  <2>2. IsWork(r) /\ Others(r) = Others(x) /\ IsEmpty(r) /\ r.ok = x.ok
    BY <1>2, <1>4, <2>1, FreepagetableFacts
  <2> QED
    BY <1>1, <1>2, <1>4, <2>1, <2>2
<1> QED
  BY <1>3, <1>4

\* The guard page is there, and stays where it is.
LEMMA UvmclearFacts ==
  ASSUME NEW m, IsWork(m), NEW v \in Mapped(m), NEW s
  PROVE  Touches(m, Tables!Uvmclear(m, v), s) /\ Tables!Uvmclear(m, v).ok = m.ok
<1>1. PICK e : e = [m.pte[v] EXCEPT !.u = FALSE]
  OBVIOUS
<1>2. Tables!Path(v) \subseteq m.tables /\ IsEntry(v, m.pte[v])
  BY DEF IsWork, IsTable, Mapped
<1>3. Tables!PanicIf(~(Tables!Path(v) \subseteq m.tables), m) = m
  BY <1>2 DEF Tables!PanicIf, IsWork
<1>4. Tables!Uvmclear(m, v) = [m EXCEPT !.pte = [@ EXCEPT ![v] = e]]
  BY <1>1, <1>3 DEF Tables!Uvmclear
<1>5. IsEntry(v, e)
  <2>1. PICK old : old = m.pte[v]
    OBVIOUS
  <2> QED
    BY <1>1, <1>2, <2>1 DEF IsEntry
<1>6. Tables!Uvmclear(m, v).ok = m.ok
  BY <1>4 DEF IsWork
<1> QED
  BY <1>4, <1>5, <1>6, EntryTouches

LEMMA ExecKeeps ==
  ASSUME ImagesBelowShm, TablesInv, NEW p \in TableProc, NEW left, Tables!Exec(p, left)
  PROVE  TablesInv'
<1>1. PICK k : k = Tables!Work(Tables!NoTable, used, left)
  OBVIOUS
<1>2. PICK n0 : n0 = Tables!ProcPagetable(k)
  OBVIOUS
<1>3. PICK x1 : x1 = Tables!Uvmalloc(n0, 0, PGSIZE, FALSE)
  OBVIOUS
<1>4. PICK n1 : n1 = IF x1.ok THEN x1 ELSE Tables!ProcFreepagetable(x1, 0)
  OBVIOUS
<1>5. PICK x2 : x2 = Tables!Uvmalloc(n1, PGSIZE, 3 * PGSIZE, TRUE)
  OBVIOUS
<1>6. PICK n2 : n2 = IF x2.ok THEN x2 ELSE Tables!ProcFreepagetable(x2, PGSIZE)
  OBVIOUS
<1>7. PICK n3 : n3 = Tables!Uvmclear(n2, 1)
  OBVIOUS
<1>8. PICK new : new = IF ~n0.ok THEN n0 ELSE IF ~n1.ok THEN n1 ELSE IF n2.ok THEN n3 ELSE n2
  OBVIOUS
<1>9. PICK o : o = Tables!Work(pagetable[p], new.used, 0)
  OBVIOUS
<1>10. PICK old : old = Tables!ProcFreepagetable(o, size[p])
  OBVIOUS
<1>11. /\ Tables!Alone(p)
       /\ IF new.ok THEN /\ Tables!Returns(p, new, 3 * PGSIZE)
                         /\ Tables!Done("exec", p, <<>>, Tables!PanicIf(new.panic, old))
          ELSE pagetable' = pagetable /\ size' = size /\ Tables!Done("exec", p, <<>>, new)
  BY <1>1, <1>2, <1>3, <1>4, <1>5, <1>6, <1>7, <1>8, <1>9, <1>10
     DEF Tables!Exec, Tables!Then, Tables!OrUndo
<1>12. Tables!Exists(p) /\ IsSpace(pagetable[p], size[p]) /\ used \in Int
  BY <1>11, KnownTables DEF Tables!Alone
<1>13. /\ PGSIZE \in Nat /\ 3 * PGSIZE \in Nat /\ 0 \in Nat /\ 0 <= PGSIZE /\ PGSIZE <= 3 * PGSIZE
       /\ Tables!RoundUp(PGSIZE) = 1 /\ Tables!RoundUp(3 * PGSIZE) = 3
       /\ 3 <= Tables!SHM_VA /\ 1 <= Tables!SHM_VA
  <2>1. Tables!RoundUp(1 * PGSIZE) = 1 /\ Tables!RoundUp(3 * PGSIZE) = 3 /\ 3 * PGSIZE \in Nat
    BY AddressFacts
  <2>2. PGSIZE \in Nat /\ 1 * PGSIZE = PGSIZE
    BY TablesAssumption
  <2> QED
    BY <2>1, <2>2, PageNumbers DEF ImagesBelowShm
<1>14. IsWork(k) /\ k.ok /\ IsEmpty(k) /\ Others(k) = used
  <2>1. /\ IsWork(k) /\ k.ok /\ k.used = used
        /\ k.tables = Tables!NoTable.tables /\ k.pte = Tables!NoTable.pte
    BY <1>1, <1>12, NoTableFacts, WorkFacts
  <2>2. IsEmpty(k)
    BY <2>1, NoTableFacts DEF IsEmpty
  <2> QED
    BY <2>1, <2>2, EmptyCosts
<1>15. /\ IsWork(n0) /\ Others(n0) = used
       /\ n0.ok => IsSpace(n0, 0)
       /\ ~n0.ok => IsEmpty(n0)
  <2>1. /\ IsWork(n0) /\ Others(n0) = Others(k)
        /\ n0.ok => Mapped(n0) = KernelPages
        /\ ~n0.ok => IsEmpty(n0)
    BY <1>2, <1>14, ProcPagetableFacts
  <2> QED
    BY <1>14, <2>1, EmptySpace
<1>16. n0.ok => /\ IsWork(n1) /\ Others(n1) = used
                /\ n1.ok => IsSpace(n1, PGSIZE)
                /\ ~n1.ok => IsEmpty(n1)
  <2>1. Tables!RoundUp(PGSIZE) <= Tables!SHM_VA /\ PGSIZE \in Nat /\ 0 <= PGSIZE
    BY <1>13
  <2>2. n0.ok => /\ IsWork(n1) /\ Others(n1) = Others(n0)
                 /\ n1.ok => IsSpace(n1, PGSIZE)
                 /\ ~n1.ok => IsEmpty(n1)
    BY <1>3, <1>4, <1>15, <2>1, SegmentFacts
  <2> QED
    BY <1>15, <2>2
<1>17. n0.ok /\ n1.ok => /\ IsWork(n2) /\ Others(n2) = used
                         /\ n2.ok => IsSpace(n2, 3 * PGSIZE) /\ 1 .. 3 - 1 \subseteq Mapped(n2)
                         /\ ~n2.ok => IsEmpty(n2)
  <2>1. PICK top \in Nat : top = 3 * PGSIZE
    BY <1>13
  <2>2. /\ Tables!RoundUp(top) <= Tables!SHM_VA /\ PGSIZE <= top
        /\ x2 = Tables!Uvmalloc(n1, PGSIZE, top, TRUE)
    BY <1>5, <1>13, <2>1
  <2>3. n0.ok /\ n1.ok =>
          /\ IsWork(n2) /\ Others(n2) = Others(n1)
          /\ n2.ok => /\ IsSpace(n2, top)
                      /\ Tables!RoundUp(PGSIZE) .. Tables!RoundUp(top) - 1 \subseteq Mapped(n2)
          /\ ~n2.ok => IsEmpty(n2)
    BY <1>6, <1>16, <2>2, SegmentFacts
  <2> QED
    BY <1>13, <1>16, <2>1, <2>3
<1>18. n0.ok /\ n1.ok /\ n2.ok => /\ IsSpace(n3, 3 * PGSIZE) /\ IsWork(n3) /\ n3.ok
                                  /\ Others(n3) = used
  <2>1. ASSUME n0.ok, n1.ok, n2.ok
        PROVE  /\ IsSpace(n3, 3 * PGSIZE) /\ IsWork(n3) /\ n3.ok
               /\ Others(n3) = used
    <3>1. /\ IsWork(n2) /\ Others(n2) = used /\ IsSpace(n2, 3 * PGSIZE)
          /\ 1 \in Mapped(n2)
      BY <1>17, <2>1
    <3>2. Touches(n2, n3, 3 * PGSIZE) /\ n3.ok = n2.ok
      BY <1>7, <3>1, UvmclearFacts
    <3> QED
      BY <2>1, <3>1, <3>2, GrownSpace DEF Touches
  <2> QED
    BY <2>1
<1>19. CASE ~new.ok
  <2>1. IsWork(new) /\ IsEmpty(new) /\ Others(new) = used
    BY <1>8, <1>15, <1>16, <1>17, <1>18, <1>19
  <2>2. new.used = used /\ new.panic = FALSE
    BY <2>1, EmptyCosts DEF IsWork
  <2> QED
    BY <1>11, <1>19, <2>2, NothingChanges DEF Tables!Done
<1>20. CASE new.ok
  <2>1. /\ IsWork(new) /\ IsSpace(new, 3 * PGSIZE) /\ Others(new) = used
        /\ new.used \in Int /\ new.panic = FALSE
    BY <1>8, <1>15, <1>16, <1>17, <1>18, <1>20 DEF IsWork
  <2>2. IsTable(pagetable[p])
    BY <1>12, SpaceFacts
  <2>3. /\ IsWork(o) /\ o.tables = pagetable[p].tables /\ o.pte = pagetable[p].pte
        /\ Others(o) = new.used
             - (Cardinality(pagetable[p].tables) + Cardinality(Own(pagetable[p].pte)))
    BY <1>9, <2>1, <2>2, WorkFacts
  <2>4. IsSpace(o, size[p])
    BY <1>12, <2>3 DEF IsSpace, IsTable
  <2>5. IsWork(old) /\ Others(old) = Others(o) /\ IsEmpty(old)
    BY <1>10, <2>3, <2>4, FreepagetableFacts
  <2>6. old.used = Others(o) /\ old.used \in Int
    BY <2>5, EmptyCosts DEF IsWork
  <2>7. Tables!PanicIf(new.panic, old) = old /\ old.panic = FALSE
    BY <2>1, <2>5 DEF Tables!PanicIf, IsWork
  <2>8. PICK t : t = Tables!Table(new)
    OBVIOUS
  <2>9. /\ t.tables = new.tables /\ t.pte = new.pte
        /\ t = [tables |-> t.tables, pte |-> t.pte]
    BY <2>8 DEF Tables!Table
  <2>10. IsSpace(t, 3 * PGSIZE)
    BY <2>1, <2>9 DEF IsSpace, IsTable
  <2>11. /\ pagetable' = [pagetable EXCEPT ![p] = t] /\ size' = [size EXCEPT ![p] = 3 * PGSIZE]
         /\ used' = old.used /\ crashed' = FALSE /\ kernel' = kernel
    BY <1>11, <1>20, <2>7, <2>8 DEF Tables!Returns, Tables!Done
  <2>12. used' \in Int /\ used' - used = Cost(t) - Cost(pagetable[p])
    <3>1. /\ Cardinality(t.tables) \in Nat /\ Cardinality(Own(t.pte)) \in Nat
          /\ Cost(t) = Cardinality(t.tables) + Cardinality(Own(t.pte)) + 1
      BY <2>10, SpaceFacts
    <3>2. /\ Cardinality(pagetable[p].tables) \in Nat
          /\ Cardinality(Own(pagetable[p].pte)) \in Nat
          /\ Cost(pagetable[p])
               = Cardinality(pagetable[p].tables) + Cardinality(Own(pagetable[p].pte)) + 1
      BY <1>12, SpaceFacts
    <3>3. Others(new) = new.used - (Cardinality(t.tables) + Cardinality(Own(t.pte)))
      BY <2>9 DEF Others
    <3> QED
      BY <1>12, <2>1, <2>3, <2>6, <2>11, <3>1, <3>2, <3>3
  <2>13. IsEmpty(t) \/ IsSpace(t, 3 * PGSIZE)
    BY <2>10
  <2> QED
    BY <2>9, <2>11, <2>12, <2>13, TableChanges
<1> QED
  BY <1>19, <1>20

-------------------------------------------------------------------------------
(***************************************************************************)
(* Boot and steps                                                          *)
(***************************************************************************)
LEMMA NothingAccounted ==
  ASSUME NEW pt, \A q \in TableProc : IsEmpty(pt[q])
  PROVE  Accounted(pt, 0)
<1>1. ASSUME NEW F, \A q \in TableProc : F[q] = {}
      PROVE  Cardinality(Pairs(TableProc, F)) = 0
  <2>1. Pairs(TableProc, F) = {}
    BY <1>1 DEF Pairs
  <2> QED
    BY <2>1, FS_EmptySet
<1>2. \A q \in TableProc : TablesOf(pt)[q] = {}
  BY DEF TablesOf, IsEmpty
<1>3. \A q \in TableProc : OwnOf(pt)[q] = {}
  BY NoTableFacts DEF OwnOf
<1>4. \A q \in TableProc : TrapframesOf(pt)[q] = {}
  BY DEF TrapframesOf, IsEmpty
<1>5. /\ Cardinality(Pairs(TableProc, TablesOf(pt))) = 0
      /\ Cardinality(Pairs(TableProc, OwnOf(pt))) = 0
      /\ Cardinality(Pairs(TableProc, TrapframesOf(pt))) = 0
  BY <1>1, <1>2, <1>3, <1>4
<1> QED
  BY <1>5 DEF Accounted

LEMMA TablesStart == ImagesBelowShm /\ Tables!Init => TablesInv
<1> SUFFICES ASSUME ImagesBelowShm, Tables!Init PROVE TablesInv
  OBVIOUS
<1>1. PICK k : k = Tables!Work(Tables!NoTable, 0, MaxPages)
  OBVIOUS
<1>2. PICK m : m = Tables!Allocproc(k)
  OBVIOUS
<1>3. PICK t : t = Tables!Table(m)
  OBVIOUS
<1>4. PICK p \in TableProc :
        /\ kernel \in Kernels
        /\ pagetable = [q \in TableProc |-> IF q = p THEN t ELSE Tables!NoTable]
        /\ size = [q \in TableProc |-> 0]
        /\ used = m.used /\ crashed = FALSE
  BY <1>1, <1>2, <1>3 DEF Tables!Init
<1>5. IsWork(k) /\ k.ok /\ IsEmpty(k) /\ Others(k) = 0
  <2>1. /\ IsWork(k) /\ k.ok /\ k.used = 0
        /\ k.tables = Tables!NoTable.tables /\ k.pte = Tables!NoTable.pte
    BY <1>1, NoTableFacts, WorkFacts
  <2>2. IsEmpty(k)
    BY <2>1, NoTableFacts DEF IsEmpty
  <2> QED
    BY <2>1, <2>2, EmptyCosts
<1>6. /\ IsWork(m) /\ Others(m) = (IF m.ok THEN 1 ELSE 0)
      /\ m.ok => IsSpace(m, 0)
      /\ ~m.ok => IsEmpty(m)
  <2>1. /\ IsWork(m) /\ Others(m) = (IF m.ok THEN 0 + 1 ELSE 0)
        /\ m.ok => Mapped(m) = KernelPages
        /\ ~m.ok => IsEmpty(m)
    BY <1>2, <1>5, AllocprocFacts
  <2> QED
    BY <2>1, EmptySpace
<1>7. /\ t.tables = m.tables /\ t.pte = m.pte
      /\ t = [tables |-> t.tables, pte |-> t.pte]
  BY <1>3 DEF Tables!Table
<1>8. IsEmpty(t) \/ IsSpace(t, 0)
  BY <1>6, <1>7 DEF IsEmpty, IsSpace, IsTable
<1>9. m.used \in Int /\ m.used = Cost(t)
  <2>1. Cost(t) = Cost(m)
    BY <1>7 DEF Cost
  <2>2. CASE m.ok
    <3>1. IsSpace(m, 0) /\ Others(m) = 0 + 1
      BY <1>6, <2>2
    <3>2. m.used \in Int /\ m.used - 0 = Cost(m)
      BY <1>6, <3>1, NewCosts
    <3> QED
      BY <2>1, <3>2
  <2>3. CASE ~m.ok
    BY <1>6, <2>1, <2>3, EmptyCosts, NoTableFacts
  <2> QED
    BY <2>2, <2>3
<1>10. Accounted(pagetable, used)
  <2>1. PICK none : none = [q \in TableProc |-> Tables!NoTable]
    OBVIOUS
  <2>2. \A q \in TableProc : IsEmpty(none[q]) /\ Counted(none[q])
    BY <2>1, NoTableFacts
  <2>3. Accounted(none, 0)
    BY <2>2, NothingAccounted
  <2>4. PICK pt : pt = pagetable
    OBVIOUS
  <2>5. pt[p] = t /\ \A q \in TableProc \ {p} : pt[q] = none[q]
    BY <1>4, <2>1, <2>4
  <2>6. Counted(pt[p]) /\ Cost(none[p]) = 0
    BY <1>8, <2>2, <2>5, NoTableFacts, SpaceFacts
  <2>7. m.used - 0 = Cost(pt[p]) - Cost(none[p])
    BY <1>9, <2>5, <2>6
  <2>8. Accounted(pt, m.used)
    BY <1>9, <2>2, <2>3, <2>5, <2>6, <2>7, AccountChanges
  <2> QED
    BY <1>4, <2>4, <2>8
<1>11. Tables!PagesAccounted
  BY <1>4, <1>10, AccountedIs
<1>12. ASSUME NEW q \in TableProc
       PROVE  /\ pagetable[q] = [tables |-> pagetable[q].tables, pte |-> pagetable[q].pte]
              /\ IsEmpty(pagetable[q]) \/ IsSpace(pagetable[q], size[q])
  <2>1. CASE q = p
    BY <1>4, <1>7, <1>8, <2>1
  <2>2. CASE q # p
    <3>1. pagetable[q] = Tables!NoTable
      BY <1>4, <2>2
    <3> QED
      BY <3>1, NoTableFacts DEF Tables!NoTable
  <2> QED
    BY <2>1, <2>2
<1>13. /\ used \in Int /\ crashed = FALSE /\ kernel \in Kernels
       /\ pagetable = [q \in TableProc |-> pagetable[q]] /\ size = [q \in TableProc |-> size[q]]
  BY <1>4, <1>9
<1> QED
  BY <1>11, <1>12, <1>13 DEF TablesInv

LEMMA CallKeeps ==
  ASSUME ImagesBelowShm, TablesInv, NEW p \in TableProc, NEW left, Tables!Call(p, left)
  PROVE  TablesInv'
<1>1. /\ Amounts \subseteq Nat /\ Addresses \subseteq Nat
      /\ \A data \in Data : Len(data) \in Int
  BY TablesAssumption
<1>2. CASE Tables!ShmGet(p, left)
  BY <1>2, ShmGetKeeps
<1>3. CASE \E n \in Amounts : Tables!SbrkGrow(p, n, left)
  BY <1>1, <1>3, GrowKeeps
<1>4. ASSUME NEW a \in Addresses, Tables!PageFault(p, a, left)
      PROVE  TablesInv'
  BY <1>1, <1>4, PageFaultKeeps
<1>5. ASSUME NEW a \in Addresses, Tables!Fetchaddr(p, a, left)
      PROVE  TablesInv'
  BY <1>1, <1>5, FetchaddrKeeps
<1>6. ASSUME NEW a \in Addresses, NEW data \in Data, Tables!Store(p, a, data, left)
      PROVE  TablesInv'
  BY <1>1, <1>6, StoreKeeps
<1>7. ASSUME NEW a \in Addresses, NEW data \in Data, Tables!Load(p, a, Len(data), left)
      PROVE  TablesInv'
  BY <1>1, <1>7, LoadKeeps
<1>8. ASSUME NEW a \in Addresses, NEW data \in Data, Tables!Fetchstr(p, a, Len(data), left)
      PROVE  TablesInv'
  BY <1>1, <1>8, FetchstrKeeps
<1> QED
  BY <1>2, <1>3, <1>4, <1>5, <1>6, <1>7, <1>8 DEF Tables!Call

LEMMA TablesStep ==
  ASSUME ImagesBelowShm, "A4" \notin LazyKernels, TablesInv, Tables!Next
  PROVE  TablesInv'
<1>1. CASE Tables!Return
  <2>1. crashed = FALSE
    BY DEF TablesInv
  <2> QED
    BY <1>1, <2>1, NothingChanges DEF Tables!Return
<1>2. ASSUME NEW p \in TableProc, NEW left, Tables!LongCall(p, left)
      PROVE  TablesInv'
  BY <1>2, ExecKeeps, ForkKeeps DEF Tables!LongCall
<1>3. ASSUME NEW p \in TableProc, NEW left, Tables!Call(p, left)
      PROVE  TablesInv'
  BY <1>3, CallKeeps
<1>4. ASSUME NEW p \in TableProc, NEW n \in Amounts,
             Tables!SbrkLazy(p, n) \/ Tables!SbrkShrink(p, n)
      PROVE  TablesInv'
  <2>1. n \in Nat
    BY TablesAssumption
  <2> QED
    BY <1>4, <2>1, LazyKeeps, ShrinkKeeps
<1>5. ASSUME NEW p \in TableProc, Tables!Exit(p)
      PROVE  TablesInv'
  BY <1>5, ExitKeeps
<1> QED
  BY <1>1, <1>2, <1>3, <1>4, <1>5 DEF Tables!Next

\* No call changes which kernel was booted.
LEMMA KernelStays == Tables!Next => kernel' = kernel
<1>1. ASSUME NEW p \in TableProc, NEW left, Tables!LongCall(p, left)
      PROVE  kernel' = kernel
  BY <1>1 DEF Tables!LongCall, Tables!Exec, Tables!Fork, Tables!Done
<1>2. ASSUME NEW p \in TableProc, NEW left, Tables!Call(p, left)
      PROVE  kernel' = kernel
  BY <1>2 DEF Tables!Call, Tables!ShmGet, Tables!SbrkGrow, Tables!PageFault, Tables!Fetchaddr,
              Tables!Store, Tables!Load, Tables!Fetchstr, Tables!Done
<1>3. ASSUME NEW p \in TableProc, NEW n, Tables!SbrkLazy(p, n) \/ Tables!SbrkShrink(p, n)
      PROVE  kernel' = kernel
  BY <1>3 DEF Tables!SbrkLazy, Tables!SbrkShrink, Tables!Done
<1>4. ASSUME NEW p \in TableProc, Tables!Exit(p)
      PROVE  kernel' = kernel
  BY <1>4 DEF Tables!Exit, Tables!Done
<1>5. Tables!Return => kernel' = kernel
  BY DEF Tables!Return
<1> QED
  BY <1>1, <1>2, <1>3, <1>4, <1>5 DEF Tables!Next

\* What holds of the tables half; the other half never touches a page table.
AnyInv == crashed = FALSE /\ (part = "tables" => TablesInv)

LEMMA AnyStarts == ImagesBelowShm /\ AnyInit => AnyInv
<1> SUFFICES ASSUME ImagesBelowShm, AnyInit PROVE AnyInv
  OBVIOUS
<1>1. CASE part = "tables" /\ Tables!Init
  BY <1>1, TablesStart DEF AnyInv, TablesInv
<1>2. CASE part = "sharing" /\ crashed = FALSE
  BY <1>2 DEF AnyInv
<1> QED
  BY <1>1, <1>2 DEF AnyInit

LEMMA AnyStep ==
  ASSUME ImagesBelowShm, "A4" \notin LazyKernels, AnyInv, [AnyNext]_allVars
  PROVE  AnyInv' /\ [Next]_vars
<1>1. CASE part = "tables" /\ Tables!Next /\ UNCHANGED <<part, sharingVars>>
  <2>1. TablesInv'
    BY <1>1, TablesStep DEF AnyInv
  <2>2. AnyInv'
    BY <1>1, <2>1 DEF AnyInv, TablesInv
  <2>3. UNCHANGED vars
    BY <1>1, KernelStays DEF vars, sharingVars
  <2> QED
    BY <2>2, <2>3
<1>2. CASE part = "sharing" /\ Next /\ UNCHANGED <<part, tableVars>>
  BY <1>2 DEF AnyInv, tableVars
<1>3. CASE UNCHANGED allVars
  <2>1. /\ part' = part /\ kernel' = kernel /\ crashed' = crashed /\ pagetable' = pagetable
        /\ size' = size /\ used' = used /\ UNCHANGED vars
    BY <1>3 DEF allVars, tableVars, sharingVars, vars
  <2>2. crashed = FALSE
    BY DEF AnyInv
  <2>3. TablesInv => TablesInv'
    BY <2>1, <2>2, NothingChanges
  <2> QED
    BY <2>1, <2>2, <2>3 DEF AnyInv
<1> QED
  BY <1>1, <1>2, <1>3 DEF AnyNext

(***************************************************************************)
(* Neither kernel panics: no page is mapped twice, no hole is unmapped, no *)
(* page table is freed with a page in it, whatever kalloc() refuses, and   *)
(* while processes fork, clone, grow, shrink and exit at once, no frame is *)
(* counted that is free (vm.c, proc.c, kalloc.c).                          *)
(***************************************************************************)
THEOREM KernelMemoryNeverPanics ==
  ASSUME HeapsBelowShm, ImagesBelowShm, "A4" \notin LazyKernels
  PROVE  AnySpec => []NeverPanics
<1>1. AnyInit => Init /\ AnyInv
  BY AnyStarts DEF AnyInit
<1>2. AnyInv /\ [AnyNext]_allVars => AnyInv' /\ [Next]_vars
  BY AnyStep
<1>3. Spec => []NoPanic
  BY MemoryNeverPanics
<1>4. AnyInv /\ NoPanic => NeverPanics
  BY DEF AnyInv, NeverPanics
<1> QED
  BY <1>1, <1>2, <1>3, <1>4, PTL DEF AnySpec, Spec

(***************************************************************************)
(* Every page table keeps its shape: walk() finds each mapped page, the    *)
(* kernel's two pages are there, the process's own pages lie below its     *)
(* size, and in the kernel of Assignment 4 its heap has no holes (vm.c).   *)
(***************************************************************************)
THEOREM PageTablesSound ==
  ASSUME ImagesBelowShm, "A4" \notin LazyKernels
  PROVE  AnySpec => []AnyInv
<1>1. AnyInit => AnyInv
  BY AnyStarts
<1>2. AnyInv /\ [AnyNext]_allVars => AnyInv'
  BY AnyStep
<1> QED
  BY <1>1, <1>2, PTL DEF AnySpec

(***************************************************************************)
(* The pages off the freelist are at all times the page tables, the        *)
(* trapframes and the pages of the processes: exec, fork, sbrk, faults and *)
(* copies to and from user memory that fail half-way, at whichever         *)
(* kalloc(), lose no page and free none twice (vm.c, proc.c).              *)
(***************************************************************************)
THEOREM NoPageIsLost ==
  ASSUME ImagesBelowShm, "A4" \notin LazyKernels
  PROVE  AnySpec => []PagesAccounted
<1>1. AnyInv => PagesAccounted
  BY DEF AnyInv, TablesInv, PagesAccounted
<1> QED
  BY <1>1, PageTablesSound, PTL

-------------------------------------------------------------------------------
(***************************************************************************)
(* What a process sees of its memory                                       *)
(***************************************************************************)
\* The kernel's pages are not for the user; nobody writes to the shared page.
IsPage(v, e) ==
  /\ e.bytes = [i \in 0 .. PGSIZE - 1 |-> e.bytes[i]]
  /\ e.kind \in {"own", "shared", "kernel"}
  /\ e.kind = "kernel" => ~e.u
  /\ e.kind = "shared" => e = Tables!SharedEntry

HasPages(m) == \A v \in Mapped(m) : IsPage(v, m.pte[v])

\* The memory that a page table stands for: View of PageTables.
Visible(pages) == {v \in DOMAIN pages : pages[v].kind # "kernel"}
Image(pages, s) ==
  [v \in Visible(pages) \cup HeapPages(s) |->
     IF v \in Visible(pages) THEN pages[v] ELSE Tables!Zeroed(TRUE)]

ImageOf(p) == Image(pagetable[p].pte, size[p])

MapInv ==
  /\ TablesInv
  /\ \A p \in TableProc : HasPages(pagetable[p])
  /\ \A p \in TableProc : IsEmpty(pagetable[p]) => size[p] = 0

LEMMA ImageFacts ==
  ASSUME NEW pages, NEW s
  PROVE  /\ DOMAIN Image(pages, s) = Visible(pages) \cup HeapPages(s)
         /\ \A v \in Visible(pages) : /\ v \in DOMAIN Image(pages, s)
                                      /\ Image(pages, s)[v] = pages[v]
         /\ \A v \in HeapPages(s) \ Visible(pages) :
              v \in DOMAIN Image(pages, s) /\ Image(pages, s)[v] = Tables!Zeroed(TRUE)
  BY DEF Image

LEMMA ViewIs == \A p : Tables!View(p) = ImageOf(p)
  BY DEF ImageOf, Image, Visible, Tables!View, HeapPages, PagesBelow

LEMMA ImageBecomes ==
  ASSUME TablesInv, NEW p \in TableProc, NEW m, NEW s, Tables!Returns(p, m, s)
  PROVE  Tables!Abstract!Becomes(p, Image(m.pte, s), s)
<1>1. /\ pagetable' = [pagetable EXCEPT ![p] = Tables!Table(m)]
      /\ size' = [size EXCEPT ![p] = s]
      /\ pagetable = [q \in TableProc |-> pagetable[q]]
      /\ size = [q \in TableProc |-> size[q]]
  BY DEF Tables!Returns, TablesInv
<1>2. Tables!Table(m).pte = m.pte
  BY DEF Tables!Table
<1>3. \A q \in TableProc : /\ pagetable'[q].pte = IF q = p THEN m.pte ELSE pagetable[q].pte
                           /\ size'[q] = IF q = p THEN s ELSE size[q]
  BY <1>1, <1>2
<1>4. \A q \in TableProc : ImageOf(q)' = IF q = p THEN Image(m.pte, s) ELSE ImageOf(q)
  <2>1. \A q : ImageOf(q)' = Image(pagetable'[q].pte, size'[q])
    BY DEF ImageOf, Image, Visible, HeapPages, PagesBelow
  <2> QED
    BY <1>3, <2>1 DEF ImageOf
<1>5. \A q : Tables!View(q) = ImageOf(q) /\ Tables!View(q)' = ImageOf(q)'
  BY ViewIs DEF ImageOf, Image, Visible, Tables!View, HeapPages, PagesBelow
<1>6. [q \in TableProc |-> Tables!View(q)'] =
        [[q \in TableProc |-> Tables!View(q)] EXCEPT ![p] = Image(m.pte, s)]
  BY <1>4, <1>5
<1> QED
  BY <1>1, <1>6 DEF Tables!Abstract!Becomes

LEMMA ImagesSame ==
  ASSUME TablesInv, pagetable' = pagetable, size' = size
  PROVE  Tables!Abstract!Same
<1>1. \A q : Tables!View(q)' = Tables!View(q)
  BY DEF Tables!View, Tables!RoundUp
<1> QED
  BY <1>1 DEF Tables!Abstract!Same

LEMMA ImageSame ==
  ASSUME TablesInv, NEW p \in TableProc, NEW m, Tables!Returns(p, m, size[p]),
         Image(m.pte, size[p]) = ImageOf(p)
  PROVE  Tables!Abstract!Same
<1>1. Tables!Abstract!Becomes(p, ImageOf(p), size[p])
  BY ImageBecomes
<1>2. size = [q \in TableProc |-> size[q]]
  BY DEF TablesInv
<1>3. [q \in TableProc |-> Tables!View(q)] = [q \in TableProc |-> ImageOf(q)]
  BY ViewIs
<1> QED
  BY <1>1, <1>2, <1>3 DEF Tables!Abstract!Becomes, Tables!Abstract!Same

-------------------------------------------------------------------------------
(***************************************************************************)
(* Access to an image                                                      *)
(***************************************************************************)
Readable(g, a) == Tables!PageOf(a) \in DOMAIN g /\ g[Tables!PageOf(a)].u
Writable(g, a) == Readable(g, a) /\ g[Tables!PageOf(a)].w
ByteIn(g, a) == g[Tables!PageOf(a)].bytes[a % PGSIZE]

\* The page e at v after the first k bytes of data were written from a on.
Overwritten(v, e, a, data, k) ==
  [e EXCEPT !.bytes = [i \in DOMAIN @ |-> LET x == v * PGSIZE + i - a
                                          IN IF x \in 0 .. k - 1 THEN data[x + 1] ELSE @[i]]]

WrittenTo(g, a, data, k) == [v \in DOMAIN g |-> Overwritten(v, g[v], a, data, k)]

LEMMA AccessIs ==
  ASSUME NEW p \in TableProc
  PROVE  /\ \A a : /\ Tables!Abstract!MayRead(p, a) <=> Readable(ImageOf(p), a)
                   /\ Tables!Abstract!MayWrite(p, a) <=> Writable(ImageOf(p), a)
                   /\ Tables!Abstract!Byte(p, a) = ByteIn(ImageOf(p), a)
                   /\ Tables!Abstract!Page(a) = Tables!PageOf(a)
         /\ \A a, data, k :
              Tables!Abstract!Written(p, a, data, k) = WrittenTo(ImageOf(p), a, data, k)
<1>1. [q \in TableProc |-> Tables!View(q)][p] = ImageOf(p)
  BY ViewIs
<1>2. ASSUME NEW a
      PROVE  /\ Tables!Abstract!MayRead(p, a) <=> Readable(ImageOf(p), a)
             /\ Tables!Abstract!MayWrite(p, a) <=> Writable(ImageOf(p), a)
             /\ Tables!Abstract!Byte(p, a) = ByteIn(ImageOf(p), a)
             /\ Tables!Abstract!Page(a) = Tables!PageOf(a)
  BY <1>1 DEF Tables!Abstract!MayRead, Tables!Abstract!MayWrite, Tables!Abstract!Byte,
              Tables!Abstract!Page, Tables!PageOf, Readable, Writable, ByteIn
<1>3. ASSUME NEW a, NEW data, NEW k
      PROVE  Tables!Abstract!Written(p, a, data, k) = WrittenTo(ImageOf(p), a, data, k)
  BY <1>1 DEF Tables!Abstract!Written, WrittenTo, Overwritten
<1> QED
  BY <1>2, <1>3

LEMMA Answers ==
  ASSUME NEW call, NEW p, NEW args, NEW m, Tables!Done(call, p, args, m)
  PROVE  /\ reply'.call = call /\ reply'.p = p /\ reply'.ok = m.ok
         /\ m.ok = TRUE /\ m.nomem = FALSE => Tables!Abstract!Succeeds(call, p, args, m.bytes)
         /\ m.ok = FALSE => Tables!Abstract!Reply(call, p, args, FALSE, m.nomem, <<>>)
  BY DEF Tables!Done, Tables!Abstract!Succeeds, Tables!Abstract!Reply

LEMMA Failures ==
  ASSUME NEW call, NEW p, NEW args, NEW m, Tables!Done(call, p, args, m), m.ok = FALSE,
         Tables!Abstract!Same
  PROVE  /\ m.nomem = TRUE => Tables!Abstract!RunsShort(call, p, args)
         /\ m.nomem = FALSE => Tables!Abstract!Refused(call, p, args)
<1>1. Tables!Abstract!Reply(call, p, args, FALSE, m.nomem, <<>>)
  BY Answers
<1> QED
  BY <1>1 DEF Tables!Abstract!RunsShort, Tables!Abstract!Refused

LEMMA ZeroedIs ==
  ASSUME NEW v, NEW w
  PROVE  IsPage(v, Tables!Zeroed(w)) /\ Tables!Zeroed(w).kind # "kernel"
         /\ Tables!Zeroed(w).u = TRUE /\ Tables!Zeroed(w).w = w
  BY DEF IsPage, Tables!Zeroed, Tables!Entry

\* Pages that the heap gets are those that were seen there already.
LEMMA ImageFills ==
  ASSUME NEW m, NEW r, NEW s, Mapped(m) \subseteq Mapped(r),
         Mapped(r) \subseteq Mapped(m) \cup HeapPages(s), Keeps(m, r),
         \A v \in Mapped(r) \ Mapped(m) : r.pte[v] = Tables!Zeroed(TRUE)
  PROVE  /\ Image(r.pte, s) = Image(m.pte, s)
         /\ HasPages(m) => HasPages(r)
<1>1. \A v \in Mapped(r) : r.pte[v] = IF v \in Mapped(m) THEN m.pte[v] ELSE Tables!Zeroed(TRUE)
  BY DEF Keeps
<1>2. /\ Visible(m.pte) \subseteq Visible(r.pte)
      /\ Visible(r.pte) \subseteq Visible(m.pte) \cup HeapPages(s)
      /\ \A v \in Visible(r.pte) :
           r.pte[v] = IF v \in Visible(m.pte) THEN m.pte[v] ELSE Tables!Zeroed(TRUE)
  BY <1>1 DEF Visible, Mapped
<1>3. Image(r.pte, s) = Image(m.pte, s)
  BY <1>2 DEF Image
<1>4. HasPages(m) => HasPages(r)
  BY <1>1, ZeroedIs DEF HasPages
<1> QED
  BY <1>3, <1>4

\* A call at work that has not failed, or for want of a page.
IsCall(m) == IsWork(m) /\ OnlyShort(m) /\ HasPages(m)

LEMMA HeapPageIs ==
  ASSUME NEW s \in Nat, NEW v \in Nat
  PROVE  v \in HeapPages(s) <=> v * PGSIZE < s
<1>1. v * PGSIZE \in Nat /\ Tables!PageOf(v * PGSIZE) = v /\ Tables!RoundUp(v * PGSIZE) = v
  BY AddressFacts
<1>2. v * PGSIZE < s => v < Tables!RoundUp(s)
  BY <1>1, AddressFacts
<1>3. s <= v * PGSIZE => Tables!RoundUp(s) <= v
  BY <1>1, AddressFacts
<1>4. Tables!RoundUp(s) \in Nat
  BY AddressFacts
<1> QED
  BY <1>1, <1>2, <1>3, <1>4 DEF HeapPages, PagesBelow

LEMMA FailIs ==
  ASSUME NEW m, IsWork(m)
  PROVE  LET r == Tables!Fail(m)
         IN r.ok = FALSE /\ r.pte = m.pte /\ r.nomem = m.nomem /\ r.bytes = m.bytes
<1>1. PICK r : r = Tables!Fail(m)
  OBVIOUS
<1>2. r = [tables |-> m.tables, pte |-> m.pte, used |-> m.used, left |-> m.left,
           ok |-> FALSE, nomem |-> m.nomem, panic |-> m.panic, bytes |-> m.bytes]
  BY <1>1 DEF IsWork, Tables!Fail
<1> QED
  BY <1>1, <1>2

LEMMA VmfaultImage ==
  ASSUME NEW m, IsCall(m), m.ok, NEW s \in Nat, Tables!RoundUp(s) <= Tables!SHM_VA,
         NEW va \in Nat
  PROVE  LET r == Tables!Vmfault(m, s, va)
         IN /\ Image(r.pte, s) = Image(m.pte, s) /\ HasPages(r) /\ Keeps(m, r)
            /\ r.nomem \in BOOLEAN /\ (r.nomem => ~r.ok /\ va < s)
            /\ r.ok => /\ va < s /\ Tables!PageOf(va) \in Mapped(r)
                       /\ r.pte[Tables!PageOf(va)] = Tables!Zeroed(TRUE)
            /\ ~r.ok /\ ~r.nomem => s <= va \/ Tables!PageOf(va) \in Mapped(m)
<1>0. PICK r : r = Tables!Vmfault(m, s, va)
  OBVIOUS
<1> SUFFICES /\ Image(r.pte, s) = Image(m.pte, s) /\ HasPages(r) /\ Keeps(m, r)
             /\ r.nomem \in BOOLEAN /\ (r.nomem => ~r.ok /\ va < s)
             /\ r.ok => /\ va < s /\ Tables!PageOf(va) \in Mapped(r)
                        /\ r.pte[Tables!PageOf(va)] = Tables!Zeroed(TRUE)
             /\ ~r.ok /\ ~r.nomem => s <= va \/ Tables!PageOf(va) \in Mapped(m)
  BY <1>0
<1>1. PICK v \in Nat : v = Tables!PageOf(va)
  BY AddressFacts
<1>2. CASE va >= s \/ v \in Mapped(m)
  <2>1. r = Tables!Fail(m)
    BY <1>0, <1>1, <1>2 DEF Tables!Vmfault, Mapped
  <2>2. r.ok = FALSE /\ r.pte = m.pte /\ r.nomem = m.nomem /\ r.bytes = m.bytes
    BY <2>1, FailIs DEF IsCall
  <2> QED
    BY <1>0, <1>1, <1>2, <2>2 DEF IsCall, OnlyShort, HasPages, Keeps, Mapped
<1>3. CASE ~(va >= s \/ v \in Mapped(m))
  <2>1. r = Tables!MapNew(m, v, Tables!Zeroed(TRUE))
    BY <1>0, <1>1, <1>3 DEF Tables!Vmfault, Mapped
  <2>2. v < Tables!SHM_VA /\ IsEntry(v, Tables!Zeroed(TRUE)) /\ v \in HeapPages(s)
    <3>1. v < Tables!RoundUp(s) /\ Tables!RoundUp(s) \in Nat
      BY <1>1, <1>3, AddressFacts
    <3> QED
      BY <3>1, PageNumbers DEF IsEntry, Tables!Zeroed, Tables!Entry, PagesBelow, HeapPages
  <2>3. /\ Keeps(m, r) /\ OnlyShort(r) /\ (r.ok => r.pte[v] = Tables!Zeroed(TRUE))
        /\ Mapped(r) = (IF r.ok THEN Mapped(m) \cup {v} ELSE Mapped(m))
    <3>1. IsWork(m) /\ OnlyShort(m) /\ v \notin Mapped(m)
      BY <1>3 DEF IsCall
    <3>2. Mapped(r) = (IF r.ok THEN Mapped(m) \cup {v} ELSE Mapped(m))
      BY <2>1, <2>2, <3>1, MapNewFacts
    <3>3. Keeps(m, r) /\ OnlyShort(r) /\ (r.ok => r.pte[v] = Tables!Zeroed(TRUE))
      BY <2>1, <2>2, <3>1, MapNewKeeps
    <3> QED
      BY <3>2, <3>3
  <2>4. \A u \in Mapped(r) \ Mapped(m) : r.pte[u] = Tables!Zeroed(TRUE)
    BY <2>3
  <2>5. Image(r.pte, s) = Image(m.pte, s) /\ HasPages(r)
    <3>1. /\ Mapped(m) \subseteq Mapped(r) /\ Mapped(r) \subseteq Mapped(m) \cup HeapPages(s)
          /\ HasPages(m)
      BY <2>2, <2>3 DEF IsCall
    <3> QED
      BY <2>3, <2>4, <3>1, ImageFills
  <2>6. va < s /\ v \notin Mapped(m)
    BY <1>3
  <2>7. r.ok => v \in Mapped(r) /\ r.pte[v] = Tables!Zeroed(TRUE)
    BY <2>3
  <2>8. r.nomem \in BOOLEAN /\ (r.nomem <=> ~r.ok)
    BY <2>3 DEF OnlyShort
  <2> QED
    BY <1>1, <2>3, <2>5, <2>6, <2>7, <2>8
<1> QED
  BY <1>1, <1>2, <1>3

-------------------------------------------------------------------------------
(***************************************************************************)
(* The calls as steps of PageMap                                           *)
(***************************************************************************)
LEMMA PagesReturn ==
  ASSUME MapInv, TablesInv', NEW p \in TableProc, NEW m, NEW s, Tables!Returns(p, m, s),
         HasPages(m), IsEmpty(m) => s = 0
  PROVE  MapInv'
<1>1. /\ pagetable' = [pagetable EXCEPT ![p] = Tables!Table(m)]
      /\ size' = [size EXCEPT ![p] = s]
      /\ pagetable = [q \in TableProc |-> pagetable[q]]
      /\ size = [q \in TableProc |-> size[q]]
  BY DEF Tables!Returns, TablesInv, MapInv
<1>2. Tables!Table(m).pte = m.pte /\ Tables!Table(m).tables = m.tables
  BY DEF Tables!Table
<1>3. \A q \in TableProc : HasPages(pagetable'[q])
  BY <1>1, <1>2 DEF MapInv, HasPages, Mapped
<1>4. \A q \in TableProc : IsEmpty(pagetable'[q]) => size'[q] = 0
  BY <1>1, <1>2 DEF MapInv, IsEmpty
<1> QED
  BY <1>3, <1>4 DEF MapInv, HasPages, Mapped, IsEmpty

LEMMA PagesSame ==
  ASSUME MapInv, TablesInv', pagetable' = pagetable, NEW p \in TableProc, NEW s,
         size' = size \/ (size' = [size EXCEPT ![p] = s] /\ Tables!Exists(p))
  PROVE  MapInv'
<1>1. size = [q \in TableProc |-> size[q]]
  BY DEF TablesInv, MapInv
<1>2. \A q \in TableProc : IsEmpty(pagetable[q]) => size'[q] = 0
  BY <1>1 DEF MapInv, IsEmpty, Tables!Exists
<1> QED
  BY <1>2 DEF MapInv, HasPages, Mapped, IsEmpty

LEMMA OnIs ==
  ASSUME MapInv, NEW p \in TableProc, Tables!Exists(p), NEW left
  PROVE  LET m == Tables!On(p, left)
         IN /\ IsCall(m) /\ m.ok /\ m.nomem = FALSE /\ m.bytes = <<>> /\ m.pte = pagetable[p].pte
            /\ m.ok = TRUE
            /\ IsSpace(m, size[p])
            /\ size[p] \in Nat /\ Tables!RoundUp(size[p]) <= Tables!SHM_VA
<1>1. PICK m : m = Tables!On(p, left)
  OBVIOUS
<1>2. IsWork(m) /\ m.ok /\ IsSpace(m, size[p]) /\ m.pte = pagetable[p].pte
  BY <1>1, OnFacts DEF MapInv
<1>3. m.ok = TRUE /\ m.nomem = FALSE /\ m.bytes = <<>>
  BY <1>1 DEF Tables!On, Tables!Work
<1>4. HasPages(m)
  BY <1>2 DEF HasPages, MapInv, Mapped
<1>5. size[p] \in Nat /\ Tables!RoundUp(size[p]) <= Tables!SHM_VA
  BY <1>2, SpaceFacts
<1> QED
  BY <1>1, <1>2, <1>3, <1>4, <1>5 DEF IsCall, OnlyShort

\* What vmfault() leaves.
Faulted(m, r, s, va) ==
  /\ Image(r.pte, s) = Image(m.pte, s) /\ HasPages(r) /\ Keeps(m, r)
  /\ r.nomem \in BOOLEAN /\ (r.nomem => ~r.ok /\ va < s)
  /\ r.ok => /\ va < s /\ Tables!PageOf(va) \in Mapped(r)
             /\ r.pte[Tables!PageOf(va)] = Tables!Zeroed(TRUE)
  /\ ~r.ok /\ ~r.nomem => s <= va \/ Tables!PageOf(va) \in Mapped(m)

LEMMA VmfaultLeaves ==
  ASSUME NEW m, IsCall(m), m.ok, NEW s \in Nat, Tables!RoundUp(s) <= Tables!SHM_VA,
         NEW va \in Nat
  PROVE  Faulted(m, Tables!Vmfault(m, s, va), s, va)
<1>1. PICK r : r = Tables!Vmfault(m, s, va)
  OBVIOUS
<1>2. /\ Image(r.pte, s) = Image(m.pte, s) /\ HasPages(r) /\ Keeps(m, r)
      /\ r.nomem \in BOOLEAN /\ (r.nomem => ~r.ok /\ va < s)
      /\ r.ok => /\ va < s /\ Tables!PageOf(va) \in Mapped(r)
                 /\ r.pte[Tables!PageOf(va)] = Tables!Zeroed(TRUE)
      /\ ~r.ok /\ ~r.nomem => s <= va \/ Tables!PageOf(va) \in Mapped(m)
  BY <1>1, VmfaultImage
<1> QED
  BY <1>1, <1>2 DEF Faulted

LEMMA PageFaultMaps ==
  ASSUME MapInv, NEW p \in TableProc, NEW a \in Addresses, NEW left, Tables!PageFault(p, a, left)
  PROVE  MapInv' /\ Tables!Abstract!Next
<1>1. PICK k, m : k = Tables!On(p, left) /\ m = Tables!Vmfault(k, size[p], a)
  OBVIOUS
<1>2. /\ Tables!Exists(p) /\ Tables!Returns(p, m, size[p])
      /\ Tables!Done("fault", p, <<a>>, m)
  BY <1>1 DEF Tables!PageFault, Tables!Alone
<1>3. a \in Nat /\ TablesInv /\ TablesInv'
  BY TablesAssumption, PageFaultKeeps DEF MapInv
<1>4. /\ IsCall(k) /\ k.ok /\ k.pte = pagetable[p].pte /\ IsSpace(k, size[p])
      /\ size[p] \in Nat /\ Tables!RoundUp(size[p]) <= Tables!SHM_VA
  BY <1>1, <1>2, OnIs
<1>5. /\ Image(m.pte, size[p]) = Image(k.pte, size[p]) /\ HasPages(m) /\ Keeps(k, m)
      /\ m.nomem \in BOOLEAN /\ (m.nomem => ~m.ok /\ a < size[p])
      /\ m.ok => /\ a < size[p] /\ Tables!PageOf(a) \in Mapped(m)
                 /\ m.pte[Tables!PageOf(a)] = Tables!Zeroed(TRUE)
  <2>1. Faulted(k, Tables!Vmfault(k, size[p], a), size[p], a)
    BY <1>3, <1>4, VmfaultLeaves
  <2> QED
    BY <1>1, <2>1 DEF Faulted
<1>6. IsWork(m) /\ ~IsEmpty(m)
  <2>1. Touches(k, m, size[p])
    BY <1>1, <1>3, <1>4, VmfaultFacts DEF IsCall
  <2>2. IsSpace(m, size[p])
    BY <1>4, <2>1, GrownSpace
  <2> QED
    BY <2>1, <2>2, SpaceFacts DEF Touches
<1>7. MapInv'
  BY <1>2, <1>3, <1>5, <1>6, PagesReturn
<1>8. Image(m.pte, size[p]) = ImageOf(p)
  BY <1>4, <1>5 DEF ImageOf
<1>9. Tables!Abstract!Same
  BY <1>2, <1>3, <1>8, ImageSame
<1>10. m.ok = TRUE \/ m.ok = FALSE
  BY <1>6 DEF IsWork
<1>11. Tables!Abstract!Fault(p, a)
  <2>1. CASE m.ok = TRUE
    <3>1. m.nomem = FALSE /\ a < size[p]
      BY <1>5, <2>1
    <3>2. Readable(ImageOf(p), a)
      <4>1. PICK v : v = Tables!PageOf(a)
        OBVIOUS
      <4>2. v \in Visible(m.pte) /\ m.pte[v].u
        BY <1>5, <2>1, <4>1, ZeroedIs DEF Visible, Mapped
      <4>3. v \in DOMAIN Image(m.pte, size[p]) /\ Image(m.pte, size[p])[v] = m.pte[v]
        BY <4>2 DEF Image
      <4> QED
        BY <1>8, <4>1, <4>2, <4>3 DEF Readable
    <3>3. Tables!Abstract!Succeeds("fault", p, <<a>>, m.bytes)
      BY <1>2, <2>1, <3>1, Answers
    <3>4. m.bytes = <<>>
      BY <1>1, <1>2, <1>5, OnIs DEF Keeps
    <3> QED
      BY <1>9, <3>1, <3>2, <3>3, <3>4, AccessIs DEF Tables!Abstract!Fault
  <2>2. CASE m.ok = FALSE
    BY <1>2, <1>5, <1>9, <2>2, Failures DEF Tables!Abstract!Fault
  <2> QED
    BY <1>10, <2>1, <2>2
<1>12. reply'.call = "fault" /\ reply'.p = p
  BY <1>2, Answers
<1> QED
  BY <1>7, <1>11, <1>12 DEF Tables!Abstract!Next, Tables!Abstract!Answered

LEMMA ReturnMaps ==
  ASSUME MapInv, Tables!Return
  PROVE  MapInv' /\ Tables!Abstract!Next
<1>1. /\ pagetable' = pagetable /\ size' = size /\ used' = used /\ kernel' = kernel
      /\ crashed' = crashed /\ reply' = [call |-> "none"] /\ TablesInv /\ crashed = FALSE
  BY DEF Tables!Return, Tables!Nothing, MapInv, TablesInv
<1>2. TablesInv'
  BY <1>1, NothingChanges
<1>3. PICK p \in TableProc : TRUE
  BY TablesAssumption
<1>4. MapInv'
  BY <1>1, <1>2, PagesSame
<1>5. Tables!Abstract!Same
  BY <1>1, ImagesSame
<1> QED
  BY <1>1, <1>4, <1>5 DEF Tables!Abstract!Next, Tables!Abstract!Return

\* What of an entry is seen is told by where it is.
LEMMA VisibleIs ==
  ASSUME NEW t, IsTable(t), HasPages(t)
  PROVE  /\ Visible(t.pte) = Mapped(t) \ KernelPages
         /\ \A v \in Visible(t.pte) : t.pte[v].kind = "shared" <=> v = Tables!SHM_VA
<1>1. ASSUME NEW v \in Mapped(t)
      PROVE  /\ t.pte[v].kind = "kernel" <=> v \in KernelPages
             /\ t.pte[v].kind = "shared" <=> v = Tables!SHM_VA
  <2>1. IsEntry(v, t.pte[v]) /\ IsPage(v, t.pte[v])
    BY <1>1 DEF IsTable, HasPages, Mapped
  <2>2. PICK e : e = t.pte[v]
    OBVIOUS
  <2>3. /\ v \in 0 .. Tables!MAXVA - 1 /\ (e.kind = "own" <=> v < Tables!SHM_VA)
        /\ (e.kind = "shared" <=> v = Tables!SHM_VA) /\ e.kind \in {"own", "shared", "kernel"}
    BY <2>1, <2>2 DEF IsEntry, IsPage, PagesBelow
  <2>4. e.kind = "kernel" <=> v > Tables!SHM_VA
    BY <2>3, PageNumbers
  <2>5. v > Tables!SHM_VA <=> v \in KernelPages
    BY <2>3, PageNumbers DEF KernelPages
  <2> QED
    BY <2>2, <2>3, <2>4, <2>5
<1> QED
  BY <1>1 DEF Visible, Mapped

\* The pages of a new size: Resized of PageMap.
ResizedTo(g, s) ==
  [v \in HeapPages(s) \cup {u \in DOMAIN g : g[u].kind = "shared"} |->
     IF v \in DOMAIN g THEN g[v] ELSE Tables!Zeroed(TRUE)]

LEMMA ResizedIs ==
  ASSUME NEW p \in TableProc, NEW s
  PROVE  Tables!Abstract!Resized(p, s) = ResizedTo(ImageOf(p), s)
<1>1. [q \in TableProc |-> Tables!View(q)][p] = ImageOf(p)
  BY ViewIs
<1>2. Tables!Abstract!Fresh(TRUE, TRUE) = Tables!Zeroed(TRUE)
  BY DEF Tables!Abstract!Fresh, Tables!Zeroed, Tables!Entry
<1>3. Tables!Abstract!PagesOf(s) = HeapPages(s)
  BY DEF Tables!Abstract!PagesOf, HeapPages, PagesBelow, Tables!RoundUp
<1> QED
  BY <1>1, <1>2, <1>3 DEF Tables!Abstract!Resized, ResizedTo

\* From the page table t of a process of size s to r and n: pages of the heap that
\* stay are as they were, new ones are zeros.
Resizes(t, s, r, n) ==
  /\ IsSpace(t, s) /\ HasPages(t) /\ IsTable(r) /\ HasPages(r)
  /\ Mapped(r) \subseteq HeapPages(n) \cup {Tables!SHM_VA} \cup KernelPages
  /\ \A v \in Mapped(t) : v \in HeapPages(n) \cup {Tables!SHM_VA} => v \in Mapped(r)
  /\ Tables!SHM_VA \in Mapped(r) => Tables!SHM_VA \in Mapped(t)
  /\ \A v \in Mapped(r) \ KernelPages :
       r.pte[v] = IF v \in Mapped(t) THEN t.pte[v] ELSE Tables!Zeroed(TRUE)

LEMMA ImageResized ==
  ASSUME NEW t, NEW s, NEW r, NEW n, Resizes(t, s, r, n)
  PROVE  Image(r.pte, n) = ResizedTo(Image(t.pte, s), n)
<1>0. /\ IsSpace(t, s) /\ HasPages(t) /\ IsTable(r) /\ HasPages(r)
      /\ Mapped(r) \subseteq HeapPages(n) \cup {Tables!SHM_VA} \cup KernelPages
      /\ \A v \in Mapped(t) : v \in HeapPages(n) \cup {Tables!SHM_VA} => v \in Mapped(r)
      /\ Tables!SHM_VA \in Mapped(r) => Tables!SHM_VA \in Mapped(t)
      /\ \A v \in Mapped(r) \ KernelPages :
           r.pte[v] = IF v \in Mapped(t) THEN t.pte[v] ELSE Tables!Zeroed(TRUE)
  BY DEF Resizes
<1>1. IsTable(t)
  BY <1>0 DEF IsSpace
<1>2. /\ Visible(t.pte) = Mapped(t) \ KernelPages /\ Visible(r.pte) = Mapped(r) \ KernelPages
      /\ \A v \in Visible(t.pte) : t.pte[v].kind = "shared" <=> v = Tables!SHM_VA
  BY <1>0, <1>1, VisibleIs
<1>3. PICK g : g = Image(t.pte, s)
  OBVIOUS
<1>4. /\ DOMAIN g = Visible(t.pte) \cup HeapPages(s)
      /\ \A v \in DOMAIN g : g[v] = IF v \in Visible(t.pte) THEN t.pte[v] ELSE Tables!Zeroed(TRUE)
  BY <1>3 DEF Image
<1>5. {u \in DOMAIN g : g[u].kind = "shared"} = {Tables!SHM_VA} \cap Visible(t.pte)
  <2>1. Tables!Zeroed(TRUE).kind # "shared"
    BY DEF Tables!Zeroed, Tables!Entry
  <2> QED
    BY <1>2, <1>4, <2>1
<1>6. Tables!SHM_VA \notin KernelPages
  BY PageNumbers DEF KernelPages
<1>7. Visible(r.pte) \cup HeapPages(n) =
        HeapPages(n) \cup {u \in DOMAIN g : g[u].kind = "shared"}
  BY <1>0, <1>2, <1>5, <1>6
<1>8. ASSUME NEW v \in HeapPages(n) \cup {u \in DOMAIN g : g[u].kind = "shared"}
      PROVE  (IF v \in Visible(r.pte) THEN r.pte[v] ELSE Tables!Zeroed(TRUE)) =
               (IF v \in DOMAIN g THEN g[v] ELSE Tables!Zeroed(TRUE))
  <2>1. v \in Visible(t.pte) => v \in Visible(r.pte)
    BY <1>0, <1>2, <1>5, <1>6, <1>8
  <2>2. v \in Visible(r.pte) =>
          r.pte[v] = IF v \in Visible(t.pte) THEN t.pte[v] ELSE Tables!Zeroed(TRUE)
    BY <1>0, <1>2
  <2> QED
    BY <1>4, <2>1, <2>2
<1> QED
  BY <1>3, <1>7, <1>8 DEF Image, ResizedTo

LEMMA SpaceIs ==
  ASSUME MapInv, NEW p \in TableProc, Tables!Exists(p)
  PROVE  /\ IsSpace(pagetable[p], size[p]) /\ IsTable(pagetable[p]) /\ HasPages(pagetable[p])
         /\ size[p] \in Nat /\ Tables!RoundUp(size[p]) <= Tables!SHM_VA
  BY KnownTables, SpaceFacts DEF MapInv

\* sbrk() beyond the top of the address space, eager or lazy.
LEMMA TooLarge ==
  ASSUME MapInv, NEW p \in TableProc, Tables!Exists(p), NEW n \in Amounts, NEW left,
         size[p] + n > Tables!TRAPFRAME * PGSIZE, pagetable' = pagetable, size' = size,
         Tables!Done("grow", p, <<n>>, Tables!Fail(Tables!On(p, left)))
  PROVE  Tables!Abstract!Grow(p, n)
<1>1. PICK k, m : k = Tables!On(p, left) /\ m = Tables!Fail(k)
  OBVIOUS
<1>2. IsWork(k) /\ k.nomem = FALSE
  BY <1>1, OnIs DEF IsCall
<1>3. m.ok = FALSE /\ m.nomem = FALSE
  BY <1>1, <1>2, FailIs
<1>4. Tables!Abstract!Same
  BY ImagesSame DEF MapInv
<1>5. Tables!Abstract!Refused("grow", p, <<n>>)
  BY <1>1, <1>3, <1>4, Failures
<1>6. Tables!Abstract!Top = Tables!TRAPFRAME
  BY DEF Tables!Abstract!Top, Tables!TRAPFRAME, Tables!MAXVA
<1>7. ~(size[p] + n <= Tables!Abstract!Top * PGSIZE)
  <2>1. size[p] \in Nat /\ n \in Nat /\ Tables!TRAPFRAME \in Int /\ PGSIZE \in Nat
    BY SpaceIs, TablesAssumption, PageNumbers
  <2>2. size[p] + n \in Int /\ Tables!TRAPFRAME * PGSIZE \in Int
    BY <2>1
  <2> QED
    BY <1>6, <2>2
<1> QED
  BY <1>5, <1>7 DEF Tables!Abstract!Grow

LEMMA Fits ==
  ASSUME MapInv, NEW p \in TableProc, Tables!Exists(p), NEW n \in Amounts,
         ~(size[p] + n > Tables!TRAPFRAME * PGSIZE)
  PROVE  size[p] + n <= Tables!Abstract!Top * PGSIZE
<1>1. Tables!Abstract!Top = Tables!TRAPFRAME
  BY DEF Tables!Abstract!Top, Tables!TRAPFRAME, Tables!MAXVA
<1>2. size[p] \in Nat /\ n \in Nat /\ Tables!TRAPFRAME \in Int /\ PGSIZE \in Nat
  BY SpaceIs, TablesAssumption, PageNumbers
<1>3. size[p] + n \in Int /\ Tables!TRAPFRAME * PGSIZE \in Int
  BY <1>2
<1> QED
  BY <1>1, <1>3

LEMMA HeapsGrow ==
  ASSUME NEW a \in Nat, NEW b \in Nat, a <= b
  PROVE  HeapPages(a) \subseteq HeapPages(b)
<1>1. /\ Tables!RoundUp(a) \in Nat /\ Tables!RoundUp(b) \in Nat
      /\ Tables!RoundUp(a) <= Tables!RoundUp(b)
  BY AddressFacts
<1> QED
  BY <1>1 DEF HeapPages, PagesBelow

LEMMA LazyMaps ==
  ASSUME ImagesBelowShm, "A4" \notin LazyKernels, MapInv, NEW p \in TableProc,
         NEW n \in Amounts, Tables!SbrkLazy(p, n)
  PROVE  MapInv' /\ Tables!Abstract!Next
<1>1. PICK k : k = Tables!On(p, 0)
  OBVIOUS
<1>2. /\ Tables!Exists(p) /\ Tables!WithinBound(p, n) /\ pagetable' = pagetable
      /\ n \in Nat /\ TablesInv /\ TablesInv'
  BY TablesAssumption, LazyKeeps DEF Tables!SbrkLazy, Tables!Alone, MapInv
<1>3. /\ IsCall(k) /\ k.ok = TRUE /\ k.nomem = FALSE /\ k.bytes = <<>>
      /\ size[p] \in Nat
  BY <1>1, <1>2, OnIs
<1>4. CASE size[p] + n > Tables!TRAPFRAME * PGSIZE
  <2>1. size' = size /\ Tables!Done("grow", p, <<n>>, Tables!Fail(k))
    BY <1>1, <1>4 DEF Tables!SbrkLazy
  <2>2. MapInv'
    BY <1>2, <2>1, PagesSame
  <2>3. Tables!Abstract!Grow(p, n)
    BY <1>1, <1>2, <1>4, <2>1, TooLarge
  <2>4. reply'.call = "grow" /\ reply'.p = p
    BY <2>1, Answers
  <2> QED
    BY <2>2, <2>3, <2>4 DEF Tables!Abstract!Next, Tables!Abstract!Answered
<1>5. CASE ~(size[p] + n > Tables!TRAPFRAME * PGSIZE)
  <2>1. PICK s : s = size[p] + n
    OBVIOUS
  <2>2. size' = [size EXCEPT ![p] = s] /\ Tables!Done("grow", p, <<n>>, k)
    BY <1>1, <1>5, <2>1 DEF Tables!SbrkLazy
  <2>3. MapInv'
    BY <1>2, <2>2, PagesSame
  <2>4. PICK t : t = pagetable[p]
    OBVIOUS
  <2>5. Tables!Returns(p, t, s)
    <3>1. /\ pagetable = [q \in TableProc |-> pagetable[q]]
          /\ t = [tables |-> t.tables, pte |-> t.pte]
      BY <1>2, <2>4 DEF TablesInv
    <3>2. Tables!Table(t) = t
      BY <3>1 DEF Tables!Table
    <3> QED
      BY <1>2, <2>2, <2>4, <3>1, <3>2 DEF Tables!Returns
  <2>6. Tables!Abstract!Becomes(p, Image(t.pte, s), s)
    BY <1>2, <2>5, ImageBecomes
  <2>7. Image(t.pte, s) = ResizedTo(Image(t.pte, size[p]), s)
    <3>1. IsSpace(t, size[p]) /\ IsTable(t) /\ HasPages(t)
      BY <1>2, <2>4, KnownTables, SpaceFacts DEF MapInv
    <3>2. HeapPages(size[p]) \subseteq HeapPages(s)
      BY <1>2, <1>3, <2>1, HeapsGrow
    <3>3. Mapped(t) \subseteq HeapPages(s) \cup {Tables!SHM_VA} \cup KernelPages
      BY <3>1, <3>2 DEF IsSpace, Mapped
    <3>4. Resizes(t, size[p], t, s)
      BY <3>1, <3>3 DEF Resizes
    <3> QED
      BY <3>4, ImageResized
  <2>8. Tables!Abstract!Becomes(p, Tables!Abstract!Resized(p, s), s)
    BY <2>4, <2>6, <2>7, ResizedIs DEF ImageOf
  <2>9. Tables!Abstract!Succeeds("grow", p, <<n>>, <<>>)
    BY <1>3, <2>2, Answers
  <2>10. size[p] + n <= Tables!Abstract!Top * PGSIZE
    BY <1>2, <1>5, Fits
  <2>11. Tables!Abstract!Grow(p, n)
    BY <2>1, <2>8, <2>9, <2>10 DEF Tables!Abstract!Grow
  <2>12. reply'.call = "grow" /\ reply'.p = p
    BY <2>2, Answers
  <2> QED
    BY <2>3, <2>11, <2>12 DEF Tables!Abstract!Next, Tables!Abstract!Answered
<1> QED
  BY <1>4, <1>5

\* What uvmalloc() gives a process: all the pages, zeroed, or none.
LEMMA UvmallocImage ==
  ASSUME NEW m, IsCall(m), m.ok, NEW s, IsSpace(m, s), NEW n \in Nat, s <= n,
         Tables!RoundUp(n) <= Tables!SHM_VA
  PROVE  LET r == Tables!Uvmalloc(m, s, n, TRUE)
         IN /\ IsCall(r) /\ r.bytes = m.bytes
            /\ r.ok => Image(r.pte, n) = ResizedTo(Image(m.pte, s), n)
            /\ ~r.ok => Image(r.pte, s) = Image(m.pte, s)
<1>1. PICK r : r = Tables!Uvmalloc(m, s, n, TRUE)
  OBVIOUS
<1> SUFFICES /\ IsCall(r) /\ r.bytes = m.bytes
             /\ r.ok => Image(r.pte, n) = ResizedTo(Image(m.pte, s), n)
             /\ ~r.ok => Image(r.pte, s) = Image(m.pte, s)
  BY <1>1
<1>2. PICK o \in Nat : o = s /\ Tables!RoundUp(o) <= Tables!SHM_VA
  BY SpaceFacts
<1>3. PICK a \in Nat, b \in Nat : a = Tables!RoundUp(o) /\ b = Tables!RoundUp(n)
  BY <1>2, AddressFacts
<1>4. a <= b /\ b <= Tables!SHM_VA /\ HeapPages(o) = 0 .. a - 1 /\ HeapPages(n) = 0 .. b - 1
  BY <1>2, <1>3, AddressFacts DEF HeapPages, PagesBelow
<1>5. Mapped(m) \cap (Tables!RoundUp(o) .. Tables!RoundUp(n) - 1) = {}
  <2>1. Mapped(m) \subseteq 0 .. a - 1 \cup {Tables!SHM_VA} \cup KernelPages
    BY <1>2, <1>4 DEF IsSpace, Mapped
  <2> QED
    BY <1>3, <1>4, <2>1, PageNumbers DEF KernelPages
<1>6. /\ IsWork(r) /\ Fills(m, r, ZeroPages(TRUE))
      /\ Mapped(r) = IF r.ok THEN Mapped(m) \cup (Tables!RoundUp(o) .. Tables!RoundUp(n) - 1)
                     ELSE Mapped(m)
  BY <1>1, <1>2, <1>5, UvmallocFacts DEF IsCall
<1>7. /\ OnlyShort(r) /\ Keeps(m, r)
      /\ \A v \in Mapped(r) \ Mapped(m) : r.pte[v] = ZeroPages(TRUE)[v]
  BY <1>6 DEF Fills, IsCall
<1>8. \A v \in Mapped(r) \ Mapped(m) : r.pte[v] = Tables!Zeroed(TRUE) /\ v \in a .. b - 1
  <2>1. SUFFICES ASSUME NEW v \in Mapped(r) \ Mapped(m)
                 PROVE  r.pte[v] = Tables!Zeroed(TRUE) /\ v \in a .. b - 1
    OBVIOUS
  <2>2. v \in a .. b - 1
    BY <1>3, <1>6, <2>1
  <2>3. v \in Nat
    BY <2>2
  <2> QED
    BY <1>7, <2>1, <2>2, <2>3 DEF ZeroPages
<1>9. \A v \in Mapped(m) : v \in Mapped(r) /\ r.pte[v] = m.pte[v]
  BY <1>6, <1>7 DEF Keeps
<1>10. HasPages(r)
  BY <1>8, <1>9, ZeroedIs DEF HasPages, IsCall
<1>11. r.ok => Image(r.pte, n) = ResizedTo(Image(m.pte, s), n)
  <2>1. SUFFICES ASSUME r.ok
                 PROVE  Resizes(m, s, r, n)
    BY ImageResized
  <2>2. HeapPages(s) \subseteq HeapPages(n) /\ a .. b - 1 \subseteq HeapPages(n)
    BY <1>2, <1>3, <1>4
  <2>3. Mapped(m) \subseteq HeapPages(s) \cup {Tables!SHM_VA} \cup KernelPages
    BY DEF IsSpace, Mapped
  <2>4. Mapped(r) \subseteq HeapPages(n) \cup {Tables!SHM_VA} \cup KernelPages
    BY <1>8, <2>2, <2>3
  <2>5. Tables!SHM_VA \in Mapped(r) => Tables!SHM_VA \in Mapped(m)
    <3>1. Tables!SHM_VA \notin a .. b - 1
      BY <1>4, PageNumbers
    <3> QED
      BY <1>8, <3>1
  <2> QED
    BY <1>6, <1>8, <1>9, <1>10, <2>4, <2>5 DEF Resizes, IsWork, IsCall
<1>12. ~r.ok => Image(r.pte, s) = Image(m.pte, s)
  <2>1. SUFFICES ASSUME ~r.ok
                 PROVE  Image(r.pte, s) = Image(m.pte, s)
    OBVIOUS
  <2>2. Mapped(r) = Mapped(m)
    BY <1>6, <2>1
  <2> QED
    BY <1>7, <1>8, <2>2, ImageFills
<1> QED
  BY <1>6, <1>7, <1>10, <1>11, <1>12 DEF IsCall, Keeps

LEMMA GrowMaps ==
  ASSUME ImagesBelowShm, MapInv, NEW p \in TableProc, NEW n \in Amounts, NEW left,
         Tables!SbrkGrow(p, n, left)
  PROVE  MapInv' /\ Tables!Abstract!Next
<1>1. PICK k : k = Tables!On(p, left)
  OBVIOUS
<1>2. /\ Tables!Exists(p) /\ Tables!WithinBound(p, n)
      /\ n \in Nat /\ TablesInv /\ TablesInv'
  BY TablesAssumption, GrowKeeps DEF Tables!SbrkGrow, Tables!Alone, MapInv
<1>3. /\ IsCall(k) /\ k.ok /\ k.bytes = <<>> /\ k.pte = pagetable[p].pte
      /\ IsSpace(k, size[p]) /\ size[p] \in Nat
  BY <1>1, <1>2, OnIs
<1>4. CASE size[p] + n > Tables!TRAPFRAME * PGSIZE
  <2>1. /\ pagetable' = pagetable /\ size' = size
        /\ Tables!Done("grow", p, <<n>>, Tables!Fail(k))
    BY <1>1, <1>4 DEF Tables!SbrkGrow
  <2>2. MapInv'
    BY <1>2, <2>1, PagesSame
  <2>3. Tables!Abstract!Grow(p, n)
    BY <1>1, <1>2, <1>4, <2>1, TooLarge
  <2>4. reply'.call = "grow" /\ reply'.p = p
    BY <2>1, Answers
  <2> QED
    BY <2>2, <2>3, <2>4 DEF Tables!Abstract!Next, Tables!Abstract!Answered
<1>5. CASE ~(size[p] + n > Tables!TRAPFRAME * PGSIZE)
  <2>1. PICK o, s : o = size[p] /\ s = size[p] + n
    OBVIOUS
  <2>2. PICK m : m = Tables!Uvmalloc(k, o, s, TRUE)
    OBVIOUS
  <2>3. /\ Tables!Returns(p, m, IF m.ok THEN s ELSE o)
        /\ Tables!Done("grow", p, <<n>>, m)
    BY <1>1, <1>5, <2>1, <2>2 DEF Tables!SbrkGrow
  <2>4. s \in Nat /\ o <= s /\ Tables!RoundUp(s) <= Tables!SHM_VA /\ IsSpace(k, o)
    BY <1>2, <1>3, <1>5, <2>1, WithinBoundFacts
  <2>5. /\ IsCall(m) /\ m.bytes = <<>>
        /\ m.ok => Image(m.pte, s) = ResizedTo(Image(k.pte, o), s)
        /\ ~m.ok => Image(m.pte, o) = Image(k.pte, o)
    BY <1>3, <2>2, <2>4, UvmallocImage, ZenonT(40)
  <2>6. ~IsEmpty(m)
    <3>1. IsSpace(m, IF m.ok THEN s ELSE o)
      BY <1>3, <2>2, <2>4, UvmallocSpace DEF IsCall
    <3> QED
      BY <3>1, SpaceFacts
  <2>7. MapInv'
    BY <1>2, <2>3, <2>5, <2>6, PagesReturn DEF IsCall
  <2>8. size[p] + n <= Tables!Abstract!Top * PGSIZE
    BY <1>2, <1>5, Fits
  <2>9. Image(k.pte, o) = ImageOf(p)
    BY <1>3, <2>1 DEF ImageOf
  <2>10. ASSUME m.ok = TRUE PROVE Tables!Abstract!Grow(p, n)
    <3>1. Tables!Returns(p, m, s) /\ Image(m.pte, s) = ResizedTo(ImageOf(p), s)
      BY <2>3, <2>5, <2>9, <2>10
    <3>2. Tables!Abstract!Becomes(p, Image(m.pte, s), s)
      BY <1>2, <3>1, ImageBecomes
    <3>3. Tables!Abstract!Becomes(p, Tables!Abstract!Resized(p, s), s)
      BY <3>1, <3>2, ResizedIs
    <3>4. m.nomem = FALSE
      BY <2>5, <2>10 DEF IsCall, OnlyShort
    <3>5. Tables!Abstract!Succeeds("grow", p, <<n>>, <<>>)
      BY <2>3, <2>5, <2>10, <3>4, Answers
    <3> QED
      BY <2>1, <2>8, <3>3, <3>5 DEF Tables!Abstract!Grow
  <2>11. ASSUME m.ok = FALSE PROVE Tables!Abstract!Grow(p, n)
    <3>1. Tables!Returns(p, m, size[p]) /\ Image(m.pte, size[p]) = ImageOf(p)
      BY <2>1, <2>3, <2>5, <2>9, <2>11
    <3>2. Tables!Abstract!Same
      BY <1>2, <3>1, ImageSame
    <3>3. m.nomem = TRUE
      BY <2>5, <2>11 DEF IsCall, OnlyShort
    <3>4. Tables!Abstract!RunsShort("grow", p, <<n>>)
      BY <2>3, <2>11, <3>2, <3>3, Failures
    <3> QED
      BY <2>8, <3>4 DEF Tables!Abstract!Grow
  <2>12. Tables!Abstract!Grow(p, n)
    BY <2>5, <2>10, <2>11 DEF IsCall, IsWork
  <2>13. reply'.call = "grow" /\ reply'.p = p
    BY <2>3, Answers
  <2> QED
    BY <2>7, <2>12, <2>13 DEF Tables!Abstract!Next, Tables!Abstract!Answered
<1> QED
  BY <1>4, <1>5

LEMMA ShrinkMaps ==
  ASSUME MapInv, NEW p \in TableProc, NEW n \in Amounts, Tables!SbrkShrink(p, n)
  PROVE  MapInv' /\ Tables!Abstract!Next
<1>1. PICK k, s, o :
        /\ k = Tables!On(p, 0) /\ s = (IF n <= size[p] THEN size[p] - n ELSE size[p])
        /\ o = size[p]
  OBVIOUS
<1>2. PICK m : m = Tables!Uvmdealloc(k, o, s)
  OBVIOUS
<1>3. /\ Tables!Exists(p) /\ Tables!Returns(p, m, s) /\ Tables!Done("shrink", p, <<n>>, m)
      /\ n \in Nat /\ TablesInv
  BY <1>1, <1>2, TablesAssumption DEF Tables!SbrkShrink, Tables!Alone, MapInv
<1>4. TablesInv'
  BY <1>3, ShrinkKeeps
<1>5. /\ IsCall(k) /\ IsWork(k) /\ k.ok = TRUE /\ k.nomem = FALSE /\ k.bytes = <<>>
      /\ k.pte = pagetable[p].pte /\ IsSpace(k, o) /\ o \in Nat /\ Tables!RoundUp(o) <= Tables!SHM_VA
  BY <1>1, <1>3, OnIs DEF IsCall
<1>6. s \in Nat /\ s <= o
  BY <1>1, <1>3, <1>5
<1>7. PICK a \in Nat, b \in Nat : a = Tables!RoundUp(s) /\ b = Tables!RoundUp(o)
  BY <1>5, <1>6, AddressFacts
<1>8. a <= b /\ b <= Tables!SHM_VA /\ HeapPages(s) = 0 .. a - 1 /\ HeapPages(o) = 0 .. b - 1
  BY <1>5, <1>6, <1>7, AddressFacts DEF HeapPages, PagesBelow
<1>9. kernel # "A7" => a .. b - 1 \subseteq Mapped(k)
  BY <1>5, <1>8 DEF IsSpace, Mapped
<1>10. IsWork(m) /\ Mapped(m) = Mapped(k) \ (a .. b - 1) /\ Leaves(k, m)
  BY <1>2, <1>5, <1>6, <1>7, <1>9, UvmdeallocFacts, UvmdeallocKeeps
<1>11. m.ok = TRUE /\ m.nomem = FALSE /\ m.bytes = <<>>
  BY <1>5, <1>10 DEF Leaves, Keeps
<1>12. \A v \in Mapped(m) : v \in Mapped(k) /\ m.pte[v] = k.pte[v]
  BY <1>10 DEF Leaves, Keeps
<1>13. HasPages(m)
  BY <1>5, <1>12 DEF HasPages, IsCall
<1>14. Tables!SHM_VA \in Mapped(m) => Tables!SHM_VA \in Mapped(k)
  BY <1>12
<1>15. Resizes(k, o, m, s)
  <2>1. Mapped(k) \subseteq HeapPages(o) \cup {Tables!SHM_VA} \cup KernelPages
    BY <1>5 DEF IsSpace, Mapped
  <2>2. Mapped(m) \subseteq HeapPages(s) \cup {Tables!SHM_VA} \cup KernelPages
    BY <1>8, <1>10, <2>1
  <2>3. \A v \in HeapPages(s) \cup {Tables!SHM_VA} : v \notin a .. b - 1
    BY <1>8, PageNumbers
  <2>4. \A v \in Mapped(k) : v \in HeapPages(s) \cup {Tables!SHM_VA} => v \in Mapped(m)
    BY <1>10, <2>3
  <2>5. IsTable(m) /\ HasPages(k)
    BY <1>5, <1>10 DEF IsWork, IsCall
  <2> QED
    BY <1>5, <1>12, <1>13, <1>14, <2>2, <2>4, <2>5 DEF Resizes
<1>16. Image(m.pte, s) = ResizedTo(ImageOf(p), s)
  <2>1. Image(k.pte, o) = ImageOf(p)
    BY <1>1, <1>5 DEF ImageOf
  <2> QED
    BY <1>15, <2>1, ImageResized
<1>17. Tables!Abstract!Becomes(p, Tables!Abstract!Resized(p, s), s)
  <2>1. Tables!Abstract!Becomes(p, Image(m.pte, s), s)
    BY <1>3, ImageBecomes
  <2> QED
    BY <1>16, <2>1, ResizedIs
<1>18. ~IsEmpty(m)
  <2>1. KernelPages \subseteq Mapped(k) /\ KernelPages \cap (a .. b - 1) = {}
    BY <1>5, <1>8, PageNumbers DEF IsSpace, Mapped, KernelPages
  <2>2. Tables!TRAMPOLINE \in Mapped(m)
    BY <1>10, <2>1 DEF KernelPages
  <2> QED
    BY <2>2 DEF IsEmpty, Mapped
<1>19. MapInv'
  BY <1>3, <1>4, <1>13, <1>18, PagesReturn
<1>20. Tables!Abstract!Succeeds("shrink", p, <<n>>, <<>>)
  BY <1>3, <1>11, Answers
<1>21. Tables!Abstract!Shrink(p, n)
  BY <1>1, <1>17, <1>20 DEF Tables!Abstract!Shrink
<1>22. reply'.call = "shrink" /\ reply'.p = p
  BY <1>3, Answers
<1> QED
  BY <1>19, <1>21, <1>22 DEF Tables!Abstract!Next, Tables!Abstract!Answered

LEMMA SharedIs ==
  /\ \A v : IsPage(v, Tables!SharedEntry)
  /\ Tables!SharedEntry.kind = "shared" /\ Tables!SharedEntry.u = TRUE
  /\ Tables!Abstract!Shared = Tables!SharedEntry
<1>1. /\ Tables!SharedEntry.kind = "shared" /\ Tables!SharedEntry.u = TRUE
      /\ Tables!SharedEntry.bytes = [i \in 0 .. PGSIZE - 1 |-> 0]
  BY DEF Tables!SharedEntry, Tables!Entry
<1>2. Tables!Abstract!Shared = Tables!SharedEntry
  <2>1. PICK z : z = [i \in 0 .. PGSIZE - 1 |-> 0]
    OBVIOUS
  <2>2. /\ Tables!Abstract!Fresh(TRUE, TRUE) = [kind |-> "own", w |-> TRUE, u |-> TRUE, bytes |-> z]
        /\ Tables!SharedEntry = [kind |-> "shared", w |-> TRUE, u |-> TRUE, bytes |-> z]
    BY <2>1 DEF Tables!SharedEntry, Tables!Entry, Tables!Abstract!Fresh
  <2>3. PICK b : b = TRUE
    OBVIOUS
  <2>4. PICK e : e = [kind |-> "own", w |-> b, u |-> b, bytes |-> z]
    OBVIOUS
  <2>5. [e EXCEPT !.kind = "shared"] = [kind |-> "shared", w |-> b, u |-> b, bytes |-> z]
    BY <2>4
  <2>6. e = Tables!Abstract!Fresh(TRUE, TRUE)
    BY <2>2, <2>3, <2>4
  <2> QED
    BY <2>2, <2>3, <2>5, <2>6 DEF Tables!Abstract!Shared
<1>3. \A v : IsPage(v, Tables!SharedEntry)
  <2>1. Tables!SharedEntry.bytes =
          [i \in 0 .. PGSIZE - 1 |-> Tables!SharedEntry.bytes[i]]
    BY <1>1
  <2> QED
    BY <1>1, <2>1 DEF IsPage
<1> QED
  BY <1>1, <1>2, <1>3

\* With the shared page: Share of PageMap.
SharedTo(g) == [v \in DOMAIN g \cup {Tables!SHM_VA} |->
                  IF v \in DOMAIN g THEN g[v] ELSE Tables!SharedEntry]

LEMMA ImageShared ==
  ASSUME NEW m, NEW r, NEW s, Mapped(r) = Mapped(m) \cup {Tables!SHM_VA}, Keeps(m, r),
         HasPages(m), Tables!SHM_VA \notin Mapped(m) => r.pte[Tables!SHM_VA] = Tables!SharedEntry,
         Tables!SHM_VA \notin HeapPages(s),
         Tables!SHM_VA \in Mapped(m) => m.pte[Tables!SHM_VA].kind # "kernel"
  PROVE  Image(r.pte, s) = SharedTo(Image(m.pte, s)) /\ HasPages(r)
<1>1. \A v \in Mapped(r) : r.pte[v] = IF v \in Mapped(m) THEN m.pte[v] ELSE Tables!SharedEntry
  BY DEF Keeps
<1>2. HasPages(r)
  BY <1>1, SharedIs DEF HasPages
<1>3. /\ Visible(r.pte) = Visible(m.pte) \cup {Tables!SHM_VA}
      /\ \A v \in Visible(r.pte) :
           r.pte[v] = IF v \in Visible(m.pte) THEN m.pte[v] ELSE Tables!SharedEntry
  BY <1>1, SharedIs DEF Visible, Mapped
<1>4. Image(r.pte, s) = SharedTo(Image(m.pte, s))
  BY <1>3 DEF Image, SharedTo
<1> QED
  BY <1>2, <1>4

LEMMA ShmIsNoHeap ==
  ASSUME NEW s \in Nat, Tables!RoundUp(s) <= Tables!SHM_VA
  PROVE  Tables!SHM_VA \notin HeapPages(s) /\ Tables!SHM_VA \notin KernelPages
  BY AddressFacts, PageNumbers DEF HeapPages, PagesBelow, KernelPages

LEMMA ShareBecomes ==
  ASSUME NEW p \in TableProc, Tables!Abstract!Becomes(p, SharedTo(ImageOf(p)), size[p]),
         Tables!Abstract!Succeeds("shm", p, <<>>, <<>>)
  PROVE  Tables!Abstract!Share(p)
<1>1. [q \in TableProc |-> Tables!View(q)][p] = ImageOf(p)
  BY ViewIs
<1>2. Tables!Abstract!Top - 1 = Tables!SHM_VA
  BY TablesAssumption DEF Tables!Abstract!Top, Tables!SHM_VA, Tables!MAXVA
<1>3. Tables!Abstract!Shared = Tables!SharedEntry
  BY SharedIs
<1>4. PICK f : f = [q \in TableProc |-> Tables!View(q)][p]
  OBVIOUS
<1>5. [v \in DOMAIN f \cup {Tables!Abstract!Top - 1} |->
         IF v \in DOMAIN f THEN f[v] ELSE Tables!Abstract!Shared] = SharedTo(f)
  BY <1>2, <1>3 DEF SharedTo
<1>6. SharedTo(f) = SharedTo(ImageOf(p))
  BY <1>1, <1>4
<1> QED
  BY <1>4, <1>5, <1>6 DEF Tables!Abstract!Share

LEMMA ShmGetMaps ==
  ASSUME ImagesBelowShm, MapInv, NEW p \in TableProc, NEW left, Tables!ShmGet(p, left)
  PROVE  MapInv' /\ Tables!Abstract!Next
<1>1. PICK k, s : k = Tables!On(p, left) /\ s = size[p]
  OBVIOUS
<1>2. PICK m : m = IF Tables!SHM_VA \in DOMAIN pagetable[p].pte THEN k
                   ELSE Tables!Mappages(k, Tables!SHM_VA, Tables!SharedEntry)
  OBVIOUS
<1>3. /\ Tables!Exists(p) /\ Tables!Returns(p, m, size[p]) /\ Tables!Done("shm", p, <<>>, m)
      /\ TablesInv
  BY <1>1, <1>2 DEF Tables!ShmGet, Tables!Alone, MapInv
<1>4. TablesInv'
  BY <1>3, ShmGetKeeps
<1>5. /\ IsCall(k) /\ k.ok = TRUE /\ k.nomem = FALSE /\ k.bytes = <<>>
      /\ k.pte = pagetable[p].pte /\ IsSpace(k, s) /\ s \in Nat /\ Tables!RoundUp(s) <= Tables!SHM_VA
      /\ IsWork(k) /\ OnlyShort(k) /\ HasPages(k)
  BY <1>1, <1>3, OnIs DEF IsCall
<1>6. Tables!SHM_VA \notin HeapPages(s) /\ Tables!SHM_VA \notin KernelPages
  BY <1>5, ShmIsNoHeap
<1>7. IsEntry(Tables!SHM_VA, Tables!SharedEntry)
  BY PageNumbers DEF ImagesBelowShm, IsEntry, Tables!SharedEntry, Tables!Entry, PagesBelow
<1>8. Tables!SHM_VA \in Mapped(k) => k.pte[Tables!SHM_VA].kind # "kernel"
  BY <1>5 DEF IsTable, IsWork, IsEntry, Mapped
<1>9. /\ IsWork(m) /\ Keeps(k, m) /\ OnlyShort(m)
      /\ m.ok => /\ Mapped(m) = Mapped(k) \cup {Tables!SHM_VA}
                 /\ Tables!SHM_VA \notin Mapped(k) => m.pte[Tables!SHM_VA] = Tables!SharedEntry
      /\ ~m.ok => m.pte = k.pte
  <2>1. ASSUME Tables!SHM_VA \in Mapped(k)
        PROVE  m = k /\ Mapped(m) = Mapped(k) \cup {Tables!SHM_VA}
    BY <1>2, <1>5, <2>1 DEF Mapped
  <2>2. ASSUME Tables!SHM_VA \notin Mapped(k)
        PROVE  /\ IsWork(m) /\ Keeps(k, m) /\ OnlyShort(m)
               /\ m.ok => /\ Mapped(m) = Mapped(k) \cup {Tables!SHM_VA}
                          /\ m.pte[Tables!SHM_VA] = Tables!SharedEntry
               /\ ~m.ok => m.pte = k.pte
    <3>1. m = Tables!Mappages(k, Tables!SHM_VA, Tables!SharedEntry)
      BY <1>2, <1>5, <2>2 DEF Mapped
    <3>2. /\ IsWork(m) /\ (m.ok => Mapped(m) = Mapped(k) \cup {Tables!SHM_VA})
          /\ (~m.ok => m.pte = k.pte)
      BY <1>5, <1>7, <2>2, <3>1, MappagesFacts
    <3>3. Keeps(k, m) /\ OnlyShort(m) /\ (m.ok => m.pte[Tables!SHM_VA] = Tables!SharedEntry)
      BY <1>5, <1>7, <2>2, <3>1, MappagesKeeps
    <3> QED
      BY <3>2, <3>3
  <2>3. Keeps(k, k)
    BY DEF Keeps
  <2> QED
    BY <1>5, <2>1, <2>2, <2>3
<1>10. m.ok = TRUE \/ m.ok = FALSE
  BY <1>9 DEF IsWork
<1>11. m.ok = TRUE => Image(m.pte, s) = SharedTo(Image(k.pte, s)) /\ HasPages(m)
  BY <1>5, <1>6, <1>8, <1>9, ImageShared
<1>12. m.ok = FALSE => HasPages(m)
  BY <1>5, <1>9 DEF HasPages, Mapped
<1>13. MapInv'
  <2>1. ~IsEmpty(m)
    <3>1. Tables!TRAMPOLINE \in Mapped(m)
      BY <1>5, <1>9, <1>10 DEF IsSpace, KernelPages, Mapped
    <3> QED
      BY <3>1 DEF IsEmpty, Mapped
  <2> QED
    BY <1>3, <1>4, <1>10, <1>11, <1>12, <2>1, PagesReturn
<1>14. Image(k.pte, s) = ImageOf(p)
  BY <1>1, <1>5 DEF ImageOf
<1>15. ASSUME m.ok = TRUE PROVE Tables!Abstract!Share(p)
  <2>1. Tables!Abstract!Becomes(p, Image(m.pte, size[p]), size[p])
    BY <1>3, ImageBecomes
  <2>2. Tables!Abstract!Becomes(p, SharedTo(ImageOf(p)), size[p])
    BY <1>1, <1>11, <1>14, <1>15, <2>1
  <2>3. m.nomem = FALSE /\ m.bytes = <<>>
    BY <1>5, <1>9, <1>15 DEF OnlyShort, Keeps
  <2>4. Tables!Abstract!Succeeds("shm", p, <<>>, <<>>)
    <3>1. Tables!Abstract!Succeeds("shm", p, <<>>, m.bytes)
      BY <1>3, <1>15, <2>3, Answers
    <3> QED
      BY <2>3, <3>1
  <2> QED
    BY <2>2, <2>4, ShareBecomes
<1>16. ASSUME m.ok = FALSE PROVE Tables!Abstract!Share(p)
  <2>1. Image(m.pte, size[p]) = ImageOf(p) /\ m.nomem = TRUE
    BY <1>1, <1>9, <1>14, <1>16 DEF OnlyShort
  <2>2. Tables!Abstract!Same
    BY <1>3, <2>1, ImageSame
  <2> QED
    BY <1>3, <1>16, <2>1, <2>2, Failures DEF Tables!Abstract!Share
<1>17. reply'.call = "shm" /\ reply'.p = p
  BY <1>3, Answers
<1> QED
  BY <1>10, <1>13, <1>15, <1>16, <1>17 DEF Tables!Abstract!Next, Tables!Abstract!Answered

\* A page table that proc_pagetable() or allocproc() makes, or fails to make for
\* want of a page: only the kernel's entries are there.
Made(m, r) == OnlyShort(r) /\ r.bytes = m.bytes /\ (r.ok => HasPages(r))

LEMMA ProcPagetablePages ==
  ASSUME ImagesBelowShm, NEW m, IsWork(m), IsEmpty(m), m.ok, OnlyShort(m)
  PROVE  Made(m, Tables!ProcPagetable(m))
<1> DEFINE e1 == Tables!Entry("kernel", FALSE, FALSE)
           e2 == Tables!Entry("kernel", TRUE, FALSE)
<1>1. PICK k : k = Tables!Kalloc(m)
  OBVIOUS
<1>2. /\ IsWork(k) /\ IsEmpty(k) /\ OnlyShort(k) /\ k.bytes = m.bytes
  <2>1. IsWork(k) /\ k.tables = m.tables /\ k.pte = m.pte
    BY <1>1, AllocFacts
  <2>2. Keeps(m, k) /\ OnlyShort(k)
    BY <1>1, AllocKeeps
  <2> QED
    BY <2>1, <2>2 DEF IsEmpty, Keeps
<1>3. PICK root : root = [k EXCEPT !.tables = {<<>>}]
  OBVIOUS
<1>4. IsWork(root) /\ Mapped(root) = {} /\ root.ok = k.ok
  BY <1>2, <1>3, RootFacts
<1>5. root.bytes = k.bytes /\ root.nomem = k.nomem
  BY <1>2, <1>3 DEF IsWork
<1>6. PICK t : t = Tables!Mappages(root, Tables!TRAMPOLINE, e1)
  OBVIOUS
<1>7. PICK f : f = Tables!Mappages(t, Tables!TRAPFRAME, e2)
  OBVIOUS
<1>8. PICK g : g = Tables!Uvmunmap(f, {Tables!TRAMPOLINE}, FALSE)
  OBVIOUS
<1>9. PICK r : r = Tables!ProcPagetable(m)
  OBVIOUS
<1>10. r = IF ~k.ok THEN k
           ELSE IF ~t.ok THEN Tables!Uvmfree(t, 0)
           ELSE IF f.ok THEN f
           ELSE IF g.ok THEN g ELSE Tables!Uvmfree(g, 0)
  BY <1>1, <1>3, <1>6, <1>7, <1>8, <1>9
     DEF Tables!ProcPagetable, Tables!Then, Tables!OrUndo
<1>11. /\ IsEntry(Tables!TRAMPOLINE, e1) /\ IsEntry(Tables!TRAPFRAME, e2)
       /\ Tables!TRAMPOLINE # Tables!TRAPFRAME
       /\ ~(Tables!TRAMPOLINE < Tables!SHM_VA) /\ ~(Tables!TRAPFRAME < Tables!SHM_VA)
  BY PageNumbers DEF ImagesBelowShm, IsEntry, Tables!Entry, PagesBelow
<1>12. IsPage(Tables!TRAMPOLINE, e1) /\ IsPage(Tables!TRAPFRAME, e2)
  BY DEF IsPage, Tables!Entry
<1> HIDE DEF e1, e2
<1>13. ASSUME NEW w, IsWork(w), Mapped(w) = {}, OnlyShort(w), ~w.ok, w.bytes = m.bytes
       PROVE  Made(m, Tables!Uvmfree(w, 0))
  <2>1. PICK z : z = Tables!Uvmfree(w, 0)
    OBVIOUS
  <2>2. Tables!RoundUp(0) <= Tables!SHM_VA
    BY NoHeap, PageNumbers DEF ImagesBelowShm
  <2>3. Mapped(w) \subseteq HeapPages(0) /\ HeapPages(0) \subseteq Mapped(w)
    BY <1>13, NoHeap
  <2>4. z.ok = w.ok /\ z.bytes = w.bytes /\ z.nomem = w.nomem
    BY <1>13, <2>1, <2>2, <2>3, UvmfreeFacts, UvmfreeKeeps
  <2> QED
    BY <1>13, <2>1, <2>4 DEF Made, OnlyShort
<1>14. CASE ~k.ok
  BY <1>2, <1>9, <1>10, <1>14 DEF Made
<1>15. CASE k.ok
  <2>1. /\ IsWork(t) /\ OnlyShort(t) /\ t.bytes = m.bytes
        /\ t.ok => Mapped(t) = {Tables!TRAMPOLINE} /\ t.pte[Tables!TRAMPOLINE] = e1
        /\ ~t.ok => Mapped(t) = {}
    <3>1. Tables!TRAMPOLINE \notin Mapped(root)
      BY <1>4
    <3>2. /\ IsWork(t)
          /\ t.ok => Mapped(t) = Mapped(root) \cup {Tables!TRAMPOLINE}
          /\ ~t.ok => t.pte = root.pte
      BY <1>4, <1>6, <1>11, <1>15, <3>1, MappagesFacts
    <3>3. /\ OnlyShort(t) /\ Keeps(root, t)
          /\ t.ok => t.pte[Tables!TRAMPOLINE] = e1
      BY <1>4, <1>6, <1>11, <1>15, <3>1, MappagesKeeps
    <3>4. ~t.ok => Mapped(t) = {}
      BY <1>4, <3>2 DEF Mapped
    <3> QED
      BY <1>2, <1>4, <1>5, <3>2, <3>3, <3>4 DEF Keeps
  <2>2. CASE ~t.ok
    BY <1>9, <1>10, <1>13, <1>15, <2>1, <2>2
  <2>3. CASE t.ok
    <3>1. Tables!TRAPFRAME \notin Mapped(t)
      BY <1>11, <2>1, <2>3
    <3>2. /\ IsWork(f)
          /\ f.ok => Mapped(f) = Mapped(t) \cup {Tables!TRAPFRAME}
          /\ ~f.ok => f.pte = t.pte
      BY <1>7, <1>11, <2>1, <2>3, <3>1, MappagesFacts
    <3>3. OnlyShort(f) /\ Keeps(t, f) /\ (f.ok => f.pte[Tables!TRAPFRAME] = e2)
      BY <1>7, <1>11, <2>1, <2>3, <3>1, MappagesKeeps
    <3>4. CASE f.ok
      <4>1. \A v \in Mapped(f) : \/ v = Tables!TRAMPOLINE /\ f.pte[v] = e1
                                 \/ v = Tables!TRAPFRAME /\ f.pte[v] = e2
        BY <2>1, <2>3, <3>2, <3>3, <3>4 DEF Keeps
      <4>2. HasPages(f) /\ f.bytes = m.bytes
        BY <1>12, <2>1, <3>3, <4>1 DEF HasPages, Keeps
      <4> QED
        BY <1>9, <1>10, <1>15, <2>3, <3>3, <3>4, <4>2 DEF Made
    <3>5. CASE ~f.ok
      <4>1. Mapped(f) = {Tables!TRAMPOLINE}
        BY <2>1, <2>3, <3>2, <3>5 DEF Mapped
      <4>2. IsWork(g) /\ Mapped(g) = {} /\ Leaves(f, g)
        <5>1. PICK pages : pages = {Tables!TRAMPOLINE}
          OBVIOUS
        <5>2. \A v \in pages : FALSE <=> v < Tables!SHM_VA
          BY <1>11, <5>1
        <5>3. pages \subseteq Mapped(f) /\ Mapped(f) \ pages = {}
          BY <4>1, <5>1
        <5>4. g = Tables!Uvmunmap(f, pages, FALSE)
          BY <1>8, <5>1
        <5>5. IsWork(g) /\ Mapped(g) = Mapped(f) \ pages
          BY <3>2, <5>2, <5>3, <5>4, UnmapFacts
        <5>6. Leaves(f, g)
          BY <3>2, <5>4, UnmapKeeps
        <5> QED
          BY <5>3, <5>5, <5>6
      <4>3. g.ok = f.ok /\ OnlyShort(g) /\ g.bytes = m.bytes
        BY <2>1, <3>3, <4>2 DEF Leaves, Keeps, OnlyShort
      <4>4. r = Tables!Uvmfree(g, 0)
        BY <1>10, <1>15, <2>3, <3>5, <4>3
      <4> QED
        BY <1>9, <1>13, <3>5, <4>2, <4>3, <4>4
    <3> QED
      BY <3>4, <3>5
  <2> QED
    BY <2>2, <2>3
<1> QED
  BY <1>14, <1>15

LEMMA AllocprocPages ==
  ASSUME ImagesBelowShm, NEW m, IsWork(m), IsEmpty(m), m.ok, OnlyShort(m)
  PROVE  Made(m, Tables!Allocproc(m))
<1>1. PICK k : k = Tables!Kalloc(m)
  OBVIOUS
<1>2. /\ IsWork(k) /\ IsEmpty(k) /\ OnlyShort(k) /\ k.bytes = m.bytes
  <2>1. IsWork(k) /\ k.tables = m.tables /\ k.pte = m.pte
    BY <1>1, AllocFacts
  <2>2. Keeps(m, k) /\ OnlyShort(k)
    BY <1>1, AllocKeeps
  <2> QED
    BY <2>1, <2>2 DEF IsEmpty, Keeps
<1>3. PICK t : t = Tables!ProcPagetable(k)
  OBVIOUS
<1>4. PICK r : r = Tables!Allocproc(m)
  OBVIOUS
<1>5. r = IF ~k.ok THEN k ELSE IF t.ok THEN t ELSE Tables!Kfree(t, 1)
  BY <1>1, <1>3, <1>4 DEF Tables!Allocproc, Tables!Then, Tables!OrUndo
<1>6. CASE ~k.ok
  BY <1>2, <1>4, <1>5, <1>6 DEF Made
<1>7. CASE k.ok
  <2>1. IsWork(t) /\ Made(k, t)
    BY <1>2, <1>3, <1>7, ProcPagetableFacts, ProcPagetablePages
  <2>2. PICK z : z = Tables!Kfree(t, 1)
    OBVIOUS
  <2>3. Keeps(t, z) /\ z.nomem = t.nomem /\ z.ok = t.ok
    BY <2>1, <2>2, FreeKeeps
  <2>4. ~t.ok => Made(m, z)
    BY <1>2, <2>1, <2>3 DEF Made, OnlyShort, Keeps
  <2>5. t.ok => Made(m, t)
    BY <1>2, <2>1 DEF Made
  <2> QED
    BY <1>4, <1>5, <1>7, <2>2, <2>4, <2>5
<1> QED
  BY <1>6, <1>7

LEMMA NothingIs ==
  ASSUME NEW m, IsEmpty(m)
  PROVE  Image(m.pte, 0) = Tables!Abstract!Nothing /\ HasPages(m)
<1>1. m.pte = <<>> /\ DOMAIN m.pte = {}
  BY DEF IsEmpty
<1>2. Visible(m.pte) \cup HeapPages(0) = {}
  BY <1>1, NoHeap DEF Visible
<1> QED
  BY <1>1, <1>2 DEF Image, Tables!Abstract!Nothing, HasPages, Mapped

LEMMA ExitMaps ==
  ASSUME MapInv, NEW p \in TableProc, Tables!Exit(p)
  PROVE  MapInv' /\ Tables!Abstract!Next
<1>1. PICK k, s : k = Tables!On(p, 0) /\ s = size[p]
  OBVIOUS
<1>2. PICK m : m = Tables!Freeproc(k, s)
  OBVIOUS
<1>3. /\ Tables!Exists(p) /\ Tables!Returns(p, m, 0) /\ Tables!Done("exit", p, <<>>, m)
      /\ TablesInv
  BY <1>1, <1>2 DEF Tables!Exit, MapInv
<1>4. TablesInv'
  BY <1>3, ExitKeeps
<1>5. /\ IsWork(k) /\ k.ok = TRUE /\ k.nomem = FALSE /\ k.bytes = <<>> /\ IsSpace(k, s)
  BY <1>1, <1>3, OnIs DEF IsCall
<1>6. IsEmpty(m) /\ m.ok = TRUE /\ m.nomem = FALSE /\ m.bytes = <<>>
  BY <1>2, <1>5, FreeprocFacts, FreeprocKeeps
<1>7. Image(m.pte, 0) = Tables!Abstract!Nothing /\ HasPages(m)
  BY <1>6, NothingIs
<1>8. MapInv'
  BY <1>3, <1>4, <1>7, PagesReturn
<1>9. Tables!Abstract!Becomes(p, Tables!Abstract!Nothing, 0)
  <2>1. Tables!Abstract!Becomes(p, Image(m.pte, 0), 0)
    BY <1>3, ImageBecomes
  <2> QED
    BY <1>7, <2>1
<1>10. Tables!Abstract!Succeeds("exit", p, <<>>, <<>>)
  <2>1. Tables!Abstract!Succeeds("exit", p, <<>>, m.bytes)
    BY <1>3, <1>6, Answers
  <2> QED
    BY <1>6, <2>1
<1>11. reply'.call = "exit" /\ reply'.p = p
  BY <1>3, Answers
<1> QED
  BY <1>8, <1>9, <1>10, <1>11
     DEF Tables!Abstract!Next, Tables!Abstract!Answered, Tables!Abstract!Exit

\* The pages of a segment, or of the stack, behind those that there were.
LEMMA SegmentPages ==
  ASSUME NEW m, IsWork(m), m.ok, OnlyShort(m), NEW s, IsSpace(m, s), NEW newsz \in Nat,
         s <= newsz, Tables!RoundUp(newsz) <= Tables!SHM_VA, NEW w
  PROVE  LET x == Tables!Uvmalloc(m, s, newsz, w)
             r == IF x.ok THEN x ELSE Tables!ProcFreepagetable(x, s)
             new == Tables!RoundUp(s) .. Tables!RoundUp(newsz) - 1
         IN /\ OnlyShort(r) /\ r.bytes = m.bytes
            /\ r.ok => /\ Mapped(r) = Mapped(m) \cup new
                       /\ \A v \in Mapped(m) : r.pte[v] = m.pte[v]
                       /\ \A v \in new : v \notin Mapped(m) /\ r.pte[v] = Tables!Zeroed(w)
<1>1. PICK x : x = Tables!Uvmalloc(m, s, newsz, w)
  OBVIOUS
<1>2. PICK a \in Nat, b \in Nat : a = Tables!RoundUp(s) /\ b = Tables!RoundUp(newsz)
  BY SpaceFacts, AddressFacts
<1>3. s \in Nat /\ a <= b /\ b <= Tables!SHM_VA
  BY <1>2, SpaceFacts, AddressFacts
<1>4. Mapped(m) \cap (a .. b - 1) = {}
  <2>1. \A v \in a .. b - 1 : v \notin HeapPages(s) \cup {Tables!SHM_VA} \cup KernelPages
    BY <1>2, <1>3, PageNumbers DEF HeapPages, PagesBelow, KernelPages
  <2> QED
    BY <2>1 DEF IsSpace, Mapped
<1>5. /\ IsWork(x) /\ Fills(m, x, ZeroPages(w))
      /\ Mapped(x) = IF x.ok THEN Mapped(m) \cup (a .. b - 1) ELSE Mapped(m)
  BY <1>1, <1>2, <1>3, <1>4, UvmallocFacts
<1>6. IsSpace(x, IF x.ok THEN newsz ELSE s)
  BY <1>1, UvmallocSpace
<1>7. /\ OnlyShort(x) /\ x.bytes = m.bytes
      /\ \A v \in Mapped(m) \cap Mapped(x) : x.pte[v] = m.pte[v]
      /\ \A v \in Mapped(x) \ Mapped(m) : x.pte[v] = ZeroPages(w)[v]
  BY <1>5 DEF Fills, Keeps
<1>8. CASE x.ok
  <2>1. /\ Mapped(x) = Mapped(m) \cup (a .. b - 1)
        /\ \A v \in Mapped(m) : x.pte[v] = m.pte[v]
    BY <1>5, <1>7, <1>8
  <2>2. ASSUME NEW v \in a .. b - 1
        PROVE  v \notin Mapped(m) /\ x.pte[v] = Tables!Zeroed(w)
    <3>1. v \in Nat /\ v \in Mapped(x) \ Mapped(m)
      BY <1>4, <2>1
    <3> QED
      BY <1>7, <3>1 DEF ZeroPages
  <2> QED
    BY <1>1, <1>2, <1>7, <1>8, <2>1, <2>2
<1>9. CASE ~x.ok
  <2>1. PICK r : r = Tables!ProcFreepagetable(x, s)
    OBVIOUS
  <2>2. IsSpace(x, s)
    BY <1>6, <1>9
  <2>3. r.ok = x.ok /\ r.bytes = x.bytes /\ r.nomem = x.nomem
    BY <1>5, <2>1, <2>2, FreepagetableFacts, FreepagetableKeeps
  <2> QED
    BY <1>1, <1>7, <1>9, <2>1, <2>3 DEF OnlyShort
<1> QED
  BY <1>8, <1>9

LEMMA UvmclearPages ==
  ASSUME NEW m, IsWork(m), NEW v \in Mapped(m)
  PROVE  LET r == Tables!Uvmclear(m, v)
         IN /\ r.bytes = m.bytes /\ r.nomem = m.nomem /\ r.ok = m.ok
            /\ Mapped(r) = Mapped(m)
            /\ \A u \in Mapped(m) : r.pte[u] = IF u = v THEN [m.pte[v] EXCEPT !.u = FALSE]
                                               ELSE m.pte[u]
<1>1. PICK e : e = [m.pte[v] EXCEPT !.u = FALSE]
  OBVIOUS
<1>2. Tables!Path(v) \subseteq m.tables
  BY DEF IsWork, IsTable, Mapped
<1>3. Tables!PanicIf(~(Tables!Path(v) \subseteq m.tables), m) = m
  BY <1>2 DEF Tables!PanicIf, IsWork
<1>4. PICK r : r = Tables!Uvmclear(m, v)
  OBVIOUS
<1>5. r = [m EXCEPT !.pte = [@ EXCEPT ![v] = e]]
  BY <1>1, <1>3, <1>4 DEF Tables!Uvmclear
<1>6. /\ r.pte = [m.pte EXCEPT ![v] = e] /\ r.bytes = m.bytes /\ r.nomem = m.nomem
      /\ r.ok = m.ok
  BY <1>5 DEF IsWork
<1>7. Mapped(r) = Mapped(m) /\ \A u \in Mapped(m) : r.pte[u] = IF u = v THEN e ELSE m.pte[u]
  BY <1>6 DEF Mapped
<1> QED
  BY <1>1, <1>4, <1>6, <1>7

\* The image that kexec() makes: text, guard page and stack.
ProgramImage == [v \in 0 .. 2 |-> Tables!Entry("own", v # 0, v # 1)]

LEMMA ProgramImageIs ==
  /\ [v \in 0 .. 2 |-> Tables!Abstract!Fresh(v # 0, v # 1)] = ProgramImage
  /\ ProgramImage[0] = Tables!Zeroed(FALSE)
  /\ ProgramImage[1] = [Tables!Zeroed(TRUE) EXCEPT !.u = FALSE]
  /\ ProgramImage[2] = Tables!Zeroed(TRUE)
<1>1. [v \in 0 .. 2 |-> Tables!Abstract!Fresh(v # 0, v # 1)] = ProgramImage
  BY DEF ProgramImage, Tables!Abstract!Fresh, Tables!Entry
<1>2. /\ ProgramImage[0] = Tables!Entry("own", 0 # 0, 0 # 1)
      /\ ProgramImage[1] = Tables!Entry("own", 1 # 0, 1 # 1)
      /\ ProgramImage[2] = Tables!Entry("own", 2 # 0, 2 # 1)
  BY DEF ProgramImage
<1>3. PICK yes, no : yes = TRUE /\ no = FALSE
  OBVIOUS
<1>4. /\ (0 # 0) = no /\ (0 # 1) = yes /\ (1 # 0) = yes /\ (1 # 1) = no /\ (2 # 0) = yes
      /\ (2 # 1) = yes
  <2>1. /\ (0 # 0) = FALSE /\ (0 # 1) = TRUE /\ (1 # 0) = TRUE /\ (1 # 1) = FALSE
        /\ (2 # 0) = TRUE /\ (2 # 1) = TRUE
    OBVIOUS
  <2> QED
    BY <1>3, <2>1
<1>5. PICK z : z = [i \in 0 .. PGSIZE - 1 |-> 0]
  OBVIOUS
<1>6. PICK e : e = [kind |-> "own", w |-> yes, u |-> yes, bytes |-> z]
  OBVIOUS
<1>7. [e EXCEPT !.u = no] = [kind |-> "own", w |-> yes, u |-> no, bytes |-> z]
  BY <1>6
<1>8. Tables!Zeroed(TRUE) = e
  BY <1>3, <1>5, <1>6 DEF Tables!Zeroed, Tables!Entry
<1>9. Tables!Entry("own", 1 # 0, 1 # 1) = [kind |-> "own", w |-> yes, u |-> no, bytes |-> z]
  BY <1>4, <1>5 DEF Tables!Entry
<1>10. Tables!Entry("own", 0 # 0, 0 # 1) = Tables!Zeroed(FALSE)
  BY <1>3, <1>4, <1>5 DEF Tables!Zeroed, Tables!Entry
<1>11. Tables!Entry("own", 2 # 0, 2 # 1) = Tables!Zeroed(TRUE)
  BY <1>3, <1>4, <1>5 DEF Tables!Zeroed, Tables!Entry
<1> QED
  BY <1>1, <1>2, <1>3, <1>7, <1>8, <1>9, <1>10, <1>11

LEMMA ExecMaps ==
  ASSUME ImagesBelowShm, MapInv, NEW p \in TableProc, NEW left, Tables!Exec(p, left)
  PROVE  MapInv' /\ Tables!Abstract!Next
<1>1. PICK k : k = Tables!Work(Tables!NoTable, used, left)
  OBVIOUS
<1>2. PICK n0 : n0 = Tables!ProcPagetable(k)
  OBVIOUS
<1>3. PICK x1 : x1 = Tables!Uvmalloc(n0, 0, PGSIZE, FALSE)
  OBVIOUS
<1>4. PICK n1 : n1 = IF x1.ok THEN x1 ELSE Tables!ProcFreepagetable(x1, 0)
  OBVIOUS
<1>5. PICK x2 : x2 = Tables!Uvmalloc(n1, PGSIZE, 3 * PGSIZE, TRUE)
  OBVIOUS
<1>6. PICK n2 : n2 = IF x2.ok THEN x2 ELSE Tables!ProcFreepagetable(x2, PGSIZE)
  OBVIOUS
<1>7. PICK n3 : n3 = Tables!Uvmclear(n2, 1)
  OBVIOUS
<1>8. PICK new : new = IF ~n0.ok THEN n0 ELSE IF ~n1.ok THEN n1 ELSE IF n2.ok THEN n3 ELSE n2
  OBVIOUS
<1>9. PICK o, s : o = Tables!Work(pagetable[p], new.used, 0) /\ s = size[p]
  OBVIOUS
<1>10. PICK old : old = Tables!ProcFreepagetable(o, s)
  OBVIOUS
<1>11. /\ Tables!Alone(p)
       /\ IF new.ok THEN /\ Tables!Returns(p, new, 3 * PGSIZE)
                         /\ Tables!Done("exec", p, <<>>, Tables!PanicIf(new.panic, old))
          ELSE pagetable' = pagetable /\ size' = size /\ Tables!Done("exec", p, <<>>, new)
  BY <1>1, <1>2, <1>3, <1>4, <1>5, <1>6, <1>7, <1>8, <1>9, <1>10
     DEF Tables!Exec, Tables!Then, Tables!OrUndo
<1>12. /\ Tables!Exists(p) /\ TablesInv /\ TablesInv' /\ used \in Int
       /\ IsSpace(pagetable[p], s) /\ IsTable(pagetable[p])
  BY <1>9, <1>11, ExecKeeps, SpaceIs DEF Tables!Alone, MapInv, TablesInv
<1>13. /\ PGSIZE \in Nat /\ 3 * PGSIZE \in Nat /\ 0 \in Nat /\ 0 <= PGSIZE /\ PGSIZE <= 3 * PGSIZE
       /\ Tables!RoundUp(0) = 0 /\ Tables!RoundUp(PGSIZE) = 1 /\ Tables!RoundUp(3 * PGSIZE) = 3
       /\ 3 <= Tables!SHM_VA /\ 1 <= Tables!SHM_VA
  <2>1. Tables!RoundUp(1 * PGSIZE) = 1 /\ Tables!RoundUp(3 * PGSIZE) = 3 /\ 3 * PGSIZE \in Nat
    BY AddressFacts
  <2>2. PGSIZE \in Nat /\ 1 * PGSIZE = PGSIZE
    BY TablesAssumption
  <2> QED
    BY <2>1, <2>2, NoHeap, PageNumbers DEF ImagesBelowShm
<1>14. IsWork(k) /\ k.ok /\ IsEmpty(k) /\ OnlyShort(k) /\ k.bytes = <<>>
  <2>1. /\ IsWork(k) /\ k.ok /\ k.used = used
        /\ k.tables = Tables!NoTable.tables /\ k.pte = Tables!NoTable.pte
    BY <1>1, <1>12, NoTableFacts, WorkFacts
  <2>2. IsEmpty(k)
    BY <2>1, NoTableFacts DEF IsEmpty
  <2>3. k.nomem = FALSE /\ k.bytes = <<>>
    BY <1>1 DEF Tables!Work
  <2> QED
    BY <2>1, <2>2, <2>3 DEF OnlyShort
<1>15. /\ IsWork(n0) /\ OnlyShort(n0)
       /\ n0.ok => IsSpace(n0, 0) /\ HasPages(n0) /\ Mapped(n0) = KernelPages
  <2>1. /\ IsWork(n0)
        /\ n0.ok => Mapped(n0) = KernelPages
    BY <1>2, <1>14, ProcPagetableFacts
  <2>2. Made(k, n0)
    BY <1>2, <1>14, ProcPagetablePages
  <2> QED
    BY <2>1, <2>2, EmptySpace DEF Made
<1>16. n0.ok => /\ IsWork(n1) /\ OnlyShort(n1)
                /\ n1.ok => /\ IsSpace(n1, PGSIZE) /\ Mapped(n1) = KernelPages \cup {0}
                            /\ \A v \in KernelPages : n1.pte[v] = n0.pte[v]
                            /\ 0 \notin KernelPages /\ n1.pte[0] = Tables!Zeroed(FALSE)
  <2>1. SUFFICES ASSUME n0.ok
                 PROVE  /\ IsWork(n1) /\ OnlyShort(n1)
                        /\ n1.ok => /\ IsSpace(n1, PGSIZE) /\ Mapped(n1) = KernelPages \cup {0}
                                    /\ \A v \in KernelPages : n1.pte[v] = n0.pte[v]
                                    /\ 0 \notin KernelPages /\ n1.pte[0] = Tables!Zeroed(FALSE)
    OBVIOUS
  <2>2. Tables!RoundUp(PGSIZE) <= Tables!SHM_VA /\ PGSIZE \in Nat /\ 0 <= PGSIZE
    BY <1>13
  <2>3. IsWork(n1) /\ (n1.ok => IsSpace(n1, PGSIZE))
    BY <1>3, <1>4, <1>15, <2>1, <2>2, SegmentFacts
  <2>4. IsWork(n0) /\ OnlyShort(n0) /\ IsSpace(n0, 0)
    BY <1>15, <2>1
  <2>5. /\ OnlyShort(n1)
        /\ n1.ok =>
             /\ Mapped(n1) = Mapped(n0) \cup (Tables!RoundUp(0) .. Tables!RoundUp(PGSIZE) - 1)
             /\ \A v \in Mapped(n0) : n1.pte[v] = n0.pte[v]
             /\ \A v \in Tables!RoundUp(0) .. Tables!RoundUp(PGSIZE) - 1 :
                  v \notin Mapped(n0) /\ n1.pte[v] = Tables!Zeroed(FALSE)
    <3>1. PICK no, zero, size1 : no = FALSE /\ zero = 0 /\ size1 = PGSIZE
      OBVIOUS
    <3>2. /\ size1 \in Nat /\ zero <= size1 /\ Tables!RoundUp(size1) <= Tables!SHM_VA
          /\ IsSpace(n0, zero) /\ IsWork(n0) /\ n0.ok /\ OnlyShort(n0)
      BY <2>1, <2>2, <2>4, <3>1
    <3>3. /\ x1 = Tables!Uvmalloc(n0, zero, size1, no)
          /\ n1 = IF x1.ok THEN x1 ELSE Tables!ProcFreepagetable(x1, zero)
      BY <1>3, <1>4, <3>1
    <3>4. /\ OnlyShort(n1)
          /\ n1.ok =>
               /\ Mapped(n1) = Mapped(n0) \cup (Tables!RoundUp(zero) .. Tables!RoundUp(size1) - 1)
               /\ \A v \in Mapped(n0) : n1.pte[v] = n0.pte[v]
               /\ \A v \in Tables!RoundUp(zero) .. Tables!RoundUp(size1) - 1 :
                    v \notin Mapped(n0) /\ n1.pte[v] = Tables!Zeroed(no)
      BY <3>2, <3>3, SegmentPages
    <3> QED
      BY <3>1, <3>4
  <2>6. Tables!RoundUp(0) .. Tables!RoundUp(PGSIZE) - 1 = {0}
    BY <1>13
  <2> QED
    BY <1>15, <2>1, <2>3, <2>5, <2>6
<1>17. n0.ok /\ n1.ok =>
         /\ IsWork(n2) /\ OnlyShort(n2)
         /\ n2.ok => /\ Mapped(n2) = KernelPages \cup (0 .. 2)
                     /\ \A v \in KernelPages : v \notin 0 .. 2 /\ n2.pte[v] = n0.pte[v]
                     /\ n2.pte[0] = Tables!Zeroed(FALSE)
                     /\ \A v \in 1 .. 2 : n2.pte[v] = Tables!Zeroed(TRUE)
  <2>1. SUFFICES ASSUME n0.ok, n1.ok
                 PROVE  /\ IsWork(n2) /\ OnlyShort(n2)
                        /\ n2.ok => /\ Mapped(n2) = KernelPages \cup (0 .. 2)
                                    /\ \A v \in KernelPages : v \notin 0 .. 2
                                                              /\ n2.pte[v] = n0.pte[v]
                                    /\ n2.pte[0] = Tables!Zeroed(FALSE)
                                    /\ \A v \in 1 .. 2 : n2.pte[v] = Tables!Zeroed(TRUE)
    OBVIOUS
  <2>2. PICK top \in Nat : top = 3 * PGSIZE
    BY <1>13
  <2>3. /\ Tables!RoundUp(top) <= Tables!SHM_VA /\ PGSIZE <= top
        /\ x2 = Tables!Uvmalloc(n1, PGSIZE, top, TRUE)
    BY <1>5, <1>13, <2>2
  <2>4. IsWork(n2)
    BY <1>6, <1>16, <2>1, <2>3, SegmentFacts
  <2>5. IsWork(n1) /\ OnlyShort(n1) /\ IsSpace(n1, PGSIZE)
    BY <1>16, <2>1
  <2>6. /\ OnlyShort(n2)
        /\ n2.ok =>
             /\ Mapped(n2) = Mapped(n1) \cup (Tables!RoundUp(PGSIZE) .. Tables!RoundUp(top) - 1)
             /\ \A v \in Mapped(n1) : n2.pte[v] = n1.pte[v]
             /\ \A v \in Tables!RoundUp(PGSIZE) .. Tables!RoundUp(top) - 1 :
                  v \notin Mapped(n1) /\ n2.pte[v] = Tables!Zeroed(TRUE)
    <3>1. PICK yes, size1 : yes = TRUE /\ size1 = PGSIZE
      OBVIOUS
    <3>2. /\ size1 <= top /\ Tables!RoundUp(top) <= Tables!SHM_VA
          /\ IsSpace(n1, size1) /\ IsWork(n1) /\ n1.ok /\ OnlyShort(n1)
      BY <2>1, <2>3, <2>5, <3>1
    <3>3. /\ x2 = Tables!Uvmalloc(n1, size1, top, yes)
          /\ n2 = IF x2.ok THEN x2 ELSE Tables!ProcFreepagetable(x2, size1)
      BY <1>6, <2>3, <3>1
    <3>4. /\ OnlyShort(n2)
          /\ n2.ok =>
               /\ Mapped(n2) = Mapped(n1) \cup (Tables!RoundUp(size1) .. Tables!RoundUp(top) - 1)
               /\ \A v \in Mapped(n1) : n2.pte[v] = n1.pte[v]
               /\ \A v \in Tables!RoundUp(size1) .. Tables!RoundUp(top) - 1 :
                    v \notin Mapped(n1) /\ n2.pte[v] = Tables!Zeroed(yes)
      BY <3>2, <3>3, SegmentPages
    <3> QED
      BY <3>1, <3>4
  <2>7. /\ Tables!RoundUp(PGSIZE) .. Tables!RoundUp(top) - 1 = 1 .. 2
        /\ 0 .. 2 = {0} \cup 1 .. 2
    BY <1>13, <2>2
  <2>8. \A v \in KernelPages : v \notin 0 .. 2
    BY <1>13, PageNumbers DEF KernelPages
  <2> QED
    BY <1>16, <2>1, <2>4, <2>6, <2>7, <2>8
<1>18. new.ok => /\ Image(new.pte, 3 * PGSIZE) = ProgramImage /\ HasPages(new)
                 /\ ~IsEmpty(new) /\ IsWork(new)
  <2>1. SUFFICES ASSUME n0.ok, n1.ok, n2.ok
                 PROVE  /\ Image(n3.pte, 3 * PGSIZE) = ProgramImage /\ HasPages(n3)
                        /\ ~IsEmpty(n3) /\ IsWork(n3)
    BY <1>8
  <2>2. IsWork(n2) /\ 1 \in Mapped(n2)
    BY <1>17, <2>1
  <2>3. /\ Mapped(n3) = Mapped(n2)
        /\ \A u \in Mapped(n2) : n3.pte[u] = IF u = 1 THEN [n2.pte[1] EXCEPT !.u = FALSE]
                                             ELSE n2.pte[u]
    BY <1>7, <2>2, UvmclearPages
  <2>4. IsWork(n3)
    BY <1>7, <2>2, UvmclearFacts DEF Touches
  <2>5. /\ n3.pte[0] = ProgramImage[0] /\ n3.pte[1] = ProgramImage[1]
        /\ n3.pte[2] = ProgramImage[2]
    <3>1. 0 \in 0 .. 2 /\ 2 \in 0 .. 2 /\ 1 \in 1 .. 2 /\ 2 \in 1 .. 2 /\ 0 # 1 /\ 2 # 1
      OBVIOUS
    <3>2. /\ 0 \in Mapped(n2) /\ 2 \in Mapped(n2) /\ n2.pte[0] = Tables!Zeroed(FALSE)
          /\ n2.pte[1] = Tables!Zeroed(TRUE) /\ n2.pte[2] = Tables!Zeroed(TRUE)
      BY <1>17, <2>1, <3>1
    <3>3. /\ n3.pte[0] = n2.pte[0] /\ n3.pte[2] = n2.pte[2]
          /\ n3.pte[1] = [n2.pte[1] EXCEPT !.u = FALSE]
      BY <2>2, <2>3, <3>1, <3>2
    <3> QED
      BY <3>2, <3>3, ProgramImageIs
  <2>6. \A v \in 0 .. 2 : n3.pte[v] = ProgramImage[v]
    <3>1. \A v \in 0 .. 2 : v = 0 \/ v = 1 \/ v = 2
      OBVIOUS
    <3> QED
      BY <2>5, <3>1
  <2>7. \A v \in KernelPages : n3.pte[v] = n0.pte[v]
    <3>1. 1 \notin KernelPages
      BY <1>17, <2>1
    <3> QED
      BY <1>17, <2>1, <2>3, <3>1
  <2>8. \A v \in 0 .. 2 : IsPage(v, ProgramImage[v])
    BY DEF IsPage, ProgramImage, Tables!Entry
  <2>9. HasPages(n3)
    BY <1>15, <1>17, <2>1, <2>3, <2>6, <2>7, <2>8 DEF HasPages
  <2>10. Visible(n3.pte) = 0 .. 2
    <3>1. Visible(n3.pte) = Mapped(n3) \ KernelPages
      BY <2>4, <2>9, VisibleIs DEF IsWork
    <3> QED
      BY <1>17, <2>1, <2>3, <3>1
  <2>11. HeapPages(3 * PGSIZE) = 0 .. 2
    BY <1>13 DEF HeapPages, PagesBelow
  <2>12. Image(n3.pte, 3 * PGSIZE) = [v \in 0 .. 2 |-> n3.pte[v]]
    BY <2>10, <2>11 DEF Image
  <2>13. ProgramImage = [v \in 0 .. 2 |-> ProgramImage[v]]
    BY DEF ProgramImage
  <2> QED
    BY <2>2, <2>3, <2>4, <2>6, <2>9, <2>12, <2>13 DEF IsEmpty, Mapped
<1>19. IsWork(new) /\ OnlyShort(new)
  <2>1. ASSUME n0.ok, n1.ok, n2.ok
        PROVE  IsWork(n3) /\ OnlyShort(n3)
    <3>1. IsWork(n2) /\ OnlyShort(n2) /\ 1 \in Mapped(n2)
      BY <1>17, <2>1
    <3>2. n3.nomem = n2.nomem /\ n3.ok = n2.ok /\ IsWork(n3)
      BY <1>7, <3>1, UvmclearPages, UvmclearFacts DEF Touches
    <3> QED
      BY <3>1, <3>2 DEF OnlyShort
  <2> QED
    BY <1>8, <1>15, <1>16, <1>17, <2>1
<1>20. ASSUME new.ok = FALSE PROVE MapInv' /\ Tables!Abstract!Exec(p) /\ reply'.call = "exec" /\ reply'.p = p
  <2>1. /\ pagetable' = pagetable /\ size' = size /\ Tables!Done("exec", p, <<>>, new)
        /\ new.nomem = TRUE
    BY <1>11, <1>19, <1>20 DEF OnlyShort
  <2>2. MapInv'
    BY <1>12, <2>1, PagesSame
  <2>3. Tables!Abstract!Same
    BY <1>12, <2>1, ImagesSame
  <2> QED
    BY <1>20, <2>1, <2>2, <2>3, Failures, Answers DEF Tables!Abstract!Exec
<1>21. ASSUME new.ok = TRUE PROVE MapInv' /\ Tables!Abstract!Exec(p) /\ reply'.call = "exec" /\ reply'.p = p
  <2>1. PICK m : m = Tables!PanicIf(new.panic, old)
    OBVIOUS
  <2>2. /\ Tables!Returns(p, new, 3 * PGSIZE) /\ Tables!Done("exec", p, <<>>, m)
    BY <1>11, <1>21, <2>1
  <2>3. MapInv'
    BY <1>12, <1>18, <1>21, <2>2, PagesReturn
  <2>4. Tables!Abstract!Becomes(p, ProgramImage, 3 * PGSIZE)
    <3>1. Tables!Abstract!Becomes(p, Image(new.pte, 3 * PGSIZE), 3 * PGSIZE)
      BY <1>12, <2>2, ImageBecomes
    <3> QED
      BY <1>18, <1>21, <3>1
  <2>5. m.ok = TRUE /\ m.nomem = FALSE /\ m.bytes = <<>>
    <3>1. /\ IsWork(o) /\ o.tables = pagetable[p].tables /\ o.pte = pagetable[p].pte
      <4>1. PICK u \in Int : u = new.used
        BY <1>19 DEF IsWork
      <4>2. o = Tables!Work(pagetable[p], u, 0)
        BY <1>9, <4>1
      <4> QED
        BY <1>12, <4>1, <4>2, WorkFacts
    <3>2. o.ok = TRUE /\ o.nomem = FALSE /\ o.bytes = <<>>
      BY <1>9 DEF Tables!Work
    <3>3. IsSpace(o, s)
      BY <1>12, <3>1 DEF IsSpace, IsTable
    <3>4. /\ IsWork(old) /\ old.ok = TRUE /\ old.nomem = FALSE /\ old.bytes = <<>>
      BY <1>10, <3>1, <3>2, <3>3, FreepagetableFacts, FreepagetableKeeps
    <3>5. m = old
      BY <1>19, <2>1, <3>4 DEF Tables!PanicIf, IsWork
    <3> QED
      BY <3>4, <3>5
  <2>6. Tables!Abstract!Succeeds("exec", p, <<>>, <<>>)
    <3>1. Tables!Abstract!Succeeds("exec", p, <<>>, m.bytes)
      BY <2>2, <2>5, Answers
    <3> QED
      BY <2>5, <3>1
  <2>7. Tables!Abstract!Exec(p)
    BY <2>4, <2>6, ProgramImageIs DEF Tables!Abstract!Exec
  <2> QED
    BY <2>2, <2>3, <2>7, Answers
<1>22. new.ok = TRUE \/ new.ok = FALSE
  BY <1>19 DEF IsWork
<1> QED
  BY <1>20, <1>21, <1>22 DEF Tables!Abstract!Next, Tables!Abstract!Answered

\* What a child gets: the pages of the heap with their entries, or nothing.
LEMMA CopyPages ==
  ASSUME ImagesBelowShm, NEW m, IsCall(m), m.ok, Mapped(m) = KernelPages,
         NEW t, NEW s, IsSpace(t, s), HasPages(t)
  PROVE  LET c == Tables!Uvmcopy(m, t.pte, s)
             r == IF c.ok THEN c ELSE Tables!Freeproc(c, 0)
         IN /\ OnlyShort(r) /\ r.bytes = m.bytes
            /\ r.ok => /\ HasPages(r)
                       /\ \A v \in Mapped(r) \ KernelPages : r.pte[v] = t.pte[v]
<1>1. PICK c : c = Tables!Uvmcopy(m, t.pte, s)
  OBVIOUS
<1>2. PICK old : old = t.pte
  OBVIOUS
<1>3. PICK z \in Nat : z = s
  BY SpaceFacts
<1>4. /\ Tables!RoundUp(z) <= Tables!SHM_VA
      /\ \A v \in DOMAIN old : IsEntry(v, old[v])
      /\ kernel # "A7" => HeapPages(z) \subseteq DOMAIN old
  BY <1>2, <1>3 DEF IsSpace, IsTable
<1>5. Mapped(m) \cap HeapPages(z) = {}
  <2>1. Tables!RoundUp(z) \in Nat
    BY AddressFacts
  <2>2. \A v \in HeapPages(z) : v \notin KernelPages
    BY <1>4, <2>1, PageNumbers DEF HeapPages, PagesBelow, KernelPages
  <2> QED
    BY <2>2
<1>6. c = Tables!Uvmcopy(m, old, z)
  BY <1>1, <1>2, <1>3
<1>7. /\ IsWork(c) /\ Fills(m, c, old)
      /\ Mapped(c) = IF c.ok THEN Mapped(m) \cup (DOMAIN old \cap HeapPages(z)) ELSE Mapped(m)
  BY <1>4, <1>5, <1>6, UvmcopyFacts DEF IsCall
<1>8. /\ OnlyShort(c) /\ Keeps(m, c) /\ c.bytes = m.bytes
      /\ \A v \in Mapped(c) \ Mapped(m) : c.pte[v] = old[v]
  BY <1>7 DEF Fills, IsCall, Keeps
<1>9. CASE c.ok
  <2>1. /\ \A v \in KernelPages : v \in Mapped(c) /\ c.pte[v] = m.pte[v]
        /\ \A v \in Mapped(c) \ KernelPages : c.pte[v] = t.pte[v] /\ v \in Mapped(t)
    BY <1>2, <1>7, <1>8, <1>9 DEF Keeps, Mapped
  <2>2. HasPages(c)
    BY <2>1 DEF HasPages, IsCall
  <2> QED
    BY <1>1, <1>8, <1>9, <2>1, <2>2
<1>10. CASE ~c.ok
  <2>1. IsSpace(c, 0)
    BY <1>7, <1>10, EmptySpace
  <2>2. PICK r : r = Tables!Freeproc(c, 0)
    OBVIOUS
  <2>3. r.ok = c.ok /\ r.bytes = c.bytes /\ r.nomem = c.nomem
    BY <1>7, <2>1, <2>2, FreeprocFacts, FreeprocKeeps
  <2> QED
    BY <1>1, <1>8, <1>10, <2>2, <2>3 DEF OnlyShort
<1> QED
  BY <1>9, <1>10

\* The shared page of a child needs no page of its own: its table page is that of
\* the trapframe.
LEMMA SharePages ==
  ASSUME ImagesBelowShm, NEW m, IsWork(m), m.ok, OnlyShort(m),
         Tables!SHM_VA \notin Mapped(m), Tables!TRAPFRAME \in Mapped(m)
  PROVE  LET r == [Tables!Mappages(m, Tables!SHM_VA, Tables!SharedEntry) EXCEPT !.ok = TRUE]
         IN /\ OnlyShort(r) /\ r.ok = TRUE
            /\ Mapped(r) = Mapped(m) \cup {Tables!SHM_VA} /\ Keeps(m, r)
            /\ r.pte[Tables!SHM_VA] = Tables!SharedEntry
<1>1. PICK w : w = Tables!Mappages(m, Tables!SHM_VA, Tables!SharedEntry)
  OBVIOUS
<1>2. PICK r : r = [w EXCEPT !.ok = TRUE]
  OBVIOUS
<1>3. IsEntry(Tables!SHM_VA, Tables!SharedEntry)
  BY PageNumbers DEF ImagesBelowShm, IsEntry, Tables!SharedEntry, Tables!Entry, PagesBelow
<1>4. Tables!Path(Tables!SHM_VA) \subseteq m.tables
  BY TopAssumption DEF IsWork, IsTable, Mapped
<1>5. /\ IsWork(w) /\ (w.ok => Mapped(w) = Mapped(m) \cup {Tables!SHM_VA})
  BY <1>1, <1>3, MappagesFacts
<1>6. /\ Keeps(m, w) /\ OnlyShort(w) /\ w.ok
      /\ w.ok => w.pte[Tables!SHM_VA] = Tables!SharedEntry
  BY <1>1, <1>3, <1>4, MappagesKeeps
<1>7. r = [tables |-> w.tables, pte |-> w.pte, used |-> w.used, left |-> w.left,
           ok |-> TRUE, nomem |-> w.nomem, panic |-> w.panic, bytes |-> w.bytes]
  BY <1>2, <1>5 DEF IsWork
<1>8. r.pte = w.pte /\ r.ok = TRUE /\ r.nomem = w.nomem /\ r.bytes = w.bytes
  BY <1>7
<1> QED
  BY <1>1, <1>2, <1>5, <1>6, <1>8 DEF OnlyShort, Keeps, Mapped

\* The same pages with the same entries are the same memory.
LEMMA ImageCopied ==
  ASSUME NEW t, IsTable(t), HasPages(t), NEW m, IsTable(m), HasPages(m), NEW s,
         Mapped(m) \ KernelPages = Mapped(t) \ KernelPages,
         \A v \in Mapped(t) \ KernelPages : m.pte[v] = t.pte[v]
  PROVE  Image(m.pte, s) = Image(t.pte, s)
<1>1. Visible(m.pte) = Mapped(m) \ KernelPages /\ Visible(t.pte) = Mapped(t) \ KernelPages
  BY VisibleIs
<1> QED
  BY <1>1 DEF Image

LEMMA ForkMaps ==
  ASSUME ImagesBelowShm, MapInv, NEW p \in TableProc, NEW np \in TableProc, NEW left,
         Tables!Fork(p, np, left)
  PROVE  MapInv' /\ Tables!Abstract!Next
<1>1. PICK k : k = Tables!Work(Tables!NoTable, used, left)
  OBVIOUS
<1>2. PICK a : a = Tables!Allocproc(k)
  OBVIOUS
<1>3. PICK t, s : t = pagetable[p] /\ s = size[p]
  OBVIOUS
<1>4. PICK u : u = Tables!Uvmcopy(a, t.pte, s)
  OBVIOUS
<1>5. PICK c : c = IF u.ok THEN u ELSE Tables!Freeproc(u, 0)
  OBVIOUS
<1>6. PICK h : h = [Tables!Mappages(c, Tables!SHM_VA, Tables!SharedEntry) EXCEPT !.ok = TRUE]
  OBVIOUS
<1>7. PICK m : m = IF ~a.ok THEN a
                   ELSE IF c.ok /\ Tables!SHM_VA \in Mapped(t) THEN h ELSE c
  OBVIOUS
<1>8. /\ Tables!Alone(p) /\ np # p /\ Tables!Done("fork", p, <<np>>, m)
      /\ IF m.ok THEN Tables!Returns(np, m, size[p])
         ELSE pagetable' = pagetable /\ size' = size
  BY <1>1, <1>2, <1>3, <1>4, <1>5, <1>6, <1>7
     DEF Tables!Fork, Tables!Then, Tables!OrUndo, Mapped
<1>9. /\ Tables!Exists(p) /\ IsEmpty(pagetable[np]) /\ used \in Int
      /\ IsSpace(t, s) /\ IsTable(t) /\ HasPages(t) /\ TablesInv /\ TablesInv'
  <2>1. Tables!Exists(p) /\ ~Tables!Exists(np) /\ TablesInv
    BY <1>8 DEF Tables!Alone, MapInv
  <2>2. TablesInv'
    BY <2>1, ForkKeeps
  <2> QED
    BY <1>3, <2>1, <2>2, KnownTables, SpaceIs
<1>10. IsWork(k) /\ k.ok /\ IsEmpty(k) /\ OnlyShort(k) /\ k.bytes = <<>>
  <2>1. /\ IsWork(k) /\ k.ok
        /\ k.tables = Tables!NoTable.tables /\ k.pte = Tables!NoTable.pte
    BY <1>1, <1>9, NoTableFacts, WorkFacts
  <2>2. k.nomem = FALSE /\ k.bytes = <<>>
    BY <1>1 DEF Tables!Work
  <2> QED
    BY <2>1, <2>2, NoTableFacts DEF OnlyShort, IsEmpty
<1>11. /\ IsWork(a) /\ OnlyShort(a) /\ a.bytes = <<>>
       /\ a.ok => Mapped(a) = KernelPages /\ HasPages(a)
  <2>1. IsWork(a) /\ (a.ok => Mapped(a) = KernelPages) /\ Made(k, a)
    BY <1>2, <1>10, AllocprocFacts, AllocprocPages
  <2> QED
    BY <1>10, <2>1 DEF Made
<1>12. a.ok => /\ IsWork(c) /\ OnlyShort(c) /\ c.bytes = <<>>
               /\ c.ok => /\ Mapped(c) = KernelPages \cup (Mapped(t) \cap HeapPages(s))
                          /\ HasPages(c)
                          /\ \A v \in Mapped(c) \ KernelPages : c.pte[v] = t.pte[v]
  <2>1. SUFFICES ASSUME a.ok
                 PROVE  /\ IsWork(c) /\ OnlyShort(c) /\ c.bytes = <<>>
                        /\ c.ok => /\ Mapped(c) = KernelPages \cup (Mapped(t) \cap HeapPages(s))
                                   /\ HasPages(c)
                                   /\ \A v \in Mapped(c) \ KernelPages : c.pte[v] = t.pte[v]
    OBVIOUS
  <2>2. IsCall(a) /\ Mapped(a) = KernelPages
    BY <1>11, <2>1 DEF IsCall
  <2>3. /\ IsWork(c)
        /\ c.ok => Mapped(c) = KernelPages \cup (Mapped(t) \cap HeapPages(s))
    BY <1>4, <1>5, <1>9, <1>11, <2>1, <2>2, CopyFacts DEF Mapped
  <2>4. /\ OnlyShort(c) /\ c.bytes = a.bytes
        /\ c.ok => HasPages(c) /\ \A v \in Mapped(c) \ KernelPages : c.pte[v] = t.pte[v]
    BY <1>4, <1>5, <1>9, <2>1, <2>2, CopyPages
  <2> QED
    BY <1>11, <2>3, <2>4
<1>13. Tables!SHM_VA \notin HeapPages(s) /\ Tables!SHM_VA \notin KernelPages
  BY <1>9, SpaceFacts, ShmIsNoHeap
<1>14. Mapped(t) \ KernelPages =
         (Mapped(t) \cap HeapPages(s)) \cup (Mapped(t) \cap {Tables!SHM_VA})
  <2>1. Mapped(t) \subseteq HeapPages(s) \cup {Tables!SHM_VA} \cup KernelPages
    BY <1>9 DEF IsSpace, Mapped
  <2>2. HeapPages(s) \cap KernelPages = {}
    <3>1. PICK n \in Nat : n = Tables!RoundUp(s) /\ n <= Tables!SHM_VA
      BY <1>9, SpaceFacts, AddressFacts
    <3> QED
      BY <3>1, PageNumbers DEF HeapPages, PagesBelow, KernelPages
  <2> QED
    BY <1>13, <2>1, <2>2
<1>15. a.ok /\ c.ok /\ Tables!SHM_VA \in Mapped(t) =>
         /\ IsWork(h) /\ OnlyShort(h) /\ h.ok = TRUE /\ h.bytes = <<>> /\ HasPages(h)
         /\ Mapped(h) = Mapped(c) \cup {Tables!SHM_VA}
         /\ \A v \in Mapped(h) \ KernelPages : h.pte[v] = t.pte[v]
  <2>1. SUFFICES ASSUME a.ok, c.ok, Tables!SHM_VA \in Mapped(t)
                 PROVE  /\ IsWork(h) /\ OnlyShort(h) /\ h.ok = TRUE /\ h.bytes = <<>>
                        /\ HasPages(h) /\ Mapped(h) = Mapped(c) \cup {Tables!SHM_VA}
                        /\ \A v \in Mapped(h) \ KernelPages : h.pte[v] = t.pte[v]
    OBVIOUS
  <2>2. /\ IsWork(c) /\ OnlyShort(c) /\ HasPages(c) /\ Tables!SHM_VA \notin Mapped(c)
        /\ Tables!TRAPFRAME \in Mapped(c)
    BY <1>12, <1>13, <2>1 DEF KernelPages
  <2>3. /\ OnlyShort(h) /\ h.ok = TRUE
        /\ Mapped(h) = Mapped(c) \cup {Tables!SHM_VA} /\ Keeps(c, h)
        /\ h.pte[Tables!SHM_VA] = Tables!SharedEntry
    BY <1>6, <2>1, <2>2, SharePages
  <2>4. IsWork(h)
    BY <1>6, <2>1, <2>2, ShareFacts
  <2>5. t.pte[Tables!SHM_VA] = Tables!SharedEntry
    <3>1. IsEntry(Tables!SHM_VA, t.pte[Tables!SHM_VA]) /\ IsPage(Tables!SHM_VA, t.pte[Tables!SHM_VA])
      BY <1>9, <2>1 DEF IsTable, HasPages, Mapped
    <3> QED
      BY <3>1 DEF IsEntry, IsPage
  <2>6. \A v \in Mapped(h) : h.pte[v] = IF v \in Mapped(c) THEN c.pte[v] ELSE Tables!SharedEntry
    BY <2>3 DEF Keeps
  <2>7. HasPages(h)
    BY <2>2, <2>6, SharedIs DEF HasPages
  <2> QED
    BY <1>12, <2>1, <2>2, <2>3, <2>4, <2>5, <2>6, <2>7 DEF Keeps
<1>16. IsWork(m) /\ OnlyShort(m) /\ m.bytes = <<>>
  BY <1>7, <1>11, <1>12, <1>15
<1>17. m.ok => /\ HasPages(m) /\ ~IsEmpty(m) /\ Image(m.pte, s) = ImageOf(p)
  <2>1. SUFFICES ASSUME m.ok
                 PROVE  HasPages(m) /\ ~IsEmpty(m) /\ Image(m.pte, s) = ImageOf(p)
    OBVIOUS
  <2>2. a.ok /\ c.ok
    BY <1>7, <2>1
  <2>3. /\ HasPages(m) /\ IsTable(m) /\ KernelPages \subseteq Mapped(m)
        /\ Mapped(m) \ KernelPages = Mapped(t) \ KernelPages
        /\ \A v \in Mapped(m) \ KernelPages : m.pte[v] = t.pte[v]
    <3>1. CASE Tables!SHM_VA \in Mapped(t)
      <4>1. m = h
        BY <1>7, <2>2, <3>1
      <4>2. Mapped(m) = KernelPages \cup (Mapped(t) \cap HeapPages(s)) \cup {Tables!SHM_VA}
        BY <1>12, <1>15, <2>2, <3>1, <4>1
      <4>3. Mapped(m) \ KernelPages = Mapped(t) \ KernelPages
        BY <1>14, <3>1, <4>2
      <4> QED
        BY <1>15, <2>2, <3>1, <4>1, <4>2, <4>3 DEF IsWork
    <3>2. CASE Tables!SHM_VA \notin Mapped(t)
      <4>1. m = c
        BY <1>7, <2>2, <3>2
      <4>2. Mapped(m) \ KernelPages = Mapped(t) \ KernelPages
        BY <1>12, <1>14, <2>2, <3>2, <4>1
      <4> QED
        BY <1>12, <2>2, <4>1, <4>2 DEF IsWork
    <3> QED
      BY <3>1, <3>2
  <2>4. Image(m.pte, s) = Image(t.pte, s)
    BY <1>9, <2>3, ImageCopied
  <2>5. ~IsEmpty(m)
    BY <2>3 DEF IsEmpty, Mapped, KernelPages
  <2> QED
    BY <1>3, <2>3, <2>4, <2>5 DEF ImageOf
<1>18. ASSUME m.ok = FALSE PROVE MapInv' /\ Tables!Abstract!Fork(p, np)
  <2>1. pagetable' = pagetable /\ size' = size /\ m.nomem = TRUE
    BY <1>8, <1>16, <1>18 DEF OnlyShort
  <2>2. MapInv'
    BY <1>9, <2>1, PagesSame
  <2>3. Tables!Abstract!Same
    BY <1>9, <2>1, ImagesSame
  <2> QED
    BY <1>8, <1>18, <2>1, <2>2, <2>3, Failures DEF Tables!Abstract!Fork
<1>19. ASSUME m.ok = TRUE PROVE MapInv' /\ Tables!Abstract!Fork(p, np)
  <2>1. Tables!Returns(np, m, size[p]) /\ m.nomem = FALSE
    BY <1>8, <1>16, <1>19 DEF OnlyShort
  <2>2. MapInv'
    BY <1>9, <1>17, <1>19, <2>1, PagesReturn
  <2>3. Tables!Abstract!Becomes(np, ImageOf(p), size[p])
    <3>1. Tables!Abstract!Becomes(np, Image(m.pte, size[p]), size[p])
      BY <1>9, <2>1, ImageBecomes
    <3> QED
      BY <1>3, <1>17, <1>19, <3>1
  <2>4. ImageOf(np) = Tables!Abstract!Nothing
    <3>1. size[np] = 0
      BY <1>9 DEF MapInv
    <3> QED
      BY <1>9, <3>1, NothingIs DEF ImageOf
  <2>5. Tables!Abstract!Succeeds("fork", p, <<np>>, <<>>)
    <3>1. Tables!Abstract!Succeeds("fork", p, <<np>>, m.bytes)
      BY <1>8, <1>19, <2>1, Answers
    <3> QED
      BY <1>16, <3>1
  <2>6. /\ [q \in TableProc |-> Tables!View(q)][np] = ImageOf(np)
        /\ [q \in TableProc |-> Tables!View(q)][p] = ImageOf(p)
    BY ViewIs
  <2> QED
    BY <2>2, <2>3, <2>4, <2>5, <2>6 DEF Tables!Abstract!Fork
<1>20. m.ok = TRUE \/ m.ok = FALSE
  BY <1>16 DEF IsWork
<1>21. reply'.call = "fork" /\ reply'.p = p
  BY <1>8, Answers
<1> QED
  BY <1>18, <1>19, <1>20, <1>21 DEF Tables!Abstract!Next, Tables!Abstract!Answered

-------------------------------------------------------------------------------
(***************************************************************************)
(* Bytes and the pages they are in                                         *)
(***************************************************************************)
LEMMA PageBelow ==
  ASSUME NEW y \in Nat, NEW v \in Nat
  PROVE  v * PGSIZE \in Nat /\ (Tables!PageOf(y) < v <=> y < v * PGSIZE)
<1>1. /\ v * PGSIZE \in Nat /\ Tables!PageOf(v * PGSIZE) = v /\ Tables!RoundUp(v * PGSIZE) = v
      /\ Tables!PageOf(y) \in Nat
  BY AddressFacts
<1>2. PICK b \in Nat : b = v * PGSIZE
  BY <1>1
<1>3. y < b => Tables!PageOf(y) < Tables!RoundUp(b)
  BY AddressFacts
<1>4. b <= y => Tables!PageOf(b) <= Tables!PageOf(y)
  BY AddressFacts
<1> QED
  BY <1>1, <1>2, <1>3, <1>4

LEMMA ByteOfPage ==
  ASSUME NEW v \in Nat, NEW i \in 0 .. PGSIZE - 1
  PROVE  v * PGSIZE + i \in Nat /\ Tables!PageOf(v * PGSIZE + i) = v
<1>1. PGSIZE \in Nat \ {0}
  BY TablesAssumption
<1>2. v * PGSIZE \in Nat /\ PGSIZE * v = v * PGSIZE /\ i \in Nat /\ i < PGSIZE
  BY <1>1
<1>3. PICK y \in Nat : y = v * PGSIZE + i
  BY <1>2
<1>4. PGSIZE * v <= y /\ y < PGSIZE * v + PGSIZE
  BY <1>1, <1>2, <1>3
<1>5. y \div PGSIZE = v
  BY <1>1, <1>4, DivisionIs
<1> QED
  BY <1>3, <1>5 DEF Tables!PageOf

\* Of the n bytes from a on, those that are in pages before v.
Before(a, n, v) ==
  IF v <= Tables!PageOf(a) THEN 0
  ELSE IF v <= Tables!PageOf(a + n - 1) THEN v * PGSIZE - a ELSE n

LEMMA BeforeFacts ==
  ASSUME NEW a \in Nat, NEW n \in Nat \ {0},
         NEW v \in Tables!PageOf(a) .. Tables!PageOf(a + n - 1) + 1
  PROVE  /\ Before(a, n, v) \in 0 .. n
         /\ \A x \in 0 .. n - 1 : x < Before(a, n, v) <=> Tables!PageOf(a + x) < v
<1>1. PICK l \in Nat : l = a + n - 1
  OBVIOUS
<1>2. PICK p \in Nat, q \in Nat : p = Tables!PageOf(a) /\ q = Tables!PageOf(l)
  BY AddressFacts
<1>3. v \in Nat /\ p <= v /\ v <= q + 1
  BY <1>1, <1>2
<1>4. PICK b : b = Before(a, n, v)
  OBVIOUS
<1>5. b = IF v <= p THEN 0 ELSE IF v <= q THEN v * PGSIZE - a ELSE n
  BY <1>1, <1>2, <1>4 DEF Before
<1>6. ASSUME NEW x \in 0 .. n - 1
      PROVE  a + x \in Nat /\ p <= Tables!PageOf(a + x) /\ Tables!PageOf(a + x) <= q
             /\ Tables!PageOf(a + x) \in Nat
  <2>1. PICK y \in Nat : y = a + x
    OBVIOUS
  <2>2. a <= y /\ y <= l
    BY <1>1, <2>1
  <2>3. Tables!PageOf(a) <= Tables!PageOf(y) /\ Tables!PageOf(y) <= Tables!PageOf(l)
        /\ Tables!PageOf(y) \in Nat
    BY <2>2, AddressFacts
  <2> QED
    BY <1>2, <2>1, <2>3
<1>7. CASE v <= p
  <2>1. b = 0
    BY <1>5, <1>7
  <2> QED
    BY <1>3, <1>4, <1>6, <1>7, <2>1
<1>8. CASE ~(v <= p) /\ v <= q
  <2>1. v * PGSIZE \in Nat /\ (p < v <=> a < v * PGSIZE) /\ (q < v <=> l < v * PGSIZE)
    BY <1>2, <1>3, PageBelow
  <2>2. PICK t \in Nat : t = v * PGSIZE
    BY <2>1
  <2>3. b = t - a /\ a < t /\ t <= l
    BY <1>2, <1>3, <1>5, <1>8, <2>1, <2>2
  <2>4. b \in 0 .. n
    BY <1>1, <2>3
  <2>5. ASSUME NEW x \in 0 .. n - 1
        PROVE  x < b <=> Tables!PageOf(a + x) < v
    <3>1. PICK y \in Nat : y = a + x
      OBVIOUS
    <3>2. Tables!PageOf(y) < v <=> y < t
      BY <1>3, <2>2, PageBelow
    <3>3. x < b <=> y < t
      BY <2>3, <3>1
    <3> QED
      BY <3>1, <3>2, <3>3
  <2> QED
    BY <1>4, <2>4, <2>5
<1>9. CASE ~(v <= p) /\ ~(v <= q)
  <2>1. b = n /\ v = q + 1
    BY <1>2, <1>3, <1>5, <1>9
  <2>2. \A x \in 0 .. n - 1 : x < b /\ Tables!PageOf(a + x) < v
    BY <1>2, <1>6, <2>1
  <2> QED
    BY <1>4, <2>1, <2>2
<1> QED
  BY <1>7, <1>8, <1>9

\* The first of the bytes that are in page v.
LEMMA BeforeIn ==
  ASSUME NEW a \in Nat, NEW n \in Nat \ {0},
         NEW v \in Tables!PageOf(a) .. Tables!PageOf(a + n - 1)
  PROVE  /\ Before(a, n, v) \in 0 .. n - 1
         /\ a + Before(a, n, v) \in Nat /\ Tables!PageOf(a + Before(a, n, v)) = v
         /\ Before(a, n, v) = 0 \/ (a + Before(a, n, v)) % PGSIZE = 0
         /\ v \in Nat
<1>1. PICK l \in Nat : l = a + n - 1
  OBVIOUS
<1>2. PICK p \in Nat, q \in Nat : p = Tables!PageOf(a) /\ q = Tables!PageOf(l)
  BY AddressFacts
<1>3. v \in Nat /\ p <= v /\ v <= q
  BY <1>1, <1>2
<1>4. PICK b : b = Before(a, n, v)
  OBVIOUS
<1>5. b = IF v <= p THEN 0 ELSE v * PGSIZE - a
  BY <1>1, <1>2, <1>3, <1>4 DEF Before
<1>6. CASE v <= p
  <2>1. b = 0 /\ v = p /\ a + b = a
    BY <1>3, <1>5, <1>6
  <2> QED
    BY <1>2, <1>4, <2>1
<1>7. CASE ~(v <= p)
  <2>1. v * PGSIZE \in Nat /\ (p < v <=> a < v * PGSIZE) /\ (q < v <=> l < v * PGSIZE)
    BY <1>2, <1>3, PageBelow
  <2>2. PICK t \in Nat : t = v * PGSIZE
    BY <2>1
  <2>3. b = t - a /\ a < t /\ t <= l
    BY <1>2, <1>3, <1>5, <1>7, <2>1, <2>2
  <2>4. b \in 0 .. n - 1 /\ a + b = t
    BY <1>1, <2>3
  <2>5. Tables!PageOf(t) = v
    BY <1>3, <2>2, AddressFacts
  <2>6. t % PGSIZE = 0
    <3>1. PGSIZE \in Nat \ {0}
      BY TablesAssumption
    <3>2. (v * PGSIZE) % PGSIZE = 0
      BY <1>3, <3>1
    <3> QED
      BY <2>2, <3>2
  <2> QED
    BY <1>3, <1>4, <2>4, <2>5, <2>6
<1> QED
  BY <1>6, <1>7

LEMMA PartIs ==
  ASSUME NEW a \in Nat, NEW n \in Nat \ {0},
         NEW v \in Tables!PageOf(a) .. Tables!PageOf(a + n - 1)
  PROVE  /\ Before(a, n, v) \in 0 .. n - 1 /\ Before(a, n, v + 1) \in 0 .. n
         /\ Before(a, n, v) < Before(a, n, v + 1)
         /\ Tables!PartOf(v, a, n) = a + Before(a, n, v) .. a + Before(a, n, v + 1) - 1
<1>1. PICK b, c : b = Before(a, n, v) /\ c = Before(a, n, v + 1)
  OBVIOUS
<1>2. /\ v \in Tables!PageOf(a) .. Tables!PageOf(a + n - 1) + 1
      /\ v + 1 \in Tables!PageOf(a) .. Tables!PageOf(a + n - 1) + 1
      /\ v \in Nat
  <2>1. PICK l \in Nat : l = a + n - 1
    OBVIOUS
  <2>2. PICK p \in Nat, q \in Nat : p = Tables!PageOf(a) /\ q = Tables!PageOf(l)
    BY AddressFacts
  <2> QED
    BY <2>1, <2>2
<1>3. /\ b \in 0 .. n - 1 /\ Tables!PageOf(a + b) = v
  BY <1>1, BeforeIn
<1>4. /\ c \in 0 .. n /\ \A x \in 0 .. n - 1 : x < c <=> Tables!PageOf(a + x) < v + 1
      /\ \A x \in 0 .. n - 1 : x < b <=> Tables!PageOf(a + x) < v
  BY <1>1, <1>2, BeforeFacts
<1>5. b < c
  BY <1>2, <1>3, <1>4
<1>6. \A y \in a .. a + n - 1 : Tables!PageOf(y) = v <=> a + b <= y /\ y < a + c
  <2>1. SUFFICES ASSUME NEW y \in a .. a + n - 1
                 PROVE  Tables!PageOf(y) = v <=> a + b <= y /\ y < a + c
    OBVIOUS
  <2>2. PICK x \in 0 .. n - 1 : y = a + x
    <3>1. y - a \in 0 .. n - 1 /\ y = a + (y - a)
      OBVIOUS
    <3> QED
      BY <3>1
  <2>3. Tables!PageOf(y) \in Nat
    BY AddressFacts
  <2>4. (x < c <=> Tables!PageOf(y) < v + 1) /\ (x < b <=> Tables!PageOf(y) < v)
    BY <1>4, <2>2
  <2>5. (x < c <=> y < a + c) /\ (x < b <=> y < a + b)
    BY <1>3, <1>4, <2>2
  <2> QED
    BY <1>2, <1>3, <1>4, <2>2, <2>3, <2>4, <2>5
<1>7. a + b .. a + c - 1 \subseteq a .. a + n - 1
  BY <1>3, <1>4
<1>8. Tables!PartOf(v, a, n) = a + b .. a + c - 1
  BY <1>3, <1>4, <1>6, <1>7 DEF Tables!PartOf
<1> QED
  BY <1>1, <1>3, <1>4, <1>5, <1>8

-------------------------------------------------------------------------------
(***************************************************************************)
(* One page of user memory                                                 *)
(***************************************************************************)
\* A call that has failed for want of a page, or because it must.
AtWork(m) ==
  IsWork(m) /\ HasPages(m) /\ m.nomem \in BOOLEAN /\ (m.nomem => ~m.ok)

Seen(g, v) == v \in DOMAIN g /\ g[v].u

LEMMA ReachImage ==
  ASSUME NEW m, AtWork(m), m.ok, NEW s \in Nat, Tables!RoundUp(s) <= Tables!SHM_VA,
         NEW v \in Nat
  PROVE  LET r == Tables!Reach(m, s, v)
         IN /\ AtWork(r) /\ r.bytes = m.bytes
            /\ Image(r.pte, s) = Image(m.pte, s)
            /\ r.ok => /\ v \in Mapped(r) /\ Seen(Image(r.pte, s), v)
                       /\ r.pte[v] = Image(r.pte, s)[v] /\ r.pte[v].u
            /\ ~r.ok /\ ~r.nomem => ~Seen(Image(m.pte, s), v)
<1>1. PICK r : r = Tables!Reach(m, s, v)
  OBVIOUS
<1>2. IsCall(m) /\ IsWork(m) /\ HasPages(m) /\ IsTable(m)
  BY DEF AtWork, IsCall, OnlyShort, IsWork
<1>3. ASSUME NEW t, v \in Mapped(t), t.pte[v].kind # "kernel", t.pte[v].u
      PROVE  Seen(Image(t.pte, s), v) /\ Image(t.pte, s)[v] = t.pte[v]
  <2>1. v \in Visible(t.pte)
    BY <1>3 DEF Visible, Mapped
  <2>2. v \in DOMAIN Image(t.pte, s) /\ Image(t.pte, s)[v] = t.pte[v]
    BY <2>1 DEF Image
  <2> QED
    BY <1>3, <2>2 DEF Seen
<1>4. CASE v \in Mapped(m) /\ m.pte[v].u
  <2>1. r = m
    BY <1>1, <1>4 DEF Tables!Reach, Mapped
  <2>2. m.pte[v].kind # "kernel"
    BY <1>2, <1>4 DEF HasPages, IsPage
  <2>3. Seen(Image(m.pte, s), v) /\ Image(m.pte, s)[v] = m.pte[v]
    BY <1>3, <1>4, <2>2
  <2> QED
    BY <1>1, <1>4, <2>1, <2>3
<1>5. CASE ~(v \in Mapped(m) /\ m.pte[v].u)
  <2>1. PICK va \in Nat : va = v * PGSIZE
    BY AddressFacts
  <2>2. r = Tables!Vmfault(m, s, va) /\ Tables!PageOf(va) = v
    BY <1>1, <1>5, <2>1, AddressFacts DEF Tables!Reach, Mapped
  <2>3. /\ Image(r.pte, s) = Image(m.pte, s) /\ HasPages(r) /\ Keeps(m, r)
        /\ r.nomem \in BOOLEAN /\ (r.nomem => ~r.ok)
        /\ r.ok => v \in Mapped(r) /\ r.pte[v] = Tables!Zeroed(TRUE)
        /\ ~r.ok /\ ~r.nomem => s <= va \/ v \in Mapped(m)
    BY <1>2, <2>2, VmfaultImage
  <2>4. IsWork(r)
    BY <1>2, <2>2, VmfaultFacts DEF Touches
  <2>5. r.ok => /\ v \in Mapped(r) /\ Seen(Image(r.pte, s), v)
                /\ r.pte[v] = Image(r.pte, s)[v] /\ r.pte[v].u
    <3>1. SUFFICES ASSUME r.ok
                   PROVE  /\ v \in Mapped(r) /\ Seen(Image(r.pte, s), v)
                          /\ r.pte[v] = Image(r.pte, s)[v] /\ r.pte[v].u
      OBVIOUS
    <3>2. v \in Mapped(r) /\ r.pte[v].kind # "kernel" /\ r.pte[v].u
      BY <2>3, <3>1, ZeroedIs
    <3> QED
      BY <1>3, <3>2
  <2>6. ~r.ok /\ ~r.nomem => ~Seen(Image(m.pte, s), v)
    <3>1. SUFFICES ASSUME s <= va \/ v \in Mapped(m)
                   PROVE  ~Seen(Image(m.pte, s), v)
      BY <2>3
    <3>2. PICK g : g = Image(m.pte, s)
      OBVIOUS
    <3>3. /\ DOMAIN g = Visible(m.pte) \cup HeapPages(s)
          /\ \A u \in Visible(m.pte) : g[u] = m.pte[u]
      BY <3>2 DEF Image
    <3>4. Visible(m.pte) = Mapped(m) \ KernelPages
      BY <1>2, VisibleIs
    <3>5. v \notin HeapPages(s) \/ v \in Mapped(m) \ KernelPages
      <4>1. CASE v \in Mapped(m)
        <5>1. HeapPages(s) \cap KernelPages = {}
          <6>1. PICK n \in Nat : n = Tables!RoundUp(s) /\ n <= Tables!SHM_VA
            BY AddressFacts
          <6> QED
            BY <6>1, PageNumbers DEF HeapPages, PagesBelow, KernelPages
        <5> QED
          BY <4>1, <5>1
      <4>2. CASE v \notin Mapped(m)
        <5>1. s <= va /\ va \in Nat
          BY <2>1, <3>1, <4>2
        <5>2. ~(va < s)
          BY <5>1
        <5> QED
          BY <2>1, <5>2, HeapPageIs
      <4> QED
        BY <4>1, <4>2
    <3>6. v \in DOMAIN g => v \in Mapped(m) /\ g[v] = m.pte[v]
      BY <3>3, <3>4, <3>5
    <3> QED
      BY <1>5, <3>2, <3>6 DEF Seen
  <2> QED
    BY <1>1, <2>3, <2>4, <2>5, <2>6 DEF AtWork, Keeps
<1> QED
  BY <1>4, <1>5

\* The page at v is written, if it is writable.
IsWritten(r, m, v, a, data, n, s) ==
  LET g == Image(m.pte, s)
  IN /\ AtWork(r) /\ r.bytes = m.bytes
     /\ m.pte[v].w =>
          r.ok /\ Image(r.pte, s) = [u \in DOMAIN g |-> IF u = v
                                      THEN Overwritten(v, g[v], a, data, n) ELSE g[u]]
     /\ ~m.pte[v].w => ~r.ok /\ ~r.nomem /\ Image(r.pte, s) = g

LEMMA WriteImage ==
  ASSUME NEW m, AtWork(m), m.ok, NEW v \in Mapped(m), v \in Nat, v # Tables!SHM_VA, m.pte[v].u,
         NEW a \in Nat, NEW data, NEW n \in Nat \ {0}, n = Len(data), NEW s
  PROVE  IsWritten(Tables!Write(m, v, a, data), m, v, a, data, n, s)
<1>1. PICK r, g : r = Tables!Write(m, v, a, data) /\ g = Image(m.pte, s)
  OBVIOUS
<1>2. IsWork(m) /\ HasPages(m) /\ IsTable(m) /\ m.nomem = FALSE /\ m.ok = TRUE
  BY DEF AtWork, IsWork
<1>3. IsWork(r)
  BY <1>1, <1>2, WriteFacts DEF Touches
<1>4. PICK old : old = m.pte[v]
  OBVIOUS
<1>5. /\ IsEntry(v, old) /\ IsPage(v, old) /\ old.kind = "own"
      /\ old.bytes = [i \in 0 .. PGSIZE - 1 |-> old.bytes[i]]
      /\ old = [kind |-> old.kind, w |-> old.w, u |-> old.u, bytes |-> old.bytes]
  BY <1>2, <1>4 DEF IsTable, HasPages, IsPage, IsEntry, Mapped
<1>6. CASE ~m.pte[v].w
  <2>1. r = Tables!Fail(m)
    BY <1>1, <1>6 DEF Tables!Write
  <2>2. r.ok = FALSE /\ r.pte = m.pte /\ r.nomem = m.nomem /\ r.bytes = m.bytes
    BY <1>2, <2>1, FailIs
  <2> QED
    BY <1>1, <1>2, <1>3, <1>6, <2>2 DEF AtWork, HasPages, Mapped, IsWritten
<1>7. CASE m.pte[v].w
  <2> DEFINE bytes1 == [i \in 0 .. PGSIZE - 1 |->
                          IF v * PGSIZE + i \in Tables!PartOf(v, a, Len(data))
                          THEN data[v * PGSIZE + i - a + 1] ELSE old.bytes[i]]
             bytes2 == [i \in 0 .. PGSIZE - 1 |->
                          LET x == v * PGSIZE + i - a
                          IN IF x \in 0 .. n - 1 THEN data[x + 1] ELSE old.bytes[i]]
  <2>1. bytes1 = bytes2
    <3>1. ASSUME NEW i \in 0 .. PGSIZE - 1
          PROVE  v * PGSIZE + i \in Tables!PartOf(v, a, Len(data))
                   <=> v * PGSIZE + i - a \in 0 .. n - 1
      <4>1. PICK y \in Nat : y = v * PGSIZE + i
        BY ByteOfPage
      <4>2. Tables!PageOf(y) = v
        BY <4>1, ByteOfPage
      <4>3. y \in Tables!PartOf(v, a, Len(data)) <=> y \in a .. a + n - 1
        BY <4>2 DEF Tables!PartOf
      <4>4. y \in a .. a + n - 1 <=> y - a \in 0 .. n - 1
        BY <4>1
      <4>5. v * PGSIZE + i - a = y - a
        <5>1. PICK t \in Nat : t = v * PGSIZE
          BY PageBelow
        <5>2. y = t + i
          BY <4>1, <5>1
        <5> QED
          BY <5>1, <5>2
      <4>6. y \in Tables!PartOf(v, a, Len(data)) <=> y - a \in 0 .. n - 1
        BY <4>3, <4>4
      <4> QED
        BY <4>1, <4>5, <4>6, Zenon
    <3> QED
      BY <3>1
  <2>2. DOMAIN old.bytes = 0 .. PGSIZE - 1
    BY <1>5
  <2>3. Overwritten(v, old, a, data, n) = [old EXCEPT !.bytes = bytes2]
    BY <2>2 DEF Overwritten
  <2>4. r = [m EXCEPT !.pte = [@ EXCEPT ![v] = [old EXCEPT !.bytes = bytes1]]]
    BY <1>1, <1>4, <1>7, <2>2 DEF Tables!Write, Tables!WriteUnchecked
  <2>5. PICK b : b = bytes1
    OBVIOUS
  <2>6. PICK e : e = [old EXCEPT !.bytes = b]
    OBVIOUS
  <2>7. e = Overwritten(v, old, a, data, n)
    BY <2>1, <2>3, <2>5, <2>6
  <2>8. b = [i \in 0 .. PGSIZE - 1 |-> b[i]]
    BY <2>5
  <2>9. r = [m EXCEPT !.pte = [@ EXCEPT ![v] = e]]
    BY <2>4, <2>5, <2>6
  <2> HIDE DEF bytes1, bytes2
  <2>10. e.kind = "own" /\ e.u = old.u /\ e.w = old.w /\ e.bytes = b
    BY <1>5, <2>6
  <2>11. /\ r.pte = [m.pte EXCEPT ![v] = e] /\ r.ok = m.ok /\ r.nomem = m.nomem
         /\ r.bytes = m.bytes
    BY <1>2, <2>9 DEF IsWork
  <2>12. /\ Mapped(r) = Mapped(m)
         /\ \A u \in Mapped(m) : r.pte[u] = IF u = v THEN e ELSE m.pte[u]
    BY <2>11 DEF Mapped
  <2>13. HasPages(r)
    <3>1. IsPage(v, e)
      BY <2>8, <2>10 DEF IsPage
    <3> QED
      BY <1>2, <2>12, <3>1 DEF HasPages
  <2>14. AtWork(r)
    BY <1>2, <1>3, <2>11, <2>13 DEF AtWork
  <2>15. /\ Visible(r.pte) = Visible(m.pte) /\ v \in Visible(m.pte)
         /\ \A u \in Visible(m.pte) : r.pte[u] = IF u = v THEN e ELSE m.pte[u]
    BY <1>4, <1>5, <2>10, <2>12 DEF Visible, Mapped
  <2>16. g[v] = old /\ DOMAIN g = Visible(m.pte) \cup HeapPages(s)
    BY <1>1, <1>4, <2>15 DEF Image
  <2>17. Image(r.pte, s) = [u \in DOMAIN g |-> IF u = v THEN e ELSE g[u]]
    BY <1>1, <2>15, <2>16 DEF Image
  <2>18. Image(r.pte, s) = [u \in DOMAIN g |-> IF u = v
                              THEN Overwritten(v, g[v], a, data, n) ELSE g[u]]
    BY <2>7, <2>16, <2>17
  <2> QED
    BY <1>1, <1>2, <1>7, <2>11, <2>14, <2>18 DEF IsWritten
<1> QED
  BY <1>6, <1>7

-------------------------------------------------------------------------------
(***************************************************************************)
(* Bytes that are read one after the other                                 *)
(***************************************************************************)
Listed(F, b) == [j \in 1 .. b |-> F[j]]

LEMMA ListedIs ==
  ASSUME NEW F, NEW b \in Nat
  PROVE  /\ Len(Listed(F, b)) = b /\ DOMAIN Listed(F, b) = 1 .. b
         /\ \A j \in 1 .. b : Listed(F, b)[j] = F[j]
         /\ \A S : (\A j \in 1 .. b : F[j] \in S) => Listed(F, b) \in Seq(S)
  BY DEF Listed

LEMMA ListedMore ==
  ASSUME NEW F, NEW b \in Nat, NEW c \in Nat, b <= c
  PROVE  Listed(F, b) \o [i \in 1 .. c - b |-> F[b + i]] = Listed(F, c)
<1>1. PICK S : S = {F[j] : j \in 1 .. c}
  OBVIOUS
<1>2. PICK s, t, u : s = Listed(F, b) /\ t = [i \in 1 .. c - b |-> F[b + i]] /\ u = Listed(F, c)
  OBVIOUS
<1>3. \A j \in 1 .. c : F[j] \in S
  BY <1>1
<1>4. s \in Seq(S) /\ Len(s) = b /\ \A j \in 1 .. b : s[j] = F[j]
  BY <1>2, <1>3, ListedIs
<1>5. t \in Seq(S) /\ Len(t) = c - b /\ \A i \in 1 .. c - b : t[i] = F[b + i]
  <2>1. c - b \in Nat /\ \A i \in 1 .. c - b : b + i \in 1 .. c
    OBVIOUS
  <2> QED
    BY <1>2, <1>3, <2>1
<1>6. u \in Seq(S) /\ Len(u) = c /\ \A j \in 1 .. c : u[j] = F[j]
  BY <1>2, <1>3, ListedIs
<1>7. /\ s \o t \in Seq(S) /\ Len(s \o t) = c
      /\ \A i \in 1 .. c : (s \o t)[i] = IF i <= b THEN s[i] ELSE t[i - b]
  <2>1. Len(s) + Len(t) = c
    BY <1>4, <1>5
  <2>2. /\ s \o t \in Seq(S) /\ Len(s \o t) = Len(s) + Len(t)
        /\ \A i \in 1 .. Len(s) + Len(t) :
             (s \o t)[i] = IF i <= Len(s) THEN s[i] ELSE t[i - Len(s)]
    BY <1>4, <1>5, ConcatProperties
  <2> QED
    BY <1>4, <2>1, <2>2
<1>8. ASSUME NEW i \in 1 .. c PROVE (s \o t)[i] = u[i]
  <2>1. CASE i <= b
    <3>1. i \in 1 .. b
      BY <2>1
    <3> QED
      BY <1>4, <1>6, <1>7, <2>1, <3>1
  <2>2. CASE ~(i <= b)
    <3>1. i - b \in 1 .. c - b /\ b + (i - b) = i
      BY <2>2
    <3>2. t[i - b] = F[b + (i - b)]
      BY <1>5, <3>1
    <3> QED
      BY <1>6, <1>7, <2>2, <3>1, <3>2
  <2> QED
    BY <2>1, <2>2
<1>9. s \o t = u
  BY <1>6, <1>7, <1>8
<1> QED
  BY <1>2, <1>9

LEMMA ListedFirst ==
  ASSUME NEW F, NEW b \in Nat, NEW e \in 1 .. b
  PROVE  SubSeq(Listed(F, b), 1, e) = Listed(F, e)
<1>1. PICK S : S = {F[j] : j \in 1 .. b}
  OBVIOUS
<1>2. PICK s, u : s = Listed(F, b) /\ u = Listed(F, e)
  OBVIOUS
<1>3. \A j \in 1 .. b : F[j] \in S
  BY <1>1
<1>4. s \in Seq(S) /\ Len(s) = b /\ \A j \in 1 .. b : s[j] = F[j]
  BY <1>2, <1>3, ListedIs
<1>5. u = [j \in 1 .. e |-> F[j]]
  BY <1>2 DEF Listed
<1>6. SubSeq(s, 1, e) = [i \in 1 .. e |-> s[i]]
  BY <1>4
<1> QED
  BY <1>2, <1>4, <1>5, <1>6
\* The k bytes from a on.
ReadFrom(g, a, k) == Listed([j \in Nat |-> ByteIn(g, a + j - 1)], k)

\* Pages before v have been read.
HasRead(g, a, n, m, v) ==
  /\ m.bytes = ReadFrom(g, a, Before(a, n, v))
  /\ \A u \in Tables!PageOf(a) .. v - 1 : Seen(g, u)

LEMMA AccessPages ==
  ASSUME NEW a \in Nat, NEW n \in Nat \ {0}
  PROVE  /\ Tables!PageOf(a) \in Nat /\ Tables!PageOf(a + n - 1) \in Nat
         /\ Tables!PageOf(a) <= Tables!PageOf(a + n - 1)
         /\ Tables!PageOf(a) .. Tables!PageOf(a + n - 1) \subseteq Nat
<1>1. PICK l \in Nat : l = a + n - 1
  OBVIOUS
<1>2. a <= l
  BY <1>1
<1> QED
  BY <1>1, <1>2, AddressFacts

\* Page v is there, and is the next to be read.
AtPage(m, g, a, n, v) ==
  v \in Mapped(m) /\ m.pte[v] = g[v] /\ m.bytes = ReadFrom(g, a, Before(a, n, v))

Shows(m, s, g) == Image(m.pte, s) = g

IsRead(r, m, g, a, n, v) ==
  /\ AtWork(r) /\ r.ok = m.ok /\ r.pte = m.pte
  /\ r.bytes = ReadFrom(g, a, Before(a, n, v + 1))

LEMMA ReadPartIs ==
  ASSUME NEW m, AtWork(m), NEW a \in Nat, NEW n \in Nat \ {0},
         NEW v \in Tables!PageOf(a) .. Tables!PageOf(a + n - 1),
         NEW g, AtPage(m, g, a, n, v)
  PROVE  IsRead(Tables!ReadPart(m, v, a, n), m, g, a, n, v)
<1>1. PICK b, c : b = Before(a, n, v) /\ c = Before(a, n, v + 1)
  OBVIOUS
<1>2. /\ b \in 0 .. n - 1 /\ c \in 0 .. n /\ b < c
      /\ Tables!PartOf(v, a, n) = a + b .. a + c - 1
  BY <1>1, PartIs
<1>3. PICK x \in Nat, y \in Nat : x = a + b /\ y = a + c - 1 /\ x <= y
  BY <1>2
<1>4. Tables!PartOf(v, a, n) = x .. y
  BY <1>2, <1>3
<1>5. (CHOOSE z \in Tables!PartOf(v, a, n) : \A w \in Tables!PartOf(v, a, n) : z <= w) = x
  <2>1. x \in x .. y /\ \A w \in x .. y : x <= w
    BY <1>3
  <2>2. \A z \in x .. y : (\A w \in x .. y : z <= w) => z = x
    BY <1>3
  <2> QED
    BY <1>4, <2>1, <2>2
<1>6. Tables!Cardinality(Tables!PartOf(v, a, n)) = c - b
  <2>1. Cardinality(x .. y) = y - x + 1
    BY <1>3, FS_Interval
  <2>2. y - x + 1 = c - b
    BY <1>2, <1>3
  <2> QED
    BY <1>4, <2>1, <2>2, CountsAgree
<1>7. PICK t : t = [i \in 1 .. c - b |-> Tables!ByteAt(m, x + i - 1)]
  OBVIOUS
<1>8. PICK new : new = m.bytes \o t
  OBVIOUS
<1>9. PICK r : r = Tables!ReadPart(m, v, a, n)
  OBVIOUS
<1>10. PICK k, z : /\ k = Tables!Cardinality(Tables!PartOf(v, a, n))
                   /\ z = CHOOSE f \in Tables!PartOf(v, a, n) :
                             \A w \in Tables!PartOf(v, a, n) : f <= w
  OBVIOUS
<1>11. r = [m EXCEPT !.bytes = new]
  <2>1. r = [m EXCEPT !.bytes = m.bytes \o [i \in 1 .. k |-> Tables!ByteAt(m, z + i - 1)]]
    BY <1>9, <1>10 DEF Tables!ReadPart, AtWork, IsWork
  <2>2. k = c - b /\ z = x
    BY <1>5, <1>6, <1>10
  <2> QED
    BY <1>7, <1>8, <2>1, <2>2
<1>12. /\ r = [tables |-> m.tables, pte |-> m.pte, used |-> m.used, left |-> m.left,
               ok |-> m.ok, nomem |-> m.nomem, panic |-> m.panic, bytes |-> new]
  BY <1>11 DEF AtWork, IsWork
<1>13. /\ r.pte = m.pte /\ r.ok = m.ok /\ r.nomem = m.nomem /\ r.bytes = new
  BY <1>12
<1>14. IsWork(r)
  BY <1>9, ReadPartFacts DEF AtWork, Touches
<1>15. AtWork(r)
  BY <1>13, <1>14 DEF AtWork, HasPages, Mapped
<1>16. PICK F : F = [j \in Nat |-> ByteIn(g, a + j - 1)]
  OBVIOUS
<1>17. t = [i \in 1 .. c - b |-> F[b + i]]
  <2>1. ASSUME NEW i \in 1 .. c - b
        PROVE  Tables!ByteAt(m, x + i - 1) = F[b + i]
    <3>1. x + i - 1 \in x .. y /\ b + i \in Nat /\ a + (b + i) - 1 = x + i - 1
      BY <1>2, <1>3
    <3>2. PICK w : w = x + i - 1 /\ w = a + (b + i) - 1
      BY <3>1
    <3>3. Tables!PageOf(w) = v
      BY <1>4, <3>1, <3>2 DEF Tables!PartOf
    <3>4. F[b + i] = ByteIn(g, w)
      BY <1>16, <3>1, <3>2
    <3> QED
      BY <3>2, <3>3, <3>4 DEF Tables!ByteAt, ByteIn, AtPage
  <2> QED
    BY <1>7, <2>1
<1>18. m.bytes = Listed(F, b)
  BY <1>1, <1>16 DEF ReadFrom, AtPage
<1>19. new = Listed(F, c)
  <2>1. b \in Nat /\ c \in Nat /\ b <= c
    BY <1>2
  <2> QED
    BY <1>8, <1>17, <1>18, <2>1, ListedMore, ZenonT(30)
<1>20. r.bytes = ReadFrom(g, a, Before(a, n, v + 1))
  BY <1>1, <1>13, <1>16, <1>19 DEF ReadFrom
<1> QED
  BY <1>9, <1>13, <1>15, <1>20 DEF IsRead

\* One page is read, or why not.
LEMMA InStep ==
  ASSUME NEW m, AtWork(m), m.ok, NEW s \in Nat, Tables!RoundUp(s) <= Tables!SHM_VA,
         NEW a \in Nat, NEW n \in Nat \ {0},
         NEW v \in Tables!PageOf(a) .. Tables!PageOf(a + n - 1),
         NEW g, Shows(m, s, g), HasRead(g, a, n, m, v)
  PROVE  LET q == Tables!Reach(m, s, v)
             r == IF q.ok THEN Tables!ReadPart(q, v, a, n) ELSE q
         IN /\ AtWork(r) /\ Shows(r, s, g)
            /\ r.ok => HasRead(g, a, n, r, v + 1)
            /\ ~r.ok => HasRead(g, a, n, r, v) /\ (r.nomem \/ ~Seen(g, v))
<1>1. PICK q : q = Tables!Reach(m, s, v)
  OBVIOUS
<1>2. PICK r : r = IF q.ok THEN Tables!ReadPart(q, v, a, n) ELSE q
  OBVIOUS
<1>3. v \in Nat
  BY AccessPages
<1>4. /\ AtWork(q) /\ q.bytes = m.bytes /\ Image(q.pte, s) = g
      /\ q.ok => v \in Mapped(q) /\ Seen(g, v) /\ q.pte[v] = g[v]
      /\ ~q.ok /\ ~q.nomem => ~Seen(g, v)
  BY <1>1, <1>3, ReachImage DEF Shows
<1>5. CASE q.ok
  <2>1. r = Tables!ReadPart(q, v, a, n)
    BY <1>2, <1>5
  <2>2. AtPage(q, g, a, n, v)
    BY <1>4, <1>5 DEF HasRead, AtPage
  <2>3. /\ AtWork(r) /\ r.ok = q.ok /\ Image(r.pte, s) = Image(q.pte, s)
        /\ r.bytes = ReadFrom(g, a, Before(a, n, v + 1))
    <3>1. AtWork(q)
      BY <1>4
    <3>2. IsRead(Tables!ReadPart(q, v, a, n), q, g, a, n, v)
      BY <2>2, <3>1, ReadPartIs
    <3> QED
      BY <2>1, <3>2 DEF IsRead
  <2>4. \A u \in Tables!PageOf(a) .. (v + 1) - 1 : Seen(g, u)
    <3>1. \A u \in Tables!PageOf(a) .. (v + 1) - 1 : u = v \/ u \in Tables!PageOf(a) .. v - 1
      BY <1>3, AccessPages
    <3> QED
      BY <1>4, <1>5, <3>1 DEF HasRead
  <2> QED
    BY <1>1, <1>2, <1>4, <1>5, <2>3, <2>4 DEF HasRead, Shows
<1>6. CASE ~q.ok
  <2>1. r = q
    BY <1>2, <1>6
  <2>2. HasRead(g, a, n, q, v)
    BY <1>4 DEF HasRead
  <2> QED
    BY <1>1, <1>2, <1>4, <1>6, <2>1, <2>2 DEF Shows
<1> QED
  BY <1>5, <1>6

\* Pages from the first to the one before v have been written.
CanWrite(g, v) == Seen(g, v) /\ g[v].w

WrittenBelow(g, a, data, v) ==
  [u \in DOMAIN g |-> IF u \in Tables!PageOf(a) .. v - 1
                      THEN Overwritten(u, g[u], a, data, Len(data)) ELSE g[u]]

\* One page is written, or why not.
LEMMA OutStep ==
  ASSUME NEW m, AtWork(m), m.ok, NEW s \in Nat, Tables!RoundUp(s) <= Tables!SHM_VA,
         NEW a \in Nat, NEW data, NEW n \in Nat \ {0}, n = Len(data),
         NEW v \in Nat, v # Tables!SHM_VA, Tables!PageOf(a) <= v,
         NEW g, DOMAIN g \subseteq Nat, Shows(m, s, WrittenBelow(g, a, data, v))
  PROVE  LET q == Tables!Reach(m, s, v)
             r == IF q.ok THEN Tables!Write(q, v, a, data) ELSE q
         IN /\ AtWork(r) /\ r.bytes = m.bytes
            /\ r.ok => CanWrite(g, v) /\ Shows(r, s, WrittenBelow(g, a, data, v + 1))
            /\ ~r.ok => /\ Shows(r, s, WrittenBelow(g, a, data, v))
                        /\ r.nomem \/ ~CanWrite(g, v)
<1>1. PICK q : q = Tables!Reach(m, s, v)
  OBVIOUS
<1>2. PICK r : r = IF q.ok THEN Tables!Write(q, v, a, data) ELSE q
  OBVIOUS
<1>3. PICK h : h = WrittenBelow(g, a, data, v)
  OBVIOUS
<1>4. /\ AtWork(q) /\ q.bytes = m.bytes /\ Image(q.pte, s) = h
      /\ q.ok => v \in Mapped(q) /\ Seen(h, v) /\ q.pte[v] = h[v] /\ q.pte[v].u
      /\ ~q.ok /\ ~q.nomem => ~Seen(h, v)
  BY <1>1, <1>3, ReachImage DEF Shows
<1>5. DOMAIN h = DOMAIN g /\ (v \in DOMAIN g => h[v] = g[v])
  BY <1>3, AddressFacts DEF WrittenBelow
<1>6. Seen(h, v) <=> Seen(g, v)
  BY <1>5 DEF Seen
<1>7. CASE q.ok
  <2>1. r = Tables!Write(q, v, a, data)
    BY <1>2, <1>7
  <2>2. v \in Mapped(q) /\ q.pte[v].u /\ q.pte[v] = g[v] /\ Seen(g, v)
    BY <1>4, <1>5, <1>6, <1>7 DEF Seen
  <2>3. /\ AtWork(r) /\ r.bytes = q.bytes
        /\ q.pte[v].w => r.ok /\ Image(r.pte, s) = [u \in DOMAIN h |-> IF u = v
                                    THEN Overwritten(v, h[v], a, data, n) ELSE h[u]]
        /\ ~q.pte[v].w => ~r.ok /\ ~r.nomem /\ Image(r.pte, s) = h
    <3>1. IsWritten(Tables!Write(q, v, a, data), q, v, a, data, n, s)
      BY <1>4, <1>7, <2>2, WriteImage
    <3> QED
      BY <1>4, <2>1, <3>1 DEF IsWritten
  <2>4. [u \in DOMAIN h |-> IF u = v THEN Overwritten(v, h[v], a, data, n) ELSE h[u]] =
          WrittenBelow(g, a, data, v + 1)
    <3>1. PICK p \in Nat : p = Tables!PageOf(a) /\ p <= v
      BY AddressFacts
    <3>2. \A u \in DOMAIN g : u \in p .. (v + 1) - 1 <=> u = v \/ u \in p .. v - 1
      BY <3>1
    <3>3. \A u \in DOMAIN g :
            (IF u = v THEN Overwritten(v, h[v], a, data, n) ELSE h[u]) =
            (IF u \in p .. (v + 1) - 1 THEN Overwritten(u, g[u], a, data, Len(data)) ELSE g[u])
      <4>1. TAKE u \in DOMAIN g
      <4>2. h[u] = IF u \in p .. v - 1 THEN Overwritten(u, g[u], a, data, Len(data)) ELSE g[u]
        BY <1>3, <3>1 DEF WrittenBelow
      <4>3. u = v => h[v] = g[v]
        BY <1>5
      <4> QED
        BY <3>2, <4>2, <4>3
    <3> QED
      BY <1>5, <3>1, <3>3 DEF WrittenBelow
  <2>5. CASE q.pte[v].w
    <3>1. CanWrite(g, v)
      BY <2>2, <2>5 DEF CanWrite
    <3> QED
      BY <1>1, <1>2, <1>4, <2>3, <2>4, <2>5, <3>1 DEF Shows
  <2>6. CASE ~q.pte[v].w
    <3>1. ~CanWrite(g, v)
      BY <2>2, <2>6 DEF CanWrite
    <3> QED
      BY <1>1, <1>2, <1>3, <1>4, <2>3, <2>6, <3>1 DEF Shows
  <2> QED
    BY <2>5, <2>6
<1>8. CASE ~q.ok
  <2>1. r = q
    BY <1>2, <1>8
  <2> QED
    BY <1>1, <1>2, <1>3, <1>4, <1>6, <1>8, <2>1 DEF CanWrite, Shows
<1> QED
  BY <1>7, <1>8

-------------------------------------------------------------------------------
(***************************************************************************)
(* The loops of copyout(), copyin() and copyinstr()                        *)
(***************************************************************************)
SizeOf(loop) == IF loop.of = "out" THEN Len(loop.data) ELSE loop.n
FirstOf(loop) == Tables!PageOf(loop.a)
LastOf(loop) == Tables!PageOf(loop.a + SizeOf(loop) - 1)

IsAccess(loop) ==
  /\ loop.of \in AccessLoops /\ loop.s \in Nat /\ Tables!RoundUp(loop.s) <= Tables!SHM_VA
  /\ loop.a \in Nat /\ SizeOf(loop) \in Nat \ {0}
  /\ loop.of = "out" => Tables!SHM_VA \notin FirstOf(loop) .. LastOf(loop)

\* The loop has done with the pages before v, or was at the end of a string.
Progress(loop, g, m, v) ==
  /\ AtWork(m)
  /\ loop.of = "out" =>
       /\ m.bytes = <<>> /\ Shows(m, loop.s, WrittenBelow(g, loop.a, loop.data, v))
       /\ \A u \in FirstOf(loop) .. v - 1 : CanWrite(g, u)
  /\ loop.of = "in" => Shows(m, loop.s, g) /\ HasRead(g, loop.a, loop.n, m, v)
  /\ loop.of = "string" =>
       /\ Shows(m, loop.s, g)
       /\ \E w \in FirstOf(loop) .. v : /\ HasRead(g, loop.a, loop.n, m, w)
                                        /\ w = v \/ Tables!Terminated(m.bytes)

\* Why it has failed at page v.
Stuck(loop, g, m, v) ==
  /\ loop.of = "out" => m.nomem \/ ~CanWrite(g, v)
  /\ loop.of = "in" => m.nomem \/ ~Seen(g, v)
  /\ loop.of = "string" => /\ m.nomem \/ ~Seen(g, v)
                           /\ ~Tables!Terminated(m.bytes)
                           /\ HasRead(g, loop.a, loop.n, m, v)

\* The loop has come to page v, or has failed before.
Comes(loop, g, m, v) ==
  /\ m.ok => Progress(loop, g, m, v)
  /\ ~m.ok => \E u \in FirstOf(loop) .. LastOf(loop) :
                Progress(loop, g, m, u) /\ Stuck(loop, g, m, u)

Passes(loop, g, m, v) == Comes(loop, g, m, v + 1)

LEMMA AccessIsAt ==
  ASSUME NEW loop, IsAccess(loop)
  PROVE  /\ FirstOf(loop) \in Nat /\ LastOf(loop) \in Nat /\ FirstOf(loop) <= LastOf(loop)
         /\ \A v \in FirstOf(loop) .. LastOf(loop) : v \in Nat
<1>1. PICK a \in Nat, n \in Nat \ {0} : a = loop.a /\ n = SizeOf(loop)
  BY DEF IsAccess
<1>2. FirstOf(loop) = Tables!PageOf(a) /\ LastOf(loop) = Tables!PageOf(a + n - 1)
  BY <1>1 DEF FirstOf, LastOf
<1> QED
  BY <1>2, AccessPages

LEMMA OutPasses ==
  ASSUME NEW loop, IsAccess(loop), loop.of = "out", NEW g, DOMAIN g \subseteq Nat,
         NEW v \in FirstOf(loop) .. LastOf(loop), NEW m, m.ok, Progress(loop, g, m, v)
  PROVE  Passes(loop, g, Body(loop, m, v), v)
<1>1. PICK a \in Nat, n \in Nat \ {0}, s \in Nat, data \in {loop.data} :
        a = loop.a /\ n = SizeOf(loop) /\ s = loop.s /\ data = loop.data /\ n = Len(data)
  BY DEF IsAccess, SizeOf
<1>2. PICK p \in Nat, l \in Nat : p = FirstOf(loop) /\ l = LastOf(loop) /\ p = Tables!PageOf(a)
  BY <1>1, AccessIsAt DEF FirstOf
<1>3. v \in Nat /\ p <= v /\ v <= l /\ v # Tables!SHM_VA /\ Tables!RoundUp(s) <= Tables!SHM_VA
  BY <1>1, <1>2 DEF IsAccess
<1>4. /\ AtWork(m) /\ m.bytes = <<>> /\ Shows(m, s, WrittenBelow(g, a, data, v))
      /\ \A u \in p .. v - 1 : CanWrite(g, u)
  BY <1>1, <1>2 DEF Progress
<1>5. PICK q : q = Tables!Reach(m, s, v)
  OBVIOUS
<1>6. PICK r : r = IF q.ok THEN Tables!Write(q, v, a, data) ELSE q
  OBVIOUS
<1>7. r = Body(loop, m, v)
  BY <1>1, <1>5, <1>6 DEF Body, Reached
<1>8. /\ AtWork(r) /\ r.bytes = m.bytes
      /\ r.ok => CanWrite(g, v) /\ Shows(r, s, WrittenBelow(g, a, data, v + 1))
      /\ ~r.ok => /\ Shows(r, s, WrittenBelow(g, a, data, v))
                  /\ r.nomem \/ ~CanWrite(g, v)
  BY <1>1, <1>2, <1>3, <1>4, <1>5, <1>6, OutStep, SMTT(20)
<1>9. r.ok => Progress(loop, g, r, v + 1)
  <2>1. \A u \in p .. (v + 1) - 1 : u = v \/ u \in p .. v - 1
    BY <1>3
  <2> QED
    BY <1>1, <1>2, <1>4, <1>8, <2>1 DEF Progress
<1>10. ~r.ok => Progress(loop, g, r, v) /\ Stuck(loop, g, r, v)
  BY <1>1, <1>2, <1>4, <1>8 DEF Progress, Stuck
<1> QED
  BY <1>7, <1>9, <1>10 DEF Passes, Comes

LEMMA InPasses ==
  ASSUME NEW loop, IsAccess(loop), loop.of = "in", NEW g,
         NEW v \in FirstOf(loop) .. LastOf(loop), NEW m, m.ok, Progress(loop, g, m, v)
  PROVE  Passes(loop, g, Body(loop, m, v), v)
<1>1. PICK a \in Nat, n \in Nat \ {0}, s \in Nat :
        a = loop.a /\ n = SizeOf(loop) /\ s = loop.s /\ n = loop.n
  BY DEF IsAccess, SizeOf
<1>2. /\ v \in Tables!PageOf(a) .. Tables!PageOf(a + n - 1)
      /\ Tables!RoundUp(s) <= Tables!SHM_VA
  BY <1>1 DEF FirstOf, LastOf, IsAccess
<1>3. AtWork(m) /\ Shows(m, s, g) /\ HasRead(g, a, n, m, v)
  BY <1>1 DEF Progress
<1>4. PICK q : q = Tables!Reach(m, s, v)
  OBVIOUS
<1>5. PICK r : r = IF q.ok THEN Tables!ReadPart(q, v, a, n) ELSE q
  OBVIOUS
<1>6. r = Body(loop, m, v)
  BY <1>1, <1>4, <1>5 DEF Body, Reached
<1>7. /\ AtWork(r) /\ Shows(r, s, g)
      /\ r.ok => HasRead(g, a, n, r, v + 1)
      /\ ~r.ok => HasRead(g, a, n, r, v) /\ (r.nomem \/ ~Seen(g, v))
  BY <1>2, <1>3, <1>4, <1>5, InStep
<1>8. r.ok => Progress(loop, g, r, v + 1)
  BY <1>1, <1>7 DEF Progress
<1>9. ~r.ok => Progress(loop, g, r, v) /\ Stuck(loop, g, r, v)
  BY <1>1, <1>7 DEF Progress, Stuck
<1> QED
  BY <1>6, <1>8, <1>9 DEF Passes, Comes

LEMMA StringPasses ==
  ASSUME NEW loop, IsAccess(loop), loop.of = "string", NEW g,
         NEW v \in FirstOf(loop) .. LastOf(loop), NEW m, m.ok, Progress(loop, g, m, v)
  PROVE  Passes(loop, g, Body(loop, m, v), v)
<1>1. PICK a \in Nat, n \in Nat \ {0}, s \in Nat :
        a = loop.a /\ n = SizeOf(loop) /\ s = loop.s /\ n = loop.n
  BY DEF IsAccess, SizeOf
<1>2. /\ v \in Tables!PageOf(a) .. Tables!PageOf(a + n - 1)
      /\ Tables!RoundUp(s) <= Tables!SHM_VA
  BY <1>1 DEF FirstOf, LastOf, IsAccess
<1>3. PICK p \in Nat : p = FirstOf(loop) /\ p <= v /\ v \in Nat
  BY AccessIsAt
<1>4. PICK w \in p .. v : /\ AtWork(m) /\ Shows(m, s, g) /\ HasRead(g, a, n, m, w)
                          /\ w = v \/ Tables!Terminated(m.bytes)
  BY <1>1, <1>3 DEF Progress
<1>5. CASE Tables!Terminated(m.bytes)
  <2>1. Body(loop, m, v) = m
    BY <1>5 DEF Body
  <2>2. w \in p .. v + 1
    BY <1>3
  <2>3. Progress(loop, g, m, v + 1)
    BY <1>1, <1>3, <1>4, <1>5, <2>2 DEF Progress
  <2> QED
    BY <2>1, <2>3 DEF Passes, Comes
<1>6. CASE ~Tables!Terminated(m.bytes)
  <2>1. HasRead(g, a, n, m, v)
    BY <1>4, <1>6
  <2>2. PICK q : q = Tables!Reach(m, s, v)
    OBVIOUS
  <2>3. PICK r : r = IF q.ok THEN Tables!ReadPart(q, v, a, n) ELSE q
    OBVIOUS
  <2>4. r = Body(loop, m, v)
    BY <1>1, <1>6, <2>2, <2>3 DEF Body, Reached
  <2>5. /\ AtWork(r) /\ Shows(r, s, g)
        /\ r.ok => HasRead(g, a, n, r, v + 1)
        /\ ~r.ok => HasRead(g, a, n, r, v) /\ (r.nomem \/ ~Seen(g, v))
    BY <1>2, <1>4, <2>1, <2>2, <2>3, InStep
  <2>6. r.ok => Progress(loop, g, r, v + 1)
    <3>1. v + 1 \in p .. v + 1
      BY <1>3
    <3> QED
      BY <1>1, <1>3, <2>5, <3>1 DEF Progress
  <2>7. ~r.ok => Progress(loop, g, r, v) /\ Stuck(loop, g, r, v)
    <3>1. v \in p .. v
      BY <1>3
    <3>2. ~r.ok => r.bytes = m.bytes
      BY <2>1, <2>5 DEF HasRead
    <3> QED
      BY <1>1, <1>3, <1>6, <2>5, <3>1, <3>2 DEF Progress, Stuck
  <2> QED
    BY <2>4, <2>6, <2>7 DEF Passes, Comes
<1> QED
  BY <1>5, <1>6

LEMMA BodyPasses ==
  ASSUME NEW loop, IsAccess(loop), NEW g, DOMAIN g \subseteq Nat,
         NEW v \in FirstOf(loop) .. LastOf(loop), NEW m, m.ok, Progress(loop, g, m, v)
  PROVE  Passes(loop, g, Body(loop, m, v), v)
  BY OutPasses, InPasses, StringPasses DEF IsAccess, AccessLoops

LEMMA LoopComes ==
  ASSUME NEW loop, IsAccess(loop), NEW m, AtWork(m), m.ok, m.bytes = <<>>,
         NEW g, Shows(m, loop.s, g), DOMAIN g \subseteq Nat, NEW n \in Nat, n = SizeOf(loop),
         NEW f, IsLoop(f, loop, m, Tables!Touched(loop.a, n))
  PROVE  Passes(loop, g, f[Len(Tables!Touched(loop.a, n))], LastOf(loop))
<1>1. PICK p \in Nat, l \in Nat : p = FirstOf(loop) /\ l = LastOf(loop) /\ p <= l
  BY AccessIsAt
<1>2. PICK b \in Int : b = l + 1 /\ p <= b
  BY <1>1
<1> DEFINE P == Tables!PagesFrom(p, b)
           Good == {i \in 0 .. Len(P) : Comes(loop, g, f[i], p + i)}
<1>3. P = Tables!Touched(loop.a, n)
  BY <1>2, <1>1 DEF Tables!Touched, FirstOf, LastOf
<1>4. Len(P) = l + 1 - p /\ \A i \in 1 .. Len(P) : P[i] = p + i - 1
  <2>1. p \in Int
    OBVIOUS
  <2>2. Len(P) = b - p /\ \A i \in 1 .. Len(P) : P[i] = p + i - 1
    BY <1>2, <2>1, PagesFromFacts
  <2>3. b - p = l + 1 - p
    BY <1>2
  <2> QED
    BY <2>2, <2>3
<1> HIDE DEF P
<1>5. PICK len \in Nat : len = Len(P) /\ len = l + 1 - p
  BY <1>1, <1>4
<1>6. f = [i \in 0 .. len |->
             IF i = 0 THEN m
             ELSE IF f[i - 1].ok THEN Body(loop, f[i - 1], P[i]) ELSE f[i - 1]]
  BY <1>3, <1>5 DEF IsLoop
<1>7. 0 \in Good
  <2>1. f[0] = m /\ 0 \in 0 .. len /\ p + 0 = p
    BY <1>6
  <2>2. Progress(loop, g, m, p)
    <3>1. loop.of = "out" => WrittenBelow(g, loop.a, loop.data, p) = g
      <4>1. p .. p - 1 = {} /\ p = Tables!PageOf(loop.a)
        BY <1>1 DEF FirstOf
      <4>2. g = [u \in DOMAIN g |-> g[u]]
        BY DEF Shows, Image
      <4> QED
        BY <4>1, <4>2 DEF WrittenBelow
    <3>2. p .. p - 1 = {} /\ p \in p .. p
      OBVIOUS
    <3>3. loop.of # "out" => HasRead(g, loop.a, loop.n, m, p)
      <4>1. Before(loop.a, loop.n, p) = 0
        BY <1>1 DEF Before, FirstOf
      <4>2. ReadFrom(g, loop.a, 0) = <<>>
        BY DEF ReadFrom, Listed
      <4> QED
        BY <1>1, <3>2, <4>1, <4>2 DEF HasRead, FirstOf
    <3> QED
      BY <1>1, <3>1, <3>2, <3>3 DEF Progress
  <2> QED
    BY <1>5, <2>1, <2>2 DEF Comes
<1>8. ASSUME NEW i \in 1 .. len, i - 1 \in Good
      PROVE  i \in Good
  <2>1. PICK q : q = f[i - 1]
    OBVIOUS
  <2>2. PICK v \in Nat : v = p + i - 1 /\ v = p + (i - 1) /\ v + 1 = p + i
    OBVIOUS
  <2>3. f[i] = IF q.ok THEN Body(loop, q, v) ELSE q
    <3>1. i \in 0 .. len /\ i # 0 /\ P[i] = v
      BY <1>4, <1>5, <2>2
    <3>2. f[i] = IF f[i - 1].ok THEN Body(loop, f[i - 1], P[i]) ELSE f[i - 1]
      BY <1>6, <3>1
    <3> QED
      BY <2>1, <3>1, <3>2
  <2>4. Comes(loop, g, q, v)
    BY <1>8, <2>1, <2>2
  <2>5. v \in FirstOf(loop) .. LastOf(loop)
    <3>1. v \in p .. l
      BY <1>5, <2>2
    <3> QED
      BY <1>1, <3>1
  <2>6. Comes(loop, g, f[i], v + 1)
    <3>1. CASE q.ok
      <4>1. Passes(loop, g, Body(loop, q, v), v)
        BY <2>4, <2>5, <3>1, BodyPasses DEF Comes
      <4> QED
        BY <2>3, <3>1, <4>1 DEF Passes
    <3>2. CASE ~q.ok
      BY <2>3, <2>4, <3>2 DEF Comes
    <3> QED
      BY <3>1, <3>2
  <2> QED
    BY <1>5, <2>2, <2>6
<1>9. Good \in SUBSET (0 .. len)
  BY <1>5
<1> HIDE DEF Good
<1>10. len \in Good
  BY <1>7, <1>8, <1>9, Arrives
<1>11. Comes(loop, g, f[len], l + 1)
  <2>1. p + len = l + 1
    BY <1>5
  <2> QED
    BY <1>10, <2>1 DEF Good
<1> QED
  BY <1>1, <1>3, <1>5, <1>11 DEF Passes

-------------------------------------------------------------------------------
(***************************************************************************)
(* Access to user memory as steps of PageMap                               *)
(***************************************************************************)
IsMemory(g) ==
  /\ DOMAIN g \subseteq Nat
  /\ \A v \in DOMAIN g :
       /\ g[v] = [kind |-> g[v].kind, w |-> g[v].w, u |-> g[v].u, bytes |-> g[v].bytes]
       /\ g[v].bytes = [i \in 0 .. PGSIZE - 1 |-> g[v].bytes[i]]

LEMMA AccessStarts ==
  ASSUME MapInv, NEW p \in TableProc, Tables!Exists(p), NEW left
  PROVE  LET k == Tables!On(p, left)
         IN /\ AtWork(k) /\ IsWork(k) /\ k.ok /\ k.ok = TRUE /\ k.nomem = FALSE /\ k.bytes = <<>>
            /\ Shows(k, size[p], ImageOf(p)) /\ IsSpace(k, size[p])
            /\ size[p] \in Nat /\ Tables!RoundUp(size[p]) <= Tables!SHM_VA
            /\ IsMemory(ImageOf(p))
<1>1. PICK k, s, g : k = Tables!On(p, left) /\ s = size[p] /\ g = ImageOf(p)
  OBVIOUS
<1>2. /\ IsCall(k) /\ k.ok /\ k.ok = TRUE /\ k.nomem = FALSE /\ k.bytes = <<>>
      /\ k.pte = pagetable[p].pte
      /\ IsSpace(k, s) /\ s \in Nat /\ Tables!RoundUp(s) <= Tables!SHM_VA
  BY <1>1, OnIs
<1>3. IsWork(k) /\ HasPages(k) /\ IsTable(k)
  BY <1>2 DEF IsCall, IsWork
<1>4. AtWork(k)
  BY <1>2, <1>3 DEF AtWork
<1>5. Shows(k, s, g)
  BY <1>1, <1>2 DEF Shows, ImageOf
<1>6. DOMAIN g = Visible(k.pte) \cup HeapPages(s)
  BY <1>5 DEF Shows, Image
<1>7. IsMemory(g)
  <2>1. DOMAIN g \subseteq Nat
    <3>1. HeapPages(s) \subseteq Nat
      BY DEF HeapPages, PagesBelow
    <3>2. Visible(k.pte) \subseteq Nat
      <4>1. ASSUME NEW v \in Visible(k.pte) PROVE v \in Nat
        <5>1. IsEntry(v, k.pte[v])
          BY <1>3, <4>1 DEF Visible, IsTable
        <5>2. Tables!MAXVA \in Nat
          BY TablesAssumption
        <5> QED
          BY <5>1, <5>2 DEF IsEntry, PagesBelow
      <4> QED
        BY <4>1
    <3> QED
      BY <1>6, <3>1, <3>2
  <2>2. ASSUME NEW v \in DOMAIN g
        PROVE  /\ g[v] = [kind |-> g[v].kind, w |-> g[v].w, u |-> g[v].u, bytes |-> g[v].bytes]
               /\ g[v].bytes = [i \in 0 .. PGSIZE - 1 |-> g[v].bytes[i]]
    <3>1. PICK e : e = g[v]
      OBVIOUS
    <3>2. CASE v \in Visible(k.pte)
      <4>1. e = k.pte[v] /\ v \in Mapped(k)
        BY <1>5, <3>1, <3>2 DEF Shows, Image, Visible, Mapped
      <4>2. IsEntry(v, e) /\ IsPage(v, e)
        BY <1>3, <4>1 DEF IsTable, HasPages, Mapped
      <4> QED
        BY <3>1, <4>2 DEF IsEntry, IsPage
    <3>3. CASE v \notin Visible(k.pte)
      <4>1. e = Tables!Zeroed(TRUE)
        BY <1>5, <1>6, <3>1, <3>3 DEF Shows, Image
      <4> QED
        BY <3>1, <4>1 DEF Tables!Zeroed, Tables!Entry
    <3> QED
      BY <3>2, <3>3
  <2> QED
    BY <2>1, <2>2 DEF IsMemory
<1> QED
  BY <1>1, <1>2, <1>3, <1>4, <1>5, <1>7

LEMMA AccessReturns ==
  ASSUME MapInv, TablesInv', NEW p \in TableProc, NEW k, IsSpace(k, size[p]),
         NEW m, Touches(k, m, size[p]), AtWork(m), Tables!Returns(p, m, size[p])
  PROVE  /\ MapInv'
         /\ Tables!Abstract!Becomes(p, Image(m.pte, size[p]), size[p])
         /\ Shows(m, size[p], ImageOf(p)) => Tables!Abstract!Same
<1>1. IsSpace(m, size[p])
  BY GrownSpace
<1>2. ~IsEmpty(m) /\ HasPages(m)
  BY <1>1, SpaceFacts DEF AtWork
<1>3. MapInv'
  BY <1>2, PagesReturn
<1>4. TablesInv
  BY DEF MapInv
<1>5. Tables!Abstract!Becomes(p, Image(m.pte, size[p]), size[p])
  BY <1>4, ImageBecomes
<1>6. Shows(m, size[p], ImageOf(p)) => Tables!Abstract!Same
  BY <1>4, ImageSame DEF Shows
<1> QED
  BY <1>3, <1>5, <1>6

\* What is read and written lies in the pages from the first to the last.
LEMMA BytesAt ==
  ASSUME NEW a \in Nat, NEW n \in Nat \ {0}, NEW x \in 0 .. n - 1
  PROVE  /\ a + x \in Nat /\ Tables!PageOf(a + x) \in Nat
         /\ Tables!PageOf(a + x) \in Tables!PageOf(a) .. Tables!PageOf(a + n - 1)
<1>1. PICK y \in Nat, l \in Nat : y = a + x /\ l = a + n - 1
  OBVIOUS
<1>2. a <= y /\ y <= l
  BY <1>1
<1>3. /\ Tables!PageOf(y) \in Nat /\ Tables!PageOf(a) \in Nat /\ Tables!PageOf(l) \in Nat
      /\ Tables!PageOf(a) <= Tables!PageOf(y) /\ Tables!PageOf(y) <= Tables!PageOf(l)
  BY <1>2, AddressFacts
<1> QED
  BY <1>1, <1>3

LEMMA OverwrittenNot ==
  ASSUME NEW v, NEW e, NEW a, NEW data, NEW k,
         e = [kind |-> e.kind, w |-> e.w, u |-> e.u, bytes |-> e.bytes],
         e.bytes = [i \in 0 .. PGSIZE - 1 |-> e.bytes[i]],
         \A i \in 0 .. PGSIZE - 1 : v * PGSIZE + i - a \notin 0 .. k - 1
  PROVE  Overwritten(v, e, a, data, k) = e
<1>1. PICK b : b = [i \in DOMAIN e.bytes |-> LET x == v * PGSIZE + i - a
                       IN IF x \in 0 .. k - 1 THEN data[x + 1] ELSE e.bytes[i]]
  OBVIOUS
<1>2. DOMAIN e.bytes = 0 .. PGSIZE - 1
  OBVIOUS
<1>3. b = [i \in 0 .. PGSIZE - 1 |-> e.bytes[i]]
  BY <1>1, <1>2
<1>4. b = e.bytes
  BY <1>3
<1>5. Overwritten(v, e, a, data, k) = [e EXCEPT !.bytes = b]
  BY <1>1 DEF Overwritten
<1> QED
  BY <1>4, <1>5

WritesBelow(g, a, data, n, v) ==
  WrittenTo(g, a, data, Before(a, n, v)) = WrittenBelow(g, a, data, v)

LEMMA WrittenIs ==
  ASSUME NEW g, IsMemory(g), NEW a \in Nat, NEW data, NEW n \in Nat \ {0}, n = Len(data),
         NEW v \in Tables!PageOf(a) .. Tables!PageOf(a + n - 1) + 1
  PROVE  WritesBelow(g, a, data, n, v)
<1>1. PICK k \in 0 .. n : k = Before(a, n, v)
  BY BeforeFacts
<1>2. \A x \in 0 .. n - 1 : x < k <=> Tables!PageOf(a + x) < v
  BY <1>1, BeforeFacts
<1>3. PICK p \in Nat : p = Tables!PageOf(a)
  BY AddressFacts
<1>4. v \in Int
  BY AccessPages
<1>5. ASSUME NEW u \in DOMAIN g, NEW i \in 0 .. PGSIZE - 1
      PROVE  LET x == u * PGSIZE + i - a
             IN x \in 0 .. k - 1 <=> x \in 0 .. n - 1 /\ u \in p .. v - 1
  <2>1. u \in Nat
    BY DEF IsMemory
  <2>2. PICK y \in Nat : y = u * PGSIZE + i /\ Tables!PageOf(y) = u
    BY <2>1, ByteOfPage
  <2>3. PICK x \in Int : x = u * PGSIZE + i - a /\ x = y - a /\ a + x = y
    <3>1. PICK t \in Nat : t = u * PGSIZE
      BY <2>1, PageBelow
    <3>2. y = t + i
      BY <2>2, <3>1
    <3>3. PICK x \in Int : x = y - a
      OBVIOUS
    <3>4. x = t + i - a /\ a + x = y
      BY <3>2, <3>3
    <3> QED
      BY <3>1, <3>3, <3>4
  <2>4. x \in 0 .. n - 1 => p <= u
    <3>1. x \in 0 .. n - 1 => a <= y
      BY <2>3
    <3> QED
      BY <1>3, <2>2, <3>1, AddressFacts
  <2>5. x \in 0 .. n - 1 => (x < k <=> u < v)
    BY <1>2, <2>2, <2>3
  <2>6. x \in 0 .. k - 1 <=> x \in 0 .. n - 1 /\ u \in p .. v - 1
    BY <1>4, <2>1, <2>4, <2>5
  <2> QED
    BY <2>3, <2>6
<1>6. ASSUME NEW u \in DOMAIN g
      PROVE  Overwritten(u, g[u], a, data, k) =
               IF u \in p .. v - 1 THEN Overwritten(u, g[u], a, data, n) ELSE g[u]
  <2>1. PICK e : e = g[u]
    OBVIOUS
  <2>2. /\ e = [kind |-> e.kind, w |-> e.w, u |-> e.u, bytes |-> e.bytes]
        /\ e.bytes = [i \in 0 .. PGSIZE - 1 |-> e.bytes[i]]
    BY <2>1 DEF IsMemory
  <2>3. DOMAIN e.bytes = 0 .. PGSIZE - 1
    BY <2>2
  <2>4. CASE u \in p .. v - 1
    <3>1. \A i \in 0 .. PGSIZE - 1 : u * PGSIZE + i - a \in 0 .. k - 1
                                       <=> u * PGSIZE + i - a \in 0 .. n - 1
      BY <1>5, <2>4
    <3>2. [i \in DOMAIN e.bytes |-> LET x == u * PGSIZE + i - a
                       IN IF x \in 0 .. k - 1 THEN data[x + 1] ELSE e.bytes[i]] =
          [i \in DOMAIN e.bytes |-> LET x == u * PGSIZE + i - a
                       IN IF x \in 0 .. n - 1 THEN data[x + 1] ELSE e.bytes[i]]
      BY <2>3, <3>1, Zenon
    <3> QED
      BY <2>1, <2>4, <3>2 DEF Overwritten
  <2>5. CASE u \notin p .. v - 1
    <3>1. \A i \in 0 .. PGSIZE - 1 : u * PGSIZE + i - a \notin 0 .. k - 1
      BY <1>5, <2>5
    <3>2. Overwritten(u, e, a, data, k) = e
      BY <2>2, <3>1, OverwrittenNot
    <3> QED
      BY <2>1, <2>5, <3>2
  <2> QED
    BY <2>4, <2>5
<1>7. WrittenBelow(g, a, data, v) = [u \in DOMAIN g |->
        IF u \in p .. v - 1 THEN Overwritten(u, g[u], a, data, n) ELSE g[u]]
  BY <1>3 DEF WrittenBelow
<1>8. WrittenTo(g, a, data, k) = [u \in DOMAIN g |-> Overwritten(u, g[u], a, data, k)]
  BY DEF WrittenTo
<1> QED
  BY <1>1, <1>6, <1>7, <1>8 DEF WritesBelow

LEMMA SeenIs ==
  ASSUME NEW g, NEW x
  PROVE  /\ Readable(g, x) <=> Seen(g, Tables!PageOf(x))
         /\ Writable(g, x) <=> CanWrite(g, Tables!PageOf(x))
  BY DEF Readable, Writable, Seen, CanWrite

Unshared(a, n) == \A i \in 0 .. n - 1 : Tables!PageOf(a + i) # Tables!SHM_VA

\* copyout() writes all bytes, or those before the page at which it stops.
CopiedOut(m, s, g, a, data, n) ==
  /\ AtWork(m) /\ m.bytes = <<>>
  /\ m.ok => /\ Image(m.pte, s) = WrittenTo(g, a, data, n)
             /\ \A i \in 0 .. n - 1 : Writable(g, a + i)
  /\ ~m.ok => \E b \in 0 .. n - 1 :
       /\ b = 0 \/ (a + b) % PGSIZE = 0
       /\ \A i \in 0 .. n - 1 : i < b => Writable(g, a + i)
       /\ m.nomem \/ ~Writable(g, a + b)
       /\ Image(m.pte, s) = WrittenTo(g, a, data, b)

LEMMA CopyoutIs ==
  ASSUME NEW k, AtWork(k), k.ok, k.bytes = <<>>, NEW s \in Nat,
         Tables!RoundUp(s) <= Tables!SHM_VA, NEW g, Shows(k, s, g), IsMemory(g),
         NEW a \in Nat, NEW data, NEW n \in Nat \ {0}, n = Len(data),
         Unshared(a, n)
  PROVE  CopiedOut(Tables!Copyout(k, s, a, data), s, g, a, data, n)
<1>1. PICK loop : loop = OutLoop(s, a, data)
  OBVIOUS
<1>2. /\ loop.of = "out" /\ loop.s = s /\ loop.a = a /\ loop.data = data /\ SizeOf(loop) = n
      /\ FirstOf(loop) = Tables!PageOf(a) /\ LastOf(loop) = Tables!PageOf(a + n - 1)
  BY <1>1 DEF OutLoop, SizeOf, FirstOf, LastOf
<1>3. PICK p \in Nat, l \in Nat :
        p = Tables!PageOf(a) /\ l = Tables!PageOf(a + n - 1) /\ p <= l
  BY AccessPages
<1>4. IsAccess(loop)
  <2>1. ASSUME NEW v \in p .. l
        PROVE  v # Tables!SHM_VA
    <3>1. Before(a, n, v) \in 0 .. n - 1 /\ Tables!PageOf(a + Before(a, n, v)) = v
      BY <1>3, BeforeIn
    <3> QED
      BY <3>1 DEF Unshared
  <2> QED
    BY <1>2, <1>3, <2>1 DEF IsAccess, AccessLoops
<1>5. PICK m : m = Tables!Copyout(k, s, a, data)
  OBVIOUS
<1>6. Passes(loop, g, m, LastOf(loop))
  <2>1. n \in Int /\ n \in Nat /\ DOMAIN g \subseteq Nat
    BY DEF IsMemory
  <2>2. PICK f : /\ IsLoop(f, OutLoop(s, a, data), k, Tables!Touched(a, n))
                 /\ m = f[Len(Tables!Touched(a, n))]
    BY <1>5, <2>1, CopyoutRuns
  <2>3. IsLoop(f, loop, k, Tables!Touched(loop.a, n)) /\ Shows(k, loop.s, g)
    BY <1>1, <1>2, <2>2
  <2> QED
    BY <1>2, <1>4, <2>1, <2>2, <2>3, LoopComes
<1>7. ASSUME NEW i \in 0 .. n - 1
      PROVE  /\ Tables!PageOf(a + i) \in p .. l
             /\ Writable(g, a + i) <=> CanWrite(g, Tables!PageOf(a + i))
  BY <1>3, BytesAt, SeenIs
<1>8. CASE m.ok
  <2>1. PICK v \in Nat : v = l + 1
    BY <1>3
  <2>2. Progress(loop, g, m, v)
    BY <1>2, <1>3, <1>6, <1>8, <2>1 DEF Passes, Comes
  <2>3. /\ AtWork(m) /\ m.bytes = <<>> /\ Image(m.pte, s) = WrittenBelow(g, a, data, v)
        /\ \A u \in p .. v - 1 : CanWrite(g, u)
    BY <1>2, <1>3, <2>2 DEF Progress, Shows
  <2>4. Before(a, n, v) = n
    BY <1>3, <2>1 DEF Before
  <2>5. v \in Tables!PageOf(a) .. Tables!PageOf(a + n - 1) + 1
    BY <1>3, <2>1
  <2>6. WrittenTo(g, a, data, n) = WrittenBelow(g, a, data, v)
    <3>1. WritesBelow(g, a, data, n, v)
      BY <2>5, WrittenIs
    <3> QED
      BY <2>4, <3>1 DEF WritesBelow
  <2>7. \A i \in 0 .. n - 1 : Writable(g, a + i)
    <3>1. p .. v - 1 = p .. l
      BY <2>1
    <3> QED
      BY <1>7, <2>3, <3>1
  <2> QED
    BY <1>5, <1>8, <2>3, <2>6, <2>7 DEF CopiedOut
<1>9. CASE ~m.ok
  <2>1. PICK v \in p .. l : Progress(loop, g, m, v) /\ Stuck(loop, g, m, v)
    BY <1>2, <1>3, <1>6, <1>9 DEF Passes, Comes
  <2>2. /\ AtWork(m) /\ m.bytes = <<>> /\ Image(m.pte, s) = WrittenBelow(g, a, data, v)
        /\ \A u \in p .. v - 1 : CanWrite(g, u)
        /\ m.nomem \/ ~CanWrite(g, v)
    BY <1>2, <1>3, <2>1 DEF Progress, Shows, Stuck
  <2>3. /\ v \in Tables!PageOf(a) .. Tables!PageOf(a + n - 1) + 1
        /\ v \in Tables!PageOf(a) .. Tables!PageOf(a + n - 1)
    BY <1>3
  <2>4. PICK b : b = Before(a, n, v)
    OBVIOUS
  <2>5. /\ b \in 0 .. n - 1
        /\ b = Before(a, n, v) /\ Tables!PageOf(a + b) = v
        /\ b = 0 \/ (a + b) % PGSIZE = 0
    BY <2>3, <2>4, BeforeIn
  <2>6. \A i \in 0 .. n - 1 : i < b <=> Tables!PageOf(a + i) < v
    BY <2>3, <2>5, BeforeFacts
  <2>7. ASSUME NEW i \in 0 .. n - 1, i < b
        PROVE  Writable(g, a + i)
    <3>1. PICK u : u = Tables!PageOf(a + i)
      OBVIOUS
    <3>2. u \in p .. l /\ u < v
      BY <1>7, <2>6, <2>7, <3>1
    <3>3. u \in p .. v - 1
      BY <1>3, <3>2
    <3> QED
      BY <1>7, <2>2, <3>1, <3>3
  <2>8. m.nomem \/ ~Writable(g, a + b)
    BY <1>7, <2>2, <2>5
  <2>9. WrittenTo(g, a, data, b) = WrittenBelow(g, a, data, v)
    <3>1. WritesBelow(g, a, data, n, v)
      BY <2>3, WrittenIs
    <3> QED
      BY <2>5, <3>1 DEF WritesBelow
  <2> QED
    BY <1>5, <1>9, <2>2, <2>5, <2>7, <2>8, <2>9 DEF CopiedOut
<1> QED
  BY <1>8, <1>9

LEMMA StoreMaps ==
  ASSUME MapInv, NEW p \in TableProc, NEW a \in Addresses, NEW data \in Data, NEW left,
         Tables!Store(p, a, data, left)
  PROVE  MapInv' /\ Tables!Abstract!Next
<1>1. PICK k, m, s, g : /\ k = Tables!On(p, left) /\ m = Tables!Copyout(k, size[p], a, data)
                        /\ s = size[p] /\ g = ImageOf(p)
  OBVIOUS
<1>2. /\ Tables!Exists(p) /\ Tables!Returns(p, m, s)
      /\ Tables!Done("store", p, <<a, data>>, m)
  BY <1>1 DEF Tables!Store, Tables!Alone
<1>3. PICK n \in Nat \ {0} : n = Len(data)
  BY TablesAssumption
<1>4. a \in Nat /\ Unshared(a, n)
  BY <1>3, TablesAssumption, TopAssumption DEF Unshared
<1>5. /\ AtWork(k) /\ IsWork(k) /\ k.ok /\ k.bytes = <<>> /\ Shows(k, s, g) /\ IsSpace(k, s)
      /\ s \in Nat /\ Tables!RoundUp(s) <= Tables!SHM_VA /\ IsMemory(g)
  BY <1>1, <1>2, AccessStarts
<1>6. /\ AtWork(m) /\ m.bytes = <<>>
      /\ m.ok => /\ Image(m.pte, s) = WrittenTo(g, a, data, n)
                 /\ \A i \in 0 .. n - 1 : Writable(g, a + i)
      /\ ~m.ok => \E b \in 0 .. n - 1 :
           /\ b = 0 \/ (a + b) % PGSIZE = 0
           /\ \A i \in 0 .. n - 1 : i < b => Writable(g, a + i)
           /\ m.nomem \/ ~Writable(g, a + b)
           /\ Image(m.pte, s) = WrittenTo(g, a, data, b)
  <2>1. CopiedOut(Tables!Copyout(k, s, a, data), s, g, a, data, n)
    BY <1>3, <1>4, <1>5, CopyoutIs
  <2> QED
    BY <1>1, <2>1 DEF CopiedOut
<1>7. Touches(k, m, s)
  <2>1. Len(data) \in Int
    BY <1>3
  <2> QED
    BY <1>1, <1>4, <1>5, <2>1, CopyoutFacts
<1>8. TablesInv'
  BY <1>4, StoreKeeps DEF MapInv
<1>9. MapInv' /\ Tables!Abstract!Becomes(p, Image(m.pte, s), s)
  BY <1>1, <1>2, <1>5, <1>6, <1>7, <1>8, AccessReturns
<1>10. m.ok \in BOOLEAN /\ m.nomem \in BOOLEAN /\ (m.nomem => ~m.ok)
  BY <1>6 DEF AtWork, IsWork
<1>11. /\ \A x : Tables!Abstract!MayWrite(p, x) <=> Writable(g, x)
       /\ \A x : Tables!Abstract!Page(x) = Tables!PageOf(x)
       /\ \A b : Tables!Abstract!Written(p, a, data, b) = WrittenTo(g, a, data, b)
  BY <1>1, AccessIs
<1>12. Tables!Abstract!Store(p, a, data)
  <2>1. CASE m.ok
    <3>1. Tables!Abstract!Succeeds("store", p, <<a, data>>, <<>>)
      <4>1. m.ok = TRUE /\ m.nomem = FALSE
        BY <1>10, <2>1
      <4>2. Tables!Abstract!Succeeds("store", p, <<a, data>>, m.bytes)
        BY <1>2, <4>1, Answers
      <4> QED
        BY <1>6, <4>2
    <3>2. {j \in 0 .. n - 1 : ~Tables!Abstract!MayWrite(p, a + j)} = {}
      BY <1>6, <1>11, <2>1
    <3>3. Tables!Abstract!Becomes(p, Tables!Abstract!Written(p, a, data, n), s)
      BY <1>6, <1>9, <1>11, <2>1
    <3> QED
      BY <1>1, <1>3, <3>1, <3>2, <3>3 DEF Tables!Abstract!Store
  <2>2. CASE ~m.ok
    <3>1. PICK b \in 0 .. n - 1 :
            /\ b = 0 \/ (a + b) % PGSIZE = 0
            /\ \A i \in 0 .. n - 1 : i < b => Writable(g, a + i)
            /\ m.nomem \/ ~Writable(g, a + b)
            /\ Image(m.pte, s) = WrittenTo(g, a, data, b)
      BY <1>6, <2>2
    <3>2. PICK short \in BOOLEAN : short = m.nomem
      BY <1>10
    <3>3. Tables!Abstract!Reply("store", p, <<a, data>>, FALSE, short, <<>>)
      <4>1. m.ok = FALSE
        BY <1>10, <2>2
      <4> QED
        BY <1>2, <3>2, <4>1, Answers
    <3>4. PICK bad : bad = {j \in 0 .. n - 1 : ~Tables!Abstract!MayWrite(p, a + j)}
      OBVIOUS
    <3>5. \A j \in bad : b <= j
      BY <1>11, <3>1, <3>4
    <3>6. short \/ Tables!Abstract!Page(a + b) \in {Tables!Abstract!Page(a + j) : j \in bad}
      BY <1>11, <3>1, <3>2, <3>4
    <3>7. Tables!Abstract!Becomes(p, Tables!Abstract!Written(p, a, data, b), s)
      BY <1>9, <1>11, <3>1
    <3> QED
      BY <1>1, <1>3, <3>1, <3>3, <3>4, <3>5, <3>6, <3>7 DEF Tables!Abstract!Store
  <2> QED
    BY <2>1, <2>2
<1>13. reply'.call = "store" /\ reply'.p = p
  BY <1>2, Answers
<1> QED
  BY <1>9, <1>12, <1>13 DEF Tables!Abstract!Next, Tables!Abstract!Answered

LEMMA ReadIs ==
  ASSUME NEW g, NEW a \in Nat, NEW k \in Nat
  PROVE  /\ Len(ReadFrom(g, a, k)) = k
         /\ ReadFrom(g, a, k) = [j \in 1 .. k |-> ByteIn(g, a + j - 1)]
<1>1. PICK F : F = [j \in Nat |-> ByteIn(g, a + j - 1)]
  OBVIOUS
<1>2. ReadFrom(g, a, k) = Listed(F, k)
  BY <1>1 DEF ReadFrom
<1>3. Listed(F, k) = [j \in 1 .. k |-> ByteIn(g, a + j - 1)]
  BY <1>1 DEF Listed
<1> QED
  BY <1>2, <1>3, ListedIs

\* The pages that have been seen hold the bytes that have been read.
LEMMA ReadableBefore ==
  ASSUME NEW g, NEW a \in Nat, NEW n \in Nat \ {0}, NEW b,
         NEW v \in Tables!PageOf(a) .. Tables!PageOf(a + n - 1) + 1, b = Before(a, n, v),
         \A u \in Tables!PageOf(a) .. v - 1 : Seen(g, u)
  PROVE  b \in 0 .. n /\ \A i \in 0 .. n - 1 : i < b => Readable(g, a + i)
<1>1. /\ b \in 0 .. n
      /\ \A i \in 0 .. n - 1 : i < b <=> Tables!PageOf(a + i) < v
  BY BeforeFacts
<1>2. PICK p \in Nat, l \in Nat :
        p = Tables!PageOf(a) /\ l = Tables!PageOf(a + n - 1) /\ p <= l
  BY AccessPages
<1>3. ASSUME NEW i \in 0 .. n - 1, i < b
      PROVE  Readable(g, a + i)
  <2>1. PICK u : u = Tables!PageOf(a + i)
    OBVIOUS
  <2>2. u \in p .. l /\ u < v
    BY <1>1, <1>2, <1>3, <2>1, BytesAt
  <2>3. u \in p .. v - 1
    BY <1>2, <2>2
  <2>4. Seen(g, u)
    BY <1>2, <2>3
  <2> QED
    BY <2>1, <2>4, SeenIs
<1> QED
  BY <1>1, <1>3

\* copyin() reads all bytes or fails.
CopiedIn(m, s, g, a, n) ==
  /\ AtWork(m) /\ Shows(m, s, g)
  /\ m.ok => m.bytes = ReadFrom(g, a, n) /\ \A i \in 0 .. n - 1 : Readable(g, a + i)
  /\ ~m.ok => m.nomem \/ \E i \in 0 .. n - 1 : ~Readable(g, a + i)

LEMMA CopyinIs ==
  ASSUME NEW k, AtWork(k), k.ok, k.bytes = <<>>, NEW s \in Nat,
         Tables!RoundUp(s) <= Tables!SHM_VA, NEW g, Shows(k, s, g), IsMemory(g),
         NEW a \in Nat, NEW n \in Nat \ {0}
  PROVE  CopiedIn(Tables!Copyin(k, s, a, n), s, g, a, n)
<1>1. PICK loop : loop = InLoop(s, a, n)
  OBVIOUS
<1>2. /\ loop.of = "in" /\ loop.s = s /\ loop.a = a /\ loop.n = n /\ SizeOf(loop) = n
      /\ FirstOf(loop) = Tables!PageOf(a) /\ LastOf(loop) = Tables!PageOf(a + n - 1)
  BY <1>1 DEF InLoop, SizeOf, FirstOf, LastOf
<1>3. PICK p \in Nat, l \in Nat :
        p = Tables!PageOf(a) /\ l = Tables!PageOf(a + n - 1) /\ p <= l
  BY AccessPages
<1>4. IsAccess(loop)
  BY <1>2 DEF IsAccess, AccessLoops
<1>5. PICK m : m = Tables!Copyin(k, s, a, n)
  OBVIOUS
<1>6. Passes(loop, g, m, LastOf(loop))
  <2>1. n \in Int /\ n \in Nat /\ DOMAIN g \subseteq Nat
    BY DEF IsMemory
  <2>2. PICK f : /\ IsLoop(f, InLoop(s, a, n), k, Tables!Touched(a, n))
                 /\ m = f[Len(Tables!Touched(a, n))]
    BY <1>5, <2>1, CopyinRuns
  <2>3. IsLoop(f, loop, k, Tables!Touched(loop.a, n)) /\ Shows(k, loop.s, g)
    BY <1>1, <1>2, <2>2
  <2> QED
    BY <1>2, <1>4, <2>1, <2>2, <2>3, LoopComes
<1>7. CASE m.ok
  <2>1. PICK v \in Nat : v = l + 1
    BY <1>3
  <2>2. Progress(loop, g, m, v)
    BY <1>2, <1>3, <1>6, <1>7, <2>1 DEF Passes, Comes
  <2>3. /\ AtWork(m) /\ Shows(m, s, g) /\ m.bytes = ReadFrom(g, a, Before(a, n, v))
        /\ \A u \in p .. v - 1 : Seen(g, u)
    BY <1>2, <1>3, <2>2 DEF Progress, HasRead
  <2>4. Before(a, n, v) = n
    BY <1>3, <2>1 DEF Before
  <2>5. v \in Tables!PageOf(a) .. Tables!PageOf(a + n - 1) + 1
    BY <1>3, <2>1
  <2>6. \A i \in 0 .. n - 1 : i < n => Readable(g, a + i)
    BY <1>3, <2>3, <2>4, <2>5, ReadableBefore
  <2>7. \A i \in 0 .. n - 1 : Readable(g, a + i)
    BY <2>6
  <2>8. m.bytes = ReadFrom(g, a, n)
    BY <2>3, <2>4
  <2> QED
    BY <1>5, <1>7, <2>3, <2>7, <2>8 DEF CopiedIn
<1>8. CASE ~m.ok
  <2>1. PICK v \in p .. l : Progress(loop, g, m, v) /\ Stuck(loop, g, m, v)
    BY <1>2, <1>3, <1>6, <1>8 DEF Passes, Comes
  <2>2. /\ AtWork(m) /\ Shows(m, s, g)
        /\ m.nomem \/ ~Seen(g, v)
    BY <1>2, <1>3, <2>1 DEF Progress, Stuck
  <2>3. v \in Tables!PageOf(a) .. Tables!PageOf(a + n - 1)
    BY <1>3
  <2>4. PICK b : b = Before(a, n, v)
    OBVIOUS
  <2>5. b \in 0 .. n - 1 /\ Tables!PageOf(a + b) = v
    BY <2>3, <2>4, BeforeIn
  <2>6. m.nomem \/ ~Readable(g, a + b)
    BY <2>2, <2>5, SeenIs
  <2> QED
    BY <1>5, <1>8, <2>2, <2>5, <2>6 DEF CopiedIn
<1> QED
  BY <1>7, <1>8

\* A string that ends has a first zero.
LEMMA EndIs ==
  ASSUME NEW t, NEW n \in Nat, Len(t) = n, Tables!Terminated(t)
  PROVE  /\ EndOf(t) \in 1 .. n /\ t[EndOf(t)] = 0
         /\ \A j \in 1 .. EndOf(t) - 1 : t[j] # 0
<1> DEFINE Without == {i \in 0 .. n : \A j \in 1 .. i : t[j] # 0}
           IsEnd(i) == t[i] = 0 /\ \A j \in 1 .. i - 1 : t[j] # 0
<1>1. \E i \in 1 .. n : IsEnd(i)
  <2>1. SUFFICES ASSUME \A i \in 1 .. n : ~IsEnd(i)
                 PROVE  FALSE
    OBVIOUS
  <2>2. 0 \in Without
    OBVIOUS
  <2>3. ASSUME NEW i \in 1 .. n, i - 1 \in Without
        PROVE  i \in Without
    <3>1. \A j \in 1 .. i - 1 : t[j] # 0
      BY <2>3
    <3>2. t[i] # 0
      BY <2>1, <3>1
    <3>3. \A j \in 1 .. i : j = i \/ j \in 1 .. i - 1
      OBVIOUS
    <3> QED
      BY <3>1, <3>2, <3>3
  <2>4. Without \in SUBSET (0 .. n)
    OBVIOUS
  <2> HIDE DEF Without
  <2>5. n \in Without
    BY <2>2, <2>3, <2>4, Arrives
  <2> QED
    BY <2>5 DEF Without, Tables!Terminated
<1>2. EndOf(t) = CHOOSE i \in 1 .. n : IsEnd(i)
  BY DEF EndOf
<1>3. EndOf(t) \in 1 .. n /\ IsEnd(EndOf(t))
  BY <1>1, <1>2, Zenon
<1> QED
  BY <1>3

\* A string that ends, as far as it is read, after e bytes.
EndsAfter(g, a, e) ==
  /\ ByteIn(g, a + e - 1) = 0
  /\ \A i \in 0 .. e - 1 : Readable(g, a + i)

\* copyinstr() reads a string up to its end or fails.
CopiedString(m, s, g, a, n) ==
  /\ AtWork(m) /\ Shows(m, s, g)
  /\ m.ok => \E e \in 1 .. n : /\ m.bytes = ReadFrom(g, a, e) /\ EndsAfter(g, a, e)
                               /\ \A j \in 1 .. n : EndsAfter(g, a, j) => e <= j
  /\ ~m.ok => m.nomem \/ \A j \in 1 .. n : ~EndsAfter(g, a, j)

LEMMA CopyinstrIs ==
  ASSUME NEW k, AtWork(k), k.ok, k.bytes = <<>>, NEW s \in Nat,
         Tables!RoundUp(s) <= Tables!SHM_VA, NEW g, Shows(k, s, g), IsMemory(g),
         NEW a \in Nat, NEW n \in Nat \ {0}
  PROVE  CopiedString(Tables!Copyinstr(k, s, a, n), s, g, a, n)
<1>1. PICK loop : loop = StringLoop(s, a, n)
  OBVIOUS
<1>2. /\ loop.of = "string" /\ loop.s = s /\ loop.a = a /\ loop.n = n /\ SizeOf(loop) = n
      /\ FirstOf(loop) = Tables!PageOf(a) /\ LastOf(loop) = Tables!PageOf(a + n - 1)
  BY <1>1 DEF StringLoop, SizeOf, FirstOf, LastOf
<1>3. PICK p \in Nat, l \in Nat :
        p = Tables!PageOf(a) /\ l = Tables!PageOf(a + n - 1) /\ p <= l
  BY AccessPages
<1>4. IsAccess(loop)
  BY <1>2 DEF IsAccess, AccessLoops
<1>5. PICK m : m = Tables!Copyinstr(k, s, a, n)
  OBVIOUS
<1>6. PICK r : Passes(loop, g, r, LastOf(loop)) /\ m = AtEnd(r)
  <2>1. n \in Int /\ n \in Nat /\ DOMAIN g \subseteq Nat
    BY DEF IsMemory
  <2>2. PICK f : /\ IsLoop(f, StringLoop(s, a, n), k, Tables!Touched(a, n))
                 /\ m = AtEnd(f[Len(Tables!Touched(a, n))])
    BY <1>5, <2>1, CopyinstrRuns
  <2>3. IsLoop(f, loop, k, Tables!Touched(loop.a, n)) /\ Shows(k, loop.s, g)
    BY <1>1, <1>2, <2>2
  <2>4. Passes(loop, g, f[Len(Tables!Touched(loop.a, n))], LastOf(loop))
    BY <1>2, <1>4, <2>1, <2>3, LoopComes
  <2> QED
    BY <1>2, <2>2, <2>4
<1>7. CASE r.ok
  <2>1. PICK v \in Nat : v = l + 1
    BY <1>3
  <2>2. Progress(loop, g, r, v)
    BY <1>2, <1>3, <1>6, <1>7, <2>1 DEF Passes, Comes
  <2>3. PICK w \in p .. v :
          /\ AtWork(r) /\ Shows(r, s, g) /\ r.bytes = ReadFrom(g, a, Before(a, n, w))
          /\ \A u \in p .. w - 1 : Seen(g, u)
          /\ w = v \/ Tables!Terminated(r.bytes)
    BY <1>2, <1>3, <2>2 DEF Progress, HasRead
  <2>4. w \in Tables!PageOf(a) .. Tables!PageOf(a + n - 1) + 1
    BY <1>3, <2>1
  <2>5. PICK b : b = Before(a, n, w)
    OBVIOUS
  <2>6. b \in 0 .. n /\ \A i \in 0 .. n - 1 : i < b => Readable(g, a + i)
    BY <1>3, <2>3, <2>4, <2>5, ReadableBefore
  <2>7. b \in Nat /\ r.bytes = ReadFrom(g, a, b)
    BY <2>3, <2>5, <2>6
  <2>8. /\ Len(r.bytes) = b
        /\ r.bytes = [j \in 1 .. b |-> ByteIn(g, a + j - 1)]
    BY <2>7, ReadIs
  <2>9. CASE Tables!Terminated(r.bytes)
    <3>1. PICK e : e = EndOf(r.bytes)
      OBVIOUS
    <3>2. e \in 1 .. b /\ r.bytes[e] = 0 /\ \A j \in 1 .. e - 1 : r.bytes[j] # 0
      BY <2>7, <2>8, <2>9, <3>1, EndIs
    <3>3. PICK new : new = SubSeq(r.bytes, 1, e)
      OBVIOUS
    <3>4. m = [r EXCEPT !.bytes = new]
      BY <1>6, <1>7, <2>9, <3>1, <3>3 DEF AtEnd
    <3>5. new = ReadFrom(g, a, e)
      BY <2>7, <3>2, <3>3, ListedFirst DEF ReadFrom
    <3>6. /\ m = [tables |-> r.tables, pte |-> r.pte, used |-> r.used, left |-> r.left,
                  ok |-> r.ok, nomem |-> r.nomem, panic |-> r.panic, bytes |-> new]
      BY <2>3, <3>4 DEF AtWork, IsWork
    <3>7. m.pte = r.pte /\ m.ok = r.ok /\ m.nomem = r.nomem /\ m.bytes = new
      BY <3>6
    <3>8. IsWork(m)
      BY <2>3, <3>4, BytesTouch DEF AtWork, Touches
    <3>9. AtWork(m) /\ Shows(m, s, g)
      BY <2>3, <3>7, <3>8 DEF AtWork, HasPages, Mapped, Shows
    <3>10. e \in 1 .. n /\ \A i \in 0 .. e - 1 : i \in 0 .. n - 1 /\ i < b
      BY <2>6, <3>2
    <3>11. EndsAfter(g, a, e)
      BY <2>6, <2>8, <3>2, <3>10 DEF EndsAfter
    <3>12. ASSUME NEW j \in 1 .. n, EndsAfter(g, a, j)
           PROVE  e <= j
      <4>1. SUFFICES ASSUME j < e PROVE FALSE
        BY <3>10
      <4>0. e \in 1 .. b
        BY <3>2
      <4>2. j \in 1 .. e - 1 /\ j \in 1 .. b
        BY <2>7, <4>0, <4>1
      <4>3. r.bytes[j] # 0 /\ r.bytes[j] = ByteIn(g, a + j - 1)
        BY <2>8, <3>2, <4>2
      <4> QED
        BY <3>12, <4>3 DEF EndsAfter
    <3> QED
      BY <1>5, <1>7, <3>5, <3>7, <3>9, <3>10, <3>11, <3>12 DEF CopiedString
  <2>10. CASE ~Tables!Terminated(r.bytes)
    <3>1. m = Tables!Fail(r)
      BY <1>6, <1>7, <2>10 DEF AtEnd
    <3>2. m.ok = FALSE /\ m.pte = r.pte /\ m.nomem = r.nomem
      BY <2>3, <3>1, FailIs DEF AtWork
    <3>3. IsWork(m)
      BY <2>3, <3>1, FailTouches DEF AtWork, Touches
    <3>4. AtWork(m) /\ Shows(m, s, g)
      BY <2>3, <3>2, <3>3 DEF AtWork, HasPages, Mapped, Shows
    <3>5. b = n
      BY <1>3, <2>1, <2>3, <2>5, <2>10 DEF Before
    <3>6. ASSUME NEW j \in 1 .. n
          PROVE  ~EndsAfter(g, a, j)
      <4>1. r.bytes[j] = ByteIn(g, a + j - 1)
        BY <2>8, <3>5
      <4>2. r.bytes[j] # 0
        BY <2>8, <2>10, <3>5 DEF Tables!Terminated
      <4> QED
        BY <4>1, <4>2 DEF EndsAfter
    <3> QED
      BY <1>5, <3>2, <3>4, <3>6 DEF CopiedString
  <2> QED
    BY <2>9, <2>10
<1>8. CASE ~r.ok
  <2>0. m = r
    BY <1>6, <1>8 DEF AtEnd
  <2>1. PICK v \in p .. l : Progress(loop, g, r, v) /\ Stuck(loop, g, r, v)
    BY <1>2, <1>3, <1>6, <1>8 DEF Passes, Comes
  <2>2. /\ AtWork(r) /\ Shows(r, s, g)
        /\ r.nomem \/ ~Seen(g, v)
        /\ ~Tables!Terminated(r.bytes) /\ r.bytes = ReadFrom(g, a, Before(a, n, v))
    BY <1>2, <1>3, <2>1 DEF Progress, Stuck, HasRead
  <2>3. v \in Tables!PageOf(a) .. Tables!PageOf(a + n - 1)
    BY <1>3
  <2>4. PICK b : b = Before(a, n, v)
    OBVIOUS
  <2>5. b \in 0 .. n - 1 /\ Tables!PageOf(a + b) = v /\ b \in Nat
    BY <2>3, <2>4, BeforeIn
  <2>6. /\ Len(r.bytes) = b /\ r.bytes = [j \in 1 .. b |-> ByteIn(g, a + j - 1)]
    BY <2>2, <2>4, <2>5, ReadIs
  <2>7. ASSUME ~r.nomem, NEW j \in 1 .. n, EndsAfter(g, a, j)
        PROVE  FALSE
    <3>1. ~Readable(g, a + b)
      BY <2>2, <2>5, <2>7, SeenIs
    <3>2. b \notin 0 .. j - 1
      BY <2>7, <3>1 DEF EndsAfter
    <3>3. j \in 1 .. b
      BY <2>5, <3>2
    <3>4. r.bytes[j] = ByteIn(g, a + j - 1) /\ r.bytes[j] # 0
      BY <2>2, <2>6, <3>3 DEF Tables!Terminated
    <3> QED
      BY <2>7, <3>4 DEF EndsAfter
  <2> QED
    BY <1>5, <1>8, <2>0, <2>2, <2>7 DEF CopiedString
<1> QED
  BY <1>7, <1>8

IsLegal(p, a, n) == \A x \in a .. a + n - 1 : Tables!Abstract!MayRead(p, x)
AllReadable(g, a, n) == \A i \in 0 .. n - 1 : Readable(g, a + i)

LEMMA LegalIs ==
  ASSUME NEW p \in TableProc, NEW g, g = ImageOf(p), NEW a \in Nat, NEW n \in Nat
  PROVE  IsLegal(p, a, n) <=> AllReadable(g, a, n)
<1>1. \A x : Tables!Abstract!MayRead(p, x) <=> Readable(g, x)
  BY AccessIs
<1>2. ASSUME \A x \in a .. a + n - 1 : Tables!Abstract!MayRead(p, x), NEW i \in 0 .. n - 1
      PROVE  Readable(g, a + i)
  <2>1. a + i \in a .. a + n - 1
    OBVIOUS
  <2> QED
    BY <1>1, <1>2, <2>1
<1>3. ASSUME \A i \in 0 .. n - 1 : Readable(g, a + i), NEW x \in a .. a + n - 1
      PROVE  Tables!Abstract!MayRead(p, x)
  <2>1. PICK i \in 0 .. n - 1 : x = a + i
    <3>1. x - a \in 0 .. n - 1 /\ x = a + (x - a)
      OBVIOUS
    <3> QED
      BY <3>1
  <2> QED
    BY <1>1, <1>3, <2>1
<1> QED
  BY <1>2, <1>3 DEF IsLegal, AllReadable

LEMMA BytesAre ==
  ASSUME NEW p \in TableProc, NEW g, g = ImageOf(p), NEW a \in Nat, NEW n \in Nat
  PROVE  ReadFrom(g, a, n) = [i \in 1 .. n |-> Tables!Abstract!Byte(p, a + i - 1)]
<1>1. \A x : Tables!Abstract!Byte(p, x) = ByteIn(g, x)
  BY AccessIs
<1> QED
  BY <1>1, ReadIs

LEMMA ReadsIs ==
  ASSUME NEW p \in TableProc, NEW m, NEW g, g = ImageOf(p), NEW s, NEW a \in Nat,
         NEW n \in Nat \ {0}, CopiedIn(m, s, g, a, n), NEW call, NEW args,
         Tables!Done(call, p, args, m), Tables!Abstract!Same
  PROVE  Tables!Abstract!Reads(call, p, args, a, n)
<1>1. m.ok \in BOOLEAN /\ m.nomem \in BOOLEAN /\ (m.nomem => ~m.ok)
  BY DEF CopiedIn, AtWork, IsWork
<1>2. IsLegal(p, a, n) <=> AllReadable(g, a, n)
  BY LegalIs
<1>3. CASE m.ok = TRUE
  <2>1. /\ m.bytes = [i \in 1 .. n |-> Tables!Abstract!Byte(p, a + i - 1)]
        /\ IsLegal(p, a, n)
    <3>1. m.bytes = ReadFrom(g, a, n) /\ AllReadable(g, a, n)
      BY <1>3 DEF CopiedIn, AllReadable
    <3> QED
      BY <1>2, <3>1, BytesAre
  <2>2. Tables!Abstract!Succeeds(call, p, args, m.bytes) /\ reply'.call = call
    BY <1>1, <1>3, Answers
  <2> QED
    BY <2>1, <2>2 DEF Tables!Abstract!Reads, IsLegal
<1>4. CASE m.ok = FALSE
  <2>1. /\ m.nomem = TRUE => Tables!Abstract!RunsShort(call, p, args)
        /\ m.nomem = FALSE => Tables!Abstract!Refused(call, p, args)
    BY <1>4, Failures
  <2>2. m.nomem = FALSE => ~IsLegal(p, a, n)
    BY <1>2, <1>4 DEF CopiedIn, AllReadable
  <2> QED
    BY <1>1, <2>1, <2>2 DEF Tables!Abstract!Reads, IsLegal
<1> QED
  BY <1>1, <1>3, <1>4

LEMMA LoadMaps ==
  ASSUME MapInv, NEW p \in TableProc, NEW a \in Addresses, NEW data \in Data, NEW left,
         Tables!Load(p, a, Len(data), left)
  PROVE  MapInv' /\ Tables!Abstract!Next
<1>1. PICK n \in Nat \ {0} : n = Len(data)
  BY TablesAssumption
<1>2. PICK k, m, s, g : /\ k = Tables!On(p, left) /\ m = Tables!Copyin(k, size[p], a, n)
                        /\ s = size[p] /\ g = ImageOf(p)
  OBVIOUS
<1>3. /\ Tables!Exists(p) /\ Tables!Returns(p, m, s)
      /\ Tables!Done("load", p, <<a, n>>, m)
  BY <1>1, <1>2 DEF Tables!Load, Tables!Alone
<1>4. a \in Nat
  BY TablesAssumption
<1>5. /\ AtWork(k) /\ IsWork(k) /\ k.ok /\ k.bytes = <<>> /\ Shows(k, s, g) /\ IsSpace(k, s)
      /\ s \in Nat /\ Tables!RoundUp(s) <= Tables!SHM_VA /\ IsMemory(g)
  BY <1>2, <1>3, AccessStarts
<1>6. CopiedIn(m, s, g, a, n)
  <2>1. CopiedIn(Tables!Copyin(k, s, a, n), s, g, a, n)
    BY <1>4, <1>5, CopyinIs
  <2> QED
    BY <1>2, <2>1
<1>7. Touches(k, m, s)
  <2>1. n \in Int
    OBVIOUS
  <2> QED
    BY <1>2, <1>4, <1>5, <2>1, CopyinFacts
<1>8. TablesInv'
  <2>1. n \in Int /\ Tables!Load(p, a, n, left)
    BY <1>1
  <2> QED
    BY <1>4, <2>1, LoadKeeps DEF MapInv
<1>9. MapInv' /\ Tables!Abstract!Same
  BY <1>2, <1>3, <1>5, <1>6, <1>7, <1>8, AccessReturns DEF CopiedIn
<1>10. Tables!Abstract!Reads("load", p, <<a, n>>, a, n)
  BY <1>2, <1>3, <1>4, <1>6, <1>9, ReadsIs
<1>11. Tables!Abstract!Load(p, a, Len(data))
  BY <1>1, <1>10 DEF Tables!Abstract!Load
<1>12. reply'.call = "load" /\ reply'.p = p
  BY <1>3, Answers
<1> QED
  BY <1>9, <1>11, <1>12 DEF Tables!Abstract!Next, Tables!Abstract!Answered

LEMMA FetchaddrMaps ==
  ASSUME MapInv, NEW p \in TableProc, NEW a \in Addresses, NEW left,
         Tables!Fetchaddr(p, a, left)
  PROVE  MapInv' /\ Tables!Abstract!Next
<1>1. PICK k, s, g : k = Tables!On(p, left) /\ s = size[p] /\ g = ImageOf(p)
  OBVIOUS
<1>2. PICK m : m = IF a >= s \/ a + WORD > s THEN Tables!Fail(k)
                   ELSE Tables!Copyin(k, s, a, WORD)
  OBVIOUS
<1>3. /\ Tables!Exists(p) /\ Tables!Returns(p, m, s)
      /\ Tables!Done("word", p, <<a>>, m)
  BY <1>1, <1>2 DEF Tables!Fetchaddr, Tables!Alone
<1>4. a \in Nat /\ WORD \in Nat \ {0}
  BY TablesAssumption
<1>5. /\ AtWork(k) /\ IsWork(k) /\ k.ok /\ k.nomem = FALSE /\ k.bytes = <<>>
      /\ Shows(k, s, g) /\ IsSpace(k, s)
      /\ s \in Nat /\ Tables!RoundUp(s) <= Tables!SHM_VA /\ IsMemory(g)
  BY <1>1, <1>3, AccessStarts
<1>6. TablesInv'
  BY <1>4, FetchaddrKeeps DEF MapInv
<1>7. reply'.call = "word" /\ reply'.p = p
  BY <1>3, Answers
<1>8. CASE a + WORD > s
  <2>1. m = Tables!Fail(k)
    BY <1>2, <1>8
  <2>2. m.ok = FALSE /\ m.pte = k.pte /\ m.nomem = FALSE
    BY <1>5, <2>1, FailIs
  <2>3. Touches(k, m, s)
    BY <1>5, <2>1, FailTouches
  <2>4. AtWork(m) /\ Shows(m, s, g)
    BY <1>5, <2>2, <2>3 DEF AtWork, HasPages, Mapped, Shows, Touches
  <2>5. MapInv' /\ Tables!Abstract!Same
    BY <1>1, <1>3, <1>5, <1>6, <2>3, <2>4, AccessReturns
  <2>6. Tables!Abstract!Refused("word", p, <<a>>)
    BY <1>3, <2>2, <2>5, Failures
  <2>7. Tables!Abstract!Word(p, a)
    BY <1>1, <1>8, <2>6 DEF Tables!Abstract!Word
  <2> QED
    BY <1>7, <2>5, <2>7 DEF Tables!Abstract!Next, Tables!Abstract!Answered
<1>9. CASE ~(a + WORD > s)
  <2>1. m = Tables!Copyin(k, s, a, WORD)
    BY <1>2, <1>4, <1>5, <1>9
  <2>2. CopiedIn(m, s, g, a, WORD)
    BY <1>4, <1>5, <2>1, CopyinIs
  <2>3. Touches(k, m, s)
    <3>1. WORD \in Int
      BY <1>4
    <3> QED
      BY <1>4, <1>5, <2>1, <3>1, CopyinFacts
  <2>4. MapInv' /\ Tables!Abstract!Same
    BY <1>1, <1>3, <1>5, <1>6, <2>2, <2>3, AccessReturns DEF CopiedIn
  <2>5. Tables!Abstract!Reads("word", p, <<a>>, a, WORD)
    BY <1>1, <1>3, <1>4, <2>2, <2>4, ReadsIs
  <2>6. a + WORD <= s
    BY <1>4, <1>5, <1>9
  <2>7. Tables!Abstract!Word(p, a)
    BY <1>1, <2>5, <2>6 DEF Tables!Abstract!Word
  <2> QED
    BY <1>7, <2>4, <2>7 DEF Tables!Abstract!Next, Tables!Abstract!Answered
<1> QED
  BY <1>8, <1>9

LEMMA FetchstrMaps ==
  ASSUME MapInv, NEW p \in TableProc, NEW a \in Addresses, NEW data \in Data, NEW left,
         Tables!Fetchstr(p, a, Len(data), left)
  PROVE  MapInv' /\ Tables!Abstract!Next
<1>1. PICK n \in Nat \ {0} : n = Len(data)
  BY TablesAssumption
<1>2. PICK k, m, s, g : /\ k = Tables!On(p, left) /\ m = Tables!Copyinstr(k, size[p], a, n)
                        /\ s = size[p] /\ g = ImageOf(p)
  OBVIOUS
<1>3. /\ Tables!Exists(p) /\ Tables!Returns(p, m, s)
      /\ Tables!Done("string", p, <<a, n>>, m)
  BY <1>1, <1>2 DEF Tables!Fetchstr, Tables!Alone
<1>4. a \in Nat
  BY TablesAssumption
<1>5. /\ AtWork(k) /\ IsWork(k) /\ k.ok /\ k.bytes = <<>> /\ Shows(k, s, g) /\ IsSpace(k, s)
      /\ s \in Nat /\ Tables!RoundUp(s) <= Tables!SHM_VA /\ IsMemory(g)
  BY <1>2, <1>3, AccessStarts
<1>6. CopiedString(m, s, g, a, n)
  <2>1. CopiedString(Tables!Copyinstr(k, s, a, n), s, g, a, n)
    BY <1>4, <1>5, CopyinstrIs
  <2> QED
    BY <1>2, <2>1
<1>7. Touches(k, m, s)
  <2>1. n \in Int
    OBVIOUS
  <2> QED
    BY <1>2, <1>4, <1>5, <2>1, CopyinstrFacts
<1>8. TablesInv'
  <2>1. n \in Int /\ Tables!Fetchstr(p, a, n, left)
    BY <1>1
  <2> QED
    BY <1>4, <2>1, FetchstrKeeps DEF MapInv
<1>9. MapInv' /\ Tables!Abstract!Same
  BY <1>2, <1>3, <1>5, <1>6, <1>7, <1>8, AccessReturns DEF CopiedString
<1>10. m.ok \in BOOLEAN /\ m.nomem \in BOOLEAN /\ (m.nomem => ~m.ok)
  BY <1>6 DEF CopiedString, AtWork, IsWork
<1>11. PICK ends : ends = {j \in 1 .. n :
            /\ \A x \in a .. a + j - 1 : Tables!Abstract!MayRead(p, x)
            /\ Tables!Abstract!Byte(p, a + j - 1) = 0}
  OBVIOUS
<1>12. \A j \in 1 .. n : j \in ends <=> EndsAfter(g, a, j)
  <2>1. TAKE j \in 1 .. n
  <2>2. IsLegal(p, a, j) <=> AllReadable(g, a, j)
    <3>1. j \in Nat
      OBVIOUS
    <3> QED
      BY <1>2, <1>4, <3>1, LegalIs
  <2>3. Tables!Abstract!Byte(p, a + j - 1) = ByteIn(g, a + j - 1)
    BY <1>2, AccessIs
  <2> QED
    BY <1>11, <2>2, <2>3 DEF EndsAfter, IsLegal, AllReadable
<1>13. Tables!Abstract!String(p, a, n)
  <2>1. CASE m.ok = TRUE
    <3>1. PICK e \in 1 .. n : /\ m.bytes = ReadFrom(g, a, e) /\ EndsAfter(g, a, e)
                              /\ \A j \in 1 .. n : EndsAfter(g, a, j) => e <= j
      BY <1>6, <2>1 DEF CopiedString
    <3>2. e \in ends /\ \A j \in ends : e <= j
      BY <1>11, <1>12, <3>1
    <3>3. m.bytes = [i \in 1 .. e |-> Tables!Abstract!Byte(p, a + i - 1)]
      BY <1>2, <1>4, <3>1, BytesAre, SMTT(20)
    <3>4. Tables!Abstract!Succeeds("string", p, <<a, n>>, m.bytes)
      BY <1>3, <1>10, <2>1, Answers
    <3>5. reply'.call = "string" /\ reply'.ok = TRUE
      BY <1>3, <2>1, Answers
    <3>6. \A x \in a .. a + e - 1 : Tables!Abstract!MayRead(p, x)
      BY <1>11, <3>2
    <3>7. Tables!Abstract!Reads("string", p, <<a, n>>, a, e)
      BY <1>9, <3>3, <3>4, <3>5, <3>6 DEF Tables!Abstract!Reads
    <3> QED
      BY <1>11, <3>2, <3>5, <3>7 DEF Tables!Abstract!String
  <2>2. CASE m.ok = FALSE
    <3>1. /\ m.nomem = TRUE => Tables!Abstract!RunsShort("string", p, <<a, n>>)
          /\ m.nomem = FALSE => Tables!Abstract!Refused("string", p, <<a, n>>)
      BY <1>3, <1>9, <2>2, Failures
    <3>2. m.nomem = FALSE => ends = {}
      BY <1>6, <1>11, <1>12, <2>2 DEF CopiedString
    <3> QED
      BY <1>10, <1>11, <3>1, <3>2 DEF Tables!Abstract!String
  <2> QED
    BY <1>10, <2>1, <2>2
<1>14. Tables!Abstract!String(p, a, Len(data))
  BY <1>1, <1>13
<1>15. reply'.call = "string" /\ reply'.p = p
  BY <1>3, Answers
<1> QED
  BY <1>9, <1>14, <1>15 DEF Tables!Abstract!Next, Tables!Abstract!Answered

LEMMA MapStarts ==
  ASSUME ImagesBelowShm, Tables!Init
  PROVE  MapInv /\ Tables!Abstract!Init
<1>1. PICK k : k = Tables!Work(Tables!NoTable, 0, MaxPages)
  OBVIOUS
<1>2. PICK m : m = Tables!Allocproc(k)
  OBVIOUS
<1>3. PICK t : t = Tables!Table(m)
  OBVIOUS
<1>4. PICK p \in TableProc :
        /\ pagetable = [q \in TableProc |-> IF q = p THEN t ELSE Tables!NoTable]
        /\ size = [q \in TableProc |-> 0] /\ reply = Tables!Nothing
  BY <1>1, <1>2, <1>3 DEF Tables!Init
<1>5. IsWork(k) /\ k.ok /\ IsEmpty(k) /\ OnlyShort(k)
  <2>1. /\ IsWork(k) /\ k.ok
        /\ k.tables = Tables!NoTable.tables /\ k.pte = Tables!NoTable.pte
    BY <1>1, NoTableFacts, WorkFacts
  <2>2. k.ok = TRUE /\ k.nomem = FALSE
    BY <1>1 DEF Tables!Work
  <2> QED
    BY <2>1, <2>2, NoTableFacts DEF IsEmpty, OnlyShort
<1>6. /\ IsWork(m) /\ (m.ok => HasPages(m) /\ Mapped(m) = KernelPages)
      /\ ~m.ok => IsEmpty(m)
  BY <1>2, <1>5, AllocprocFacts, AllocprocPages DEF Made
<1>7. /\ t.pte = m.pte /\ t.tables = m.tables
  BY <1>3 DEF Tables!Table
<1>8. HasPages(t) /\ Image(t.pte, 0) = Tables!Abstract!Nothing
  <2>1. CASE m.ok
    <3>1. IsTable(m) /\ HasPages(m) /\ Mapped(m) = KernelPages
      BY <1>6, <2>1 DEF IsWork
    <3>2. Visible(m.pte) = {}
      BY <3>1, VisibleIs
    <3>3. Image(m.pte, 0) = Tables!Abstract!Nothing
      BY <3>2, NoHeap DEF Image, Tables!Abstract!Nothing
    <3> QED
      BY <1>7, <3>1, <3>3 DEF HasPages, Mapped
  <2>2. CASE ~m.ok
    <3>1. IsEmpty(t)
      BY <1>6, <1>7, <2>2 DEF IsEmpty
    <3> QED
      BY <3>1, NothingIs
  <2> QED
    BY <2>1, <2>2
<1>9. ASSUME NEW q \in TableProc
      PROVE  /\ HasPages(pagetable[q]) /\ ImageOf(q) = Tables!Abstract!Nothing
             /\ size[q] = 0
  <2>1. CASE q = p
    <3>1. pagetable[q] = t /\ size[q] = 0
      BY <1>4, <2>1
    <3> QED
      BY <1>8, <3>1 DEF ImageOf
  <2>2. CASE q # p
    <3>1. pagetable[q] = Tables!NoTable /\ size[q] = 0
      BY <1>4, <2>2
    <3>2. IsEmpty(Tables!NoTable)
      BY NoTableFacts
    <3>3. Image(Tables!NoTable.pte, 0) = Tables!Abstract!Nothing /\ HasPages(Tables!NoTable)
      BY <3>2, NothingIs
    <3> QED
      BY <3>1, <3>3 DEF ImageOf
  <2> QED
    BY <2>1, <2>2
<1>10. MapInv
  BY <1>9, TablesStart DEF MapInv
<1>11. [q \in TableProc |-> Tables!View(q)] = [q \in TableProc |-> Tables!Abstract!Nothing]
  BY <1>9, ViewIs
<1> QED
  BY <1>4, <1>10, <1>11 DEF Tables!Abstract!Init, Tables!Nothing

LEMMA CallMaps ==
  ASSUME ImagesBelowShm, MapInv, NEW p \in TableProc, NEW left, Tables!Call(p, left)
  PROVE  MapInv' /\ Tables!Abstract!Next
<1>1. CASE Tables!ShmGet(p, left)
  BY <1>1, ShmGetMaps
<1>2. CASE \E n \in Amounts : Tables!SbrkGrow(p, n, left)
  BY <1>2, GrowMaps
<1>3. ASSUME NEW a \in Addresses, Tables!PageFault(p, a, left)
      PROVE  MapInv' /\ Tables!Abstract!Next
  BY <1>3, PageFaultMaps
<1>4. ASSUME NEW a \in Addresses, Tables!Fetchaddr(p, a, left)
      PROVE  MapInv' /\ Tables!Abstract!Next
  BY <1>4, FetchaddrMaps
<1>5. ASSUME NEW a \in Addresses, NEW data \in Data, Tables!Store(p, a, data, left)
      PROVE  MapInv' /\ Tables!Abstract!Next
  BY <1>5, StoreMaps
<1>6. ASSUME NEW a \in Addresses, NEW data \in Data, Tables!Load(p, a, Len(data), left)
      PROVE  MapInv' /\ Tables!Abstract!Next
  BY <1>6, LoadMaps
<1>7. ASSUME NEW a \in Addresses, NEW data \in Data, Tables!Fetchstr(p, a, Len(data), left)
      PROVE  MapInv' /\ Tables!Abstract!Next
  BY <1>7, FetchstrMaps
<1> QED
  BY <1>1, <1>2, <1>3, <1>4, <1>5, <1>6, <1>7 DEF Tables!Call

LEMMA MapStep ==
  ASSUME ImagesBelowShm, "A4" \notin LazyKernels, MapInv, Tables!Next
  PROVE  MapInv' /\ Tables!Abstract!Next
<1>1. CASE Tables!Return
  BY <1>1, ReturnMaps
<1>2. ASSUME NEW p \in TableProc, NEW left, Tables!LongCall(p, left)
      PROVE  MapInv' /\ Tables!Abstract!Next
  BY <1>2, ExecMaps, ForkMaps DEF Tables!LongCall
<1>3. ASSUME NEW p \in TableProc, NEW left, Tables!Call(p, left)
      PROVE  MapInv' /\ Tables!Abstract!Next
  BY <1>3, CallMaps
<1>4. ASSUME NEW p \in TableProc, NEW n \in Amounts,
             Tables!SbrkLazy(p, n) \/ Tables!SbrkShrink(p, n)
      PROVE  MapInv' /\ Tables!Abstract!Next
  BY <1>4, LazyMaps, ShrinkMaps
<1>5. ASSUME NEW p \in TableProc, Tables!Exit(p)
      PROVE  MapInv' /\ Tables!Abstract!Next
  BY <1>5, ExitMaps
<1> QED
  BY <1>1, <1>2, <1>3, <1>4, <1>5 DEF Tables!Next

\* What holds of the tables half.
AnyMap == part = "tables" => MapInv

LEMMA AnyMapStarts ==
  ASSUME ImagesBelowShm, AnyInit
  PROVE  AnyMap /\ (part = "tables" => Tables!Abstract!Init)
<1>1. CASE part = "tables" /\ Tables!Init
  BY <1>1, MapStarts DEF AnyMap
<1>2. CASE part = "sharing"
  BY <1>2 DEF AnyMap
<1> QED
  BY <1>1, <1>2 DEF AnyInit

LEMMA AnyMapStep ==
  ASSUME ImagesBelowShm, "A4" \notin LazyKernels, AnyMap, [AnyNext]_allVars
  PROVE  AnyMap' /\ [part = "tables" => Tables!Abstract!Next]_allVars
<1>1. CASE part = "tables" /\ Tables!Next /\ UNCHANGED <<part, sharingVars>>
  <2>1. MapInv' /\ Tables!Abstract!Next
    BY <1>1, MapStep DEF AnyMap
  <2> QED
    BY <1>1, <2>1 DEF AnyMap
<1>2. CASE part = "sharing" /\ Next /\ UNCHANGED <<part, tableVars>>
  BY <1>2 DEF AnyMap
<1>3. CASE UNCHANGED allVars
  <2>1. /\ part' = part /\ kernel' = kernel /\ crashed' = crashed /\ pagetable' = pagetable
        /\ size' = size /\ used' = used
    BY <1>3 DEF allVars, tableVars, sharingVars
  <2>2. MapInv => MapInv'
    <3>1. SUFFICES ASSUME MapInv PROVE MapInv'
      OBVIOUS
    <3>2. TablesInv /\ crashed = FALSE
      BY <3>1 DEF MapInv, TablesInv
    <3>3. TablesInv'
      BY <2>1, <3>2, NothingChanges
    <3>4. PICK p \in TableProc : TRUE
      BY TablesAssumption
    <3> QED
      BY <2>1, <3>1, <3>3, <3>4, PagesSame
  <2> QED
    BY <1>3, <2>1, <2>2 DEF AnyMap
<1> QED
  BY <1>1, <1>2, <1>3 DEF AnyNext

(***************************************************************************)
(* What a process sees of its memory is what PageMap promises it: whatever *)
(* call runs, and wherever kalloc() refuses it a page, bytes and rights of *)
(* all pages are those of the abstract step, and so are the answer and the *)
(* bytes that the call returns (copyout(), copyin(), copyinstr(),          *)
(* vmfault(), uvmcopy(), uvmalloc(), uvmdealloc(), kexec()).               *)
(***************************************************************************)
THEOREM PageTablesImplementPageMap ==
  ASSUME ImagesBelowShm, "A4" \notin LazyKernels
  PROVE  AnySpec => ImplementsPageMap
<1>1. AnyInit => AnyMap /\ (part = "tables" => Tables!Abstract!Init)
  BY AnyMapStarts
<1>2. AnyMap /\ [AnyNext]_allVars =>
        AnyMap' /\ [part = "tables" => Tables!Abstract!Next]_allVars
  BY AnyMapStep
<1> QED
  BY <1>1, <1>2, PTL DEF AnySpec, ImplementsPageMap
=============================================================================
