------------------------------ MODULE KernelMemory ------------------------------
(***************************************************************************)
(* The memory of processes in both kernels, in its two halves:             *)
(*   sharing   Memory: who owns which frame while several processes fork,  *)
(*             clone, grow, shrink and exit at once                        *)
(*   tables    PageTables: what one page table holds, and what the system  *)
(*             calls read and write through it, when memory runs short     *)
(* A behaviour is of one half; of the other, the frames stay as they are   *)
(* at the boot and the tables are empty.                                   *)
(***************************************************************************)
EXTENDS Memory, Sequences

CONSTANTS WIDTH, PGSIZE, WORD, TableProc,                  \* PageTables
          Amounts, Addresses, Data, TableMaxSize, MaxPages, MaxFaultPages

VARIABLES part,
          pagetable, size, used, reply, crashed              \* PageTables

tableVars == <<pagetable, size, used, reply, crashed>>
sharingVars == <<state, sz, pte, family, op, references, panicked>>
allVars == <<part, kernel, sharingVars, tableVars>>

Tables == INSTANCE PageTables WITH
  sz <- size, panicked <- crashed, Proc <- TableProc, MaxSize <- TableMaxSize

ASSUME TablesAssumption ==
  /\ WIDTH \in Nat /\ PGSIZE \in Nat \ {0} /\ WORD \in Nat \ {0} /\ Tables!MAXVA \in Nat
  /\ IsFiniteSet(TableProc) /\ TableProc # {}
  /\ Amounts \subseteq Nat /\ Addresses \subseteq Nat
  /\ Data \subseteq Seq(Nat) \ {<<>>}
  /\ TableMaxSize \in Nat /\ MaxPages \in Nat /\ MaxFaultPages \in Nat

\* The pages at the top of the address space are in one table page, as they are
\* with three entries or more; and calls are about other pages than the shared
\* one, whose contents are left out.
ASSUME TopAssumption ==
  /\ Tables!Path(Tables!SHM_VA) = Tables!Path(Tables!TRAPFRAME)
  /\ \A a \in Addresses, data \in Data : \A i \in 0 .. Len(data) - 1 :
       Tables!PageOf(a + i) # Tables!SHM_VA

\* The strings that a system call writes, and whose lengths it reads.
SomeData == {<<1>>, <<1, 1, 0>>}

\* The process that is there at the boot.
First == CHOOSE p \in TableProc : TRUE

AnyInit ==
  /\ Init
  /\ \/ part = "tables" /\ Tables!Init /\ Tables!Exists(First)
     \/ /\ part = "sharing" /\ crashed = FALSE
        /\ pagetable = <<>> /\ size = <<>> /\ used = 0 /\ reply = <<>>

AnyNext == \/ part = "sharing" /\ Next /\ UNCHANGED <<part, tableVars>>
           \/ part = "tables" /\ Tables!Next /\ UNCHANGED <<part, sharingVars>>

AnySpec == AnyInit /\ [][AnyNext]_allVars

-------------------------------------------------------------------------------
\* Neither half panics: see NoPanic of Memory; in PageTables no page is mapped
\* twice, no hole is unmapped and no page table is freed with a page in it.
NeverPanics == NoPanic /\ ~crashed

\* Nothing is lost when a call fails half-way (the error paths of vm.c, proc.c).
PagesAccounted == part = "tables" => Tables!PagesAccounted

\* User memory is what PageMap says: zeros when new, the parent's bytes after a
\* fork, never written where it is read-only, never read where it is not the
\* user's (copyout(), copyin(), copyinstr(), vmfault(), uvmcopy()).
ImplementsPageMap ==
  /\ part = "tables" => Tables!Abstract!Init
  /\ [][part = "tables" => Tables!Abstract!Next]_allVars
===============================================================================
