\* The sharing half: two processes beside init, three frames, three pages. Both
\* kernels; programs of Assignment 4 do not call sbrklazy(); sizes stay
\* below SHM_VA.
\* The tables half: three entries in a table page and two bytes in a page, so that
\* the program image fills the first table page of the lowest level and the heap
\* begins in the next.  Addresses: text and guard page, stack and heap, the end of
\* the heap, and the trapframe's page.
CONSTANTS
  Proc = {init, p, q}
  InitProc = init
  Frame = {f1, f2, f3}
  PAGES = 3
  MaxSize = 2
  Kernels = {"A7", "A4"}
  LazyKernels = {"A7"}
  None = None
  Shm = Shm
  WIDTH = 3
  PGSIZE = 2
  WORD = 2
  TableProc = {1, 2}
  Amounts = {1, 3, 54}
  Addresses = {1, 5, 7, 50}
  Data <- SomeData
  TableMaxSize = 8
  MaxPages = 11
  MaxFaultPages = 4
SYMMETRY Symmetry
SPECIFICATION AnySpec
INVARIANTS FramesAccounted OnlyThreadsShare NeverPanics PagesAccounted
PROPERTIES ImplementsPageMap
