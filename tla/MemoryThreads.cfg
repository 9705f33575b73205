\* Assignment 7: a thread grows the memory it shares.
CONSTANTS
  Proc = {init, p, q}
  InitProc = init
  Frame = {f1, f2, f3}
  PAGES = 3
  MaxSize = 2
  Kernels = {"A7"}
  LazyKernels = {"A7"}
  None = None
  Shm = Shm
SYMMETRY Symmetry
SPECIFICATION Spec
INVARIANT ThreadsSeeTheSame
