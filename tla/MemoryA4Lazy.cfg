\* Assignment 4 when its programs call sbrklazy(): unmapping a hole panics.
CONSTANTS
  Proc = {init, p, q}
  InitProc = init
  Frame = {f1, f2, f3}
  PAGES = 3
  MaxSize = 2
  Kernels = {"A4"}
  LazyKernels = {"A4"}
  None = None
  Shm = Shm
SYMMETRY Symmetry
SPECIFICATION Spec
INVARIANT NoPanic
