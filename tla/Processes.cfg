\* init and two entries for processes and threads, in both kernels; two
\* processes that pause, and a tick counter that wraps around.
CONSTANTS
  NPROC = 3
  PAUSERS = 2
  WRAP = 6
  MaxTicks = 2
  MaxLate = 2
SPECIFICATION AnySpec
INVARIANTS NoMissedExit ProcessesHaveParents NoTickMissed
PROPERTIES NeverEarly WaitReturns PauseEnds
