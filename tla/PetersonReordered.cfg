\* Stores in the order RISC-V allows between two fences.
\* Both processes end after their rounds.
CHECK_DEADLOCK FALSE
CONSTANTS
  ITERS = 1
  InOrder = FALSE
SPECIFICATION SafeSpec
INVARIANT MutualExclusion
