\* Two processes, a root and three more inodes, two names, the paths of one or
\* two components that lead through them, three calls in all, of those that
\* MCFileCalls lists.  The calls run
\* out, so the run deadlocks.
CHECK_DEADLOCK FALSE
CONSTANTS
  Proc = {p, q}
  Inode = {1, 2, 3, 4}
  File = {1, 2, 3}
  Name = {"a", "b"}
  Paths <- SomePaths
  Calls <- SomeCalls
  NOFILE = 2
  NLINK_MAX = 3
  MAXARG = 2
  PAGES = 3
  MaxCalls = 3
SPECIFICATION Spec
SYMMETRY Symmetry
INVARIANTS LinkCounts TreeSound NothingLost NoLockCycle
