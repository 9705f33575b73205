\* Three processes, one semaphore: two can wait while the third signals.
\* All processes may wait at once: nobody is obliged to signal.
CHECK_DEADLOCK FALSE
CONSTANTS
  NPROC = 3
  Sem = {s1}
  NoChan = NoChan
  MaxValue = 2
  InitWhileWaiting = FALSE
SPECIFICATION Spec
INVARIANTS NoLostWakeup LocksHeldRunning SleepersReachable
PROPERTIES ImplementsCountingSemaphore ServesWaiters KilledSleeperDies
