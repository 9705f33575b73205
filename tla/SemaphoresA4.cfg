\* Assignment 4, nobody calling during the first sem_init; counts from -1.
\* All processes may wait at once: nobody is obliged to signal.
CHECK_DEADLOCK FALSE
CONSTANTS
  NPROC = 3
  Sem = {s1}
  NoChan = NoChan
  MaxDebt = 1
  MaxValue = 1
  InitWhileWaiting = FALSE
  FirstInitAlone = TRUE
SPECIFICATION A4Spec
 
PROPERTIES  ServesWaiters
