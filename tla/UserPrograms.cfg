\* The programs with the numbers of processes, semaphores, slots and items of the
\* code; three rounds of peterson, two cycles of dining and syncdeadlock.
\* Every program ends, so the run deadlocks.
CHECK_DEADLOCK FALSE
CONSTANTS
  Programs = {"peterson", "prodcons", "readwrite", "dining", "fixed", "sync"}
  Process = {0, 1, 2, 3, 4}
  Sem = {0, 1, 2, 3, 4}
  TURNS = 3
  BUF_SIZE = 5
  ITEMS = 20
  Reader = {0, 1, 2}
  Writer = {3, 4}
  ROUNDS = 2
  NUM_PHIL = 5
  CYCLES = 2
SPECIFICATION Spec
INVARIANTS
  MutualExclusion CounterCorrect NotOvertaken NoCircularWait
PROPERTIES ImplementsChannel EveryoneFinishes
