\* Priorities 1..3, promotion after 2 ticks; the machines of MCSchedulers.
CONSTANTS
  NPROC = 3
  NCPU = 2
  MAXPRIO = 3
  DEFPRIO = 2
  AGE = 2
  Machines <- SomeMachines
SPECIFICATION Spec
INVARIANTS RunsOnce IdleOnlyWithoutWork
PROPERTIES ClaimsMostUrgent NoStarvation
