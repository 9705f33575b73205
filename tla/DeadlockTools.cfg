\* The tables of bankers.c with requests of at most three units of each kind;
\* all tables of three processes and two kinds of resources with entries 0 and 1;
\* all graphs of four tasks and three resources, at most two requests for a task.
\* The searches end, so the run deadlocks.
CHECK_DEADLOCK FALSE
CONSTANTS
  Tools = {"bankers", "detect", "graph"}
  NUM_PROCS = 5
  NUM_RES = 3
  Demand <- BankersDemand
  Allocation <- BankersAllocation
  Available <- BankersAvailable
  MaxRequest = 3
  n = 3
  m = 2
  MaxUnits = 1
  NUM_TASKS = 4
  NUM_RSRC = 3
  MaxPending = 2
SPECIFICATION Spec
INVARIANTS
  TablesConsistent AlwaysSafe SafetyAlgorithmCorrect
  VerdictsCorrect
PROPERTIES  SearchesEnd
